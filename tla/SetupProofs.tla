------------------------------ MODULE SetupProofs ------------------------------
(* Building the FM driver up and taking it down, for any number of steps that fail  *)
(* and any number of bindings.                                                      *)
(*                                                                                  *)
(* SetupIsUndone speaks of what is there; what makes it inductive is the order of   *)
(* the steps still ahead.  The first part shows that every routine and every way    *)
(* out of one keeps that order (Follows), frees a thing once (Untouched) and covers *)
(* what its way has to undo (Scope); the second that a step leaves a suffix of it,  *)
(* or a way, in the same order; the third that one routine may follow another.      *)
EXTENDS MCDevices, Integers, TLAPS

-----------------------------------------------------------------------------
(* The order of steps, and the routines. *)

IsSeq(t)     == t \in Seq(Setup!SetOf(t))
Before(A, B) == \A x \in A, y \in B : Setup!Follows(x, y)
Keeps(t)     == IsSeq(t) /\ Setup!InOrder(t)
Once(A, B)   == \A x \in A, y \in B : x[1] = "free" => Setup!Untouched(x[2], y)

LEMMA IsOfIt == ASSUME NEW s, NEW i \in DOMAIN s PROVE s[i] \in Setup!SetOf(s)
BY DEF Setup!SetOf

LEMMA IsASeq == ASSUME NEW A, NEW s \in Seq(A) PROVE IsSeq(s)
<1>1. Len(s) \in Nat /\ DOMAIN s = 1 .. Len(s) /\ s \in [1 .. Len(s) -> A]
  OBVIOUS
<1>2. s \in [1 .. Len(s) -> Setup!SetOf(s)]
  BY <1>1, IsOfIt
<1>3. s \in Seq(Setup!SetOf(s))
  BY <1>1, <1>2
<1> QED BY <1>3 DEF IsSeq

LEMMA Joins ==
  ASSUME NEW s, NEW t, IsSeq(s), IsSeq(t)
  PROVE  IsSeq(s \o t) /\ Setup!SetOf(s \o t) = Setup!SetOf(s) \union Setup!SetOf(t)
<1> DEFINE A == Setup!SetOf(s) \union Setup!SetOf(t)
<1>1. s \in Seq(A) /\ t \in Seq(A)
  BY DEF IsSeq
<1>2. s \o t \in Seq(A) /\ Len(s \o t) = Len(s) + Len(t) /\ DOMAIN (s \o t) = 1 .. Len(s) + Len(t)
  BY <1>1
<1>3. \A i \in 1 .. Len(s) + Len(t) : (s \o t)[i] = IF i <= Len(s) THEN s[i] ELSE t[i - Len(s)]
  BY <1>1
<1>4. DOMAIN s = 1 .. Len(s) /\ DOMAIN t = 1 .. Len(t) /\ Len(s) \in Nat /\ Len(t) \in Nat
  BY <1>1
<1>5. \A i \in DOMAIN (s \o t) : (s \o t)[i] \in A
  BY <1>2
<1>6. \A i \in DOMAIN s : s[i] = (s \o t)[i] /\ i \in DOMAIN (s \o t)
  BY <1>2, <1>3, <1>4
<1>7. \A i \in DOMAIN t : t[i] = (s \o t)[i + Len(s)] /\ i + Len(s) \in DOMAIN (s \o t)
  BY <1>2, <1>3, <1>4
<1>8. Setup!SetOf(s \o t) = A
  <2>1. Setup!SetOf(s \o t) \subseteq A
    <3> HIDE DEF A
    <3> QED BY <1>5 DEF Setup!SetOf
  <2>2. Setup!SetOf(s) \subseteq Setup!SetOf(s \o t)
    BY <1>6 DEF Setup!SetOf
  <2>3. Setup!SetOf(t) \subseteq Setup!SetOf(s \o t)
    BY <1>7 DEF Setup!SetOf
  <2> QED BY <2>1, <2>2, <2>3
<1> QED BY <1>2, <1>8 DEF IsSeq

LEMMA JoinsInOrder ==
  ASSUME NEW s, NEW t, Keeps(s), Keeps(t), Before(Setup!SetOf(s), Setup!SetOf(t))
  PROVE  Keeps(s \o t)
<1> DEFINE A == Setup!SetOf(s) \union Setup!SetOf(t)
<1>1. s \in Seq(A) /\ t \in Seq(A)
  BY DEF IsSeq, Keeps
<1>2. \A i \in 1 .. Len(s) + Len(t) : (s \o t)[i] = IF i <= Len(s) THEN s[i] ELSE t[i - Len(s)]
  BY <1>1
<1>3. /\ DOMAIN s = 1 .. Len(s) /\ DOMAIN t = 1 .. Len(t) /\ Len(s) \in Nat /\ Len(t) \in Nat
      /\ DOMAIN (s \o t) = 1 .. Len(s) + Len(t)
  BY <1>1
<1> SUFFICES ASSUME NEW i \in DOMAIN (s \o t), NEW j \in DOMAIN (s \o t), i < j
             PROVE  Setup!Follows((s \o t)[i], (s \o t)[j])
  BY Joins DEF Keeps, Setup!InOrder
<1>4. CASE j <= Len(s)
  <2>1. i \in DOMAIN s /\ j \in DOMAIN s /\ (s \o t)[i] = s[i] /\ (s \o t)[j] = s[j]
    BY <1>2, <1>3, <1>4
  <2> QED BY <2>1 DEF Keeps, Setup!InOrder
<1>5. CASE i <= Len(s) /\ j > Len(s)
  <2>1. i \in DOMAIN s /\ j - Len(s) \in DOMAIN t /\ (s \o t)[i] = s[i] /\ (s \o t)[j] = t[j - Len(s)]
    BY <1>2, <1>3, <1>5
  <2> QED BY <2>1 DEF Before, Setup!SetOf
<1>6. CASE i > Len(s)
  <2>1. /\ i - Len(s) \in DOMAIN t /\ j - Len(s) \in DOMAIN t /\ i - Len(s) < j - Len(s)
        /\ (s \o t)[i] = t[i - Len(s)] /\ (s \o t)[j] = t[j - Len(s)]
    BY <1>2, <1>3, <1>6
  <2> QED BY <2>1 DEF Keeps, Setup!InOrder
<1> QED BY <1>3, <1>4, <1>5, <1>6

LEMMA JoinsFreedOnce ==
  ASSUME NEW s, NEW t, IsSeq(s), IsSeq(t), Setup!FreedOnce(s), Setup!FreedOnce(t),
      Once(Setup!SetOf(s), Setup!SetOf(t))
  PROVE  Setup!FreedOnce(s \o t)
<1> DEFINE A == Setup!SetOf(s) \union Setup!SetOf(t)
<1>1. s \in Seq(A) /\ t \in Seq(A)
  BY DEF IsSeq
<1>2. \A i \in 1 .. Len(s) + Len(t) : (s \o t)[i] = IF i <= Len(s) THEN s[i] ELSE t[i - Len(s)]
  BY <1>1
<1>3. /\ DOMAIN s = 1 .. Len(s) /\ DOMAIN t = 1 .. Len(t) /\ Len(s) \in Nat /\ Len(t) \in Nat
      /\ DOMAIN (s \o t) = 1 .. Len(s) + Len(t)
  BY <1>1
<1> SUFFICES ASSUME NEW i \in DOMAIN (s \o t), NEW j \in DOMAIN (s \o t), i < j, (s \o t)[i][1] = "free"
             PROVE  Setup!Untouched((s \o t)[i][2], (s \o t)[j])
  BY DEF Setup!FreedOnce
<1>4. CASE j <= Len(s)
  <2>1. i \in DOMAIN s /\ j \in DOMAIN s /\ (s \o t)[i] = s[i] /\ (s \o t)[j] = s[j]
    BY <1>2, <1>3, <1>4
  <2> QED BY <2>1 DEF Setup!FreedOnce
<1>5. CASE i <= Len(s) /\ j > Len(s)
  <2>1. i \in DOMAIN s /\ j - Len(s) \in DOMAIN t /\ (s \o t)[i] = s[i] /\ (s \o t)[j] = t[j - Len(s)]
    BY <1>2, <1>3, <1>5
  <2> QED BY <2>1 DEF Once, Setup!SetOf
<1>6. CASE i > Len(s)
  <2>1. /\ i - Len(s) \in DOMAIN t /\ j - Len(s) \in DOMAIN t /\ i - Len(s) < j - Len(s)
        /\ (s \o t)[i] = t[i - Len(s)] /\ (s \o t)[j] = t[j - Len(s)]
    BY <1>2, <1>3, <1>6
  <2> QED BY <2>1 DEF Setup!FreedOnce
<1> QED BY <1>3, <1>4, <1>5, <1>6

LEMMA JoinsTaken ==
  ASSUME NEW s, NEW t, IsSeq(s), IsSeq(t), Setup!TakenAtOnce(s), Setup!TakenAtOnce(t)
  PROVE  Setup!TakenAtOnce(s \o t)
<1> DEFINE A == Setup!SetOf(s) \union Setup!SetOf(t)
<1>1. s \in Seq(A) /\ t \in Seq(A)
  BY DEF IsSeq
<1>2. \A i \in 1 .. Len(s) + Len(t) : (s \o t)[i] = IF i <= Len(s) THEN s[i] ELSE t[i - Len(s)]
  BY <1>1
<1>3. /\ DOMAIN s = 1 .. Len(s) /\ DOMAIN t = 1 .. Len(t) /\ Len(s) \in Nat /\ Len(t) \in Nat
      /\ DOMAIN (s \o t) = 1 .. Len(s) + Len(t)
  BY <1>1
<1> SUFFICES ASSUME NEW i \in DOMAIN (s \o t), (s \o t)[i][1] = "new",
                    (s \o t)[i][2] \in Setup!Counted \ (Setup!Locks \union {"rds_data"})
             PROVE  i + 1 \in DOMAIN (s \o t) /\ Setup!Is((s \o t)[i + 1], "get", (s \o t)[i][2])
  BY DEF Setup!TakenAtOnce
<1>4. CASE i <= Len(s)
  <2>1. i \in DOMAIN s /\ (s \o t)[i] = s[i]
    BY <1>2, <1>3, <1>4
  <2>2. i + 1 \in DOMAIN s /\ Setup!Is(s[i + 1], "get", s[i][2])
    BY <2>1 DEF Setup!TakenAtOnce
  <2>3. i + 1 \in DOMAIN (s \o t) /\ (s \o t)[i + 1] = s[i + 1]
    BY <1>2, <1>3, <2>2
  <2> QED BY <2>1, <2>2, <2>3
<1>5. CASE i > Len(s)
  <2>1. i - Len(s) \in DOMAIN t /\ (s \o t)[i] = t[i - Len(s)]
    BY <1>2, <1>3, <1>5
  <2>2. i - Len(s) + 1 \in DOMAIN t /\ Setup!Is(t[i - Len(s) + 1], "get", t[i - Len(s)][2])
    BY <2>1 DEF Setup!TakenAtOnce
  <2>3. i + 1 \in DOMAIN (s \o t) /\ (s \o t)[i + 1] = t[i - Len(s) + 1]
    BY <1>2, <1>3, <1>5, <2>2
  <2> QED BY <2>1, <2>2, <2>3
<1> QED BY <1>3, <1>4, <1>5

LEMMA Tails ==
  ASSUME NEW t, IsSeq(t), t # <<>>
  PROVE  /\ IsSeq(Tail(t)) /\ Setup!SetOf(t) = {t[1]} \union Setup!SetOf(Tail(t))
         /\ Setup!InOrder(t) => Setup!InOrder(Tail(t)) /\ \A y \in Setup!SetOf(Tail(t)) : Setup!Follows(t[1], y)
         /\ Setup!FreedOnce(t) => Setup!FreedOnce(Tail(t)) /\ \A y \in Setup!SetOf(Tail(t)) :
              t[1][1] = "free" => Setup!Untouched(t[1][2], y)
<1> DEFINE A == Setup!SetOf(t)
<1>1. t \in Seq(A) /\ Len(t) \in Nat /\ Len(t) >= 1 /\ DOMAIN t = 1 .. Len(t)
  BY DEF IsSeq
<1>2. Tail(t) \in Seq(A) /\ Len(Tail(t)) = Len(t) - 1 /\ DOMAIN Tail(t) = 1 .. Len(t) - 1
  BY <1>1
<1>3. \A i \in DOMAIN Tail(t) : i + 1 \in DOMAIN t /\ Tail(t)[i] = t[i + 1]
  BY <1>1, <1>2
<1>4. \A i \in DOMAIN t : i = 1 \/ (i - 1 \in DOMAIN Tail(t) /\ t[i] = Tail(t)[i - 1])
  BY <1>1, <1>2
<1>5. Setup!SetOf(t) = {t[1]} \union Setup!SetOf(Tail(t))
  BY <1>1, <1>3, <1>4 DEF Setup!SetOf
<1>6. IsSeq(Tail(t))
  BY <1>2, IsASeq
<1>7. \A i, j \in DOMAIN Tail(t) : i < j => i + 1 < j + 1
  BY <1>2
<1>8. \A i \in DOMAIN Tail(t) : 1 \in DOMAIN t /\ 1 < i + 1
  BY <1>1, <1>2
<1>9. ASSUME Setup!InOrder(t) PROVE Setup!InOrder(Tail(t)) /\ \A y \in Setup!SetOf(Tail(t)) :
    Setup!Follows(t[1], y)
  <2>1. \A i, j \in DOMAIN Tail(t) : i < j => Setup!Follows(Tail(t)[i], Tail(t)[j])
    BY <1>3, <1>7, <1>9 DEF Setup!InOrder
  <2>2. \A i \in DOMAIN Tail(t) : Setup!Follows(t[1], Tail(t)[i])
    BY <1>3, <1>8, <1>9 DEF Setup!InOrder
  <2> QED BY <2>1, <2>2 DEF Setup!InOrder, Setup!SetOf
<1>10. ASSUME Setup!FreedOnce(t)
       PROVE  Setup!FreedOnce(Tail(t)) /\ \A y \in Setup!SetOf(Tail(t)) : t[1][1] = "free" =>
           Setup!Untouched(t[1][2], y)
  <2>1. \A i, j \in DOMAIN Tail(t) : i < j /\ Tail(t)[i][1] = "free" =>
      Setup!Untouched(Tail(t)[i][2], Tail(t)[j])
    BY <1>3, <1>7, <1>10 DEF Setup!FreedOnce
  <2>2. \A i \in DOMAIN Tail(t) : t[1][1] = "free" => Setup!Untouched(t[1][2], Tail(t)[i])
    BY <1>3, <1>8, <1>10 DEF Setup!FreedOnce
  <2> QED BY <2>1, <2>2 DEF Setup!FreedOnce, Setup!SetOf
<1> QED BY <1>5, <1>6, <1>9, <1>10

LEMMA TailsTaken ==
  ASSUME NEW t, IsSeq(t), t # <<>>, Setup!TakenAtOnce(t)
  PROVE  /\ Setup!TakenAtOnce(Tail(t))
         /\ t[1][1] = "new" /\ t[1][2] \in Setup!Counted \ (Setup!Locks \union {"rds_data"}) =>
              Tail(t) # <<>> /\ Setup!Is(Tail(t)[1], "get", t[1][2])
<1> DEFINE A == Setup!SetOf(t)
<1>1. t \in Seq(A) /\ Len(t) \in Nat /\ Len(t) >= 1 /\ DOMAIN t = 1 .. Len(t)
  BY DEF IsSeq
<1>2. Tail(t) \in Seq(A) /\ Len(Tail(t)) = Len(t) - 1 /\ DOMAIN Tail(t) = 1 .. Len(t) - 1
  BY <1>1
<1>3. \A i \in DOMAIN Tail(t) : i + 1 \in DOMAIN t /\ Tail(t)[i] = t[i + 1]
  BY <1>1, <1>2
<1>4. \A i \in DOMAIN Tail(t) : i + 1 + 1 \in DOMAIN t => i + 1 \in DOMAIN Tail(t)
  BY <1>1, <1>2
<1>5. Setup!TakenAtOnce(Tail(t))
  BY <1>3, <1>4 DEF Setup!TakenAtOnce
<1>6. 1 \in DOMAIN t /\ (1 + 1 \in DOMAIN t => 1 \in DOMAIN Tail(t))
  BY <1>1, <1>2
<1>7. \A u : 1 \in DOMAIN u => u # <<>>
  OBVIOUS
<1> QED BY <1>3, <1>5, <1>6, <1>7 DEF Setup!TakenAtOnce

LEMMA EachIs == ASSUME NEW verb, NEW os, IsSeq(os)
                PROVE  /\ IsSeq(Setup!Each(verb, os))
                       /\ Setup!SetOf(Setup!Each(verb, os)) = {<<verb, o>> : o \in Setup!SetOf(os)}
<1>1. os \in Seq(Setup!SetOf(os)) /\ Len(os) \in Nat /\ DOMAIN os = 1 .. Len(os)
  BY DEF IsSeq
<1>2. DOMAIN Setup!Each(verb, os) = DOMAIN os /\ \A i \in DOMAIN os : Setup!Each(verb, os)[i] = <<verb, os[i]>>
  BY DEF Setup!Each
<1>3. Setup!SetOf(Setup!Each(verb, os)) = {<<verb, o>> : o \in Setup!SetOf(os)}
  BY <1>2 DEF Setup!SetOf
<1>4. Setup!Each(verb, os) \in [1 .. Len(os) -> Setup!SetOf(Setup!Each(verb, os))]
  BY <1>1, <1>2 DEF Setup!SetOf, Setup!Each
<1>5. Setup!Each(verb, os) \in Seq(Setup!SetOf(Setup!Each(verb, os)))
  BY <1>1, <1>4
<1> QED BY <1>3, <1>5 DEF IsSeq

LEMMA NewIs == ASSUME NEW os, NEW way, IsSeq(os)
               PROVE  /\ IsSeq(Setup!New(os, way))
                      /\ Setup!SetOf(Setup!New(os, way)) = {<<"new", o, way>> : o \in Setup!SetOf(os)}
<1>1. os \in Seq(Setup!SetOf(os)) /\ Len(os) \in Nat /\ DOMAIN os = 1 .. Len(os)
  BY DEF IsSeq
<1>2. DOMAIN Setup!New(os, way) = DOMAIN os /\
    \A i \in DOMAIN os : Setup!New(os, way)[i] = <<"new", os[i], way>>
  BY DEF Setup!New
<1>3. Setup!SetOf(Setup!New(os, way)) = {<<"new", o, way>> : o \in Setup!SetOf(os)}
  BY <1>2 DEF Setup!SetOf
<1>4. Setup!New(os, way) \in [1 .. Len(os) -> Setup!SetOf(Setup!New(os, way))]
  BY <1>1, <1>2 DEF Setup!SetOf, Setup!New
<1>5. Setup!New(os, way) \in Seq(Setup!SetOf(Setup!New(os, way)))
  BY <1>1, <1>4
<1> QED BY <1>3, <1>5 DEF IsSeq

Undoing(t) == IsSeq(t) /\ Setup!InOrder(t) /\ \A y \in Setup!SetOf(t) : Setup!Fine(y) /\ y[1] \in Setup!Undoers

LEMMA LockSets ==
  /\ IsSeq(Setup!LocksBeforeRtc) /\ IsSeq(Setup!LocksAfterRtc) /\ IsSeq(Setup!Works)
  /\ Setup!SetOf(Setup!LocksBeforeRtc) = {"fm_ops_lock", "fm_read_lock", "fm_rds_cnt", "fm_timer_lock",
       "fm_rxtx_lock"}
  /\ Setup!SetOf(Setup!LocksAfterRtc) = {"tx_lock", "own_lock"}
  /\ Setup!SetOf(Setup!Works) = {"eint_wk", "rst_wk", "rds_wk", "tx_power_wk", "tx_desense_wk", "pwroff_wk"}
BY DEF IsSeq, Setup!LocksBeforeRtc, Setup!LocksAfterRtc, Setup!Works, Setup!SetOf

LEMMA ObjectSets ==
  /\ Setup!Locks = {"fm_ops_lock", "fm_read_lock", "fm_rds_cnt", "fm_timer_lock", "fm_rxtx_lock", "tx_lock",
       "own_lock",
                    "fm_rtc_mutex"}
  /\ Setup!Fm = {"rds_event", "rds_data", "timer_wkthd", "eint_wkthd", "eint_wk", "rst_wk", "rds_wk",
       "tx_power_wk",
                 "tx_desense_wk", "pwroff_wk"}
  /\ Setup!Device = Setup!Fm \union {"fm", "chrdev", "cdev", "class", "device", "proc"}
  /\ Setup!Env = Setup!Locks \union {"cmd_buf", "cmd_buf_lock", "link_event", "ln_event", "cmd_fifo",
       "evt_fifo", "fm_timer_sys",
                                     "regs"}
  /\ Setup!Counted = Setup!Locks \union Setup!Fm \union {"cmd_buf_lock", "fm_timer_sys", "ln_event"}
BY LockSets DEF Setup!Locks, Setup!Fm, Setup!Device, Setup!Env, Setup!Counted, Setup!Link, Setup!CmdPath

\* No step comes too late after these.
Mild(x) ==
  /\ x[1] \in Setup!Undoers \ {"orstop"}
  /\ ~Setup!Is(x, "drop", "fm") /\ ~Setup!Is(x, "put", "rst_wk") /\ ~Setup!Is(x, "put", "cmd_buf_lock")

LEMMA MildFirst == ASSUME NEW x, Mild(x), NEW y PROVE Setup!Follows(x, y)
BY DEF Mild, Setup!Follows, Setup!Is, Setup!Undoers

LEMMA MildInOrder == ASSUME NEW t, IsSeq(t), \A x \in Setup!SetOf(t) : Mild(x) PROVE Setup!InOrder(t)
<1>1. \A i \in DOMAIN t : Mild(t[i])
  BY DEF Setup!SetOf
<1> QED BY <1>1, MildFirst DEF Setup!InOrder

LEMMA NothingTaken == ASSUME NEW t, IsSeq(t), \A y \in Setup!SetOf(t) : y[1] \in Setup!Undoers
  PROVE Setup!TakenAtOnce(t)
BY DEF Setup!SetOf, Setup!TakenAtOnce, Setup!Undoers

LEMMA NothingFreed == ASSUME NEW t, IsSeq(t), \A y \in Setup!SetOf(t) : y[1] # "free" PROVE Setup!FreedOnce(t)
BY DEF Setup!SetOf, Setup!FreedOnce

LEMMA UndoingJoins ==
  ASSUME NEW s, NEW t, Undoing(s), Undoing(t), Before(Setup!SetOf(s), Setup!SetOf(t))
  PROVE  Undoing(s \o t) /\ Setup!SetOf(s \o t) = Setup!SetOf(s) \union Setup!SetOf(t)
BY Joins, JoinsInOrder DEF Undoing, Keeps

LEMMA LinkReleases ==
  /\ Setup!SetOf(Setup!fm_link_release) = {<<"free", "evt_fifo">>, <<"free", "cmd_fifo">>,
       <<"put", "ln_event">>,
                                           <<"free", "link_event">>}
  /\ Undoing(Setup!fm_link_release) /\ Setup!FreedOnce(Setup!fm_link_release)
<1>1. IsSeq(Setup!fm_link_release)
  BY DEF IsSeq, Setup!fm_link_release, Setup!SetOf
<1>2. Setup!SetOf(Setup!fm_link_release) = {<<"free", "evt_fifo">>, <<"free", "cmd_fifo">>,
    <<"put", "ln_event">>,
                                            <<"free", "link_event">>}
  BY DEF Setup!fm_link_release, Setup!SetOf
<1>3. \A x \in Setup!SetOf(Setup!fm_link_release) : Mild(x)
  BY <1>2 DEF Mild, Setup!Is, Setup!Undoers
<1>4. Setup!FreedOnce(Setup!fm_link_release)
  BY ObjectSets DEF Setup!FreedOnce, Setup!fm_link_release, Setup!Untouched, Setup!Holder
<1>5. \A x \in Setup!SetOf(Setup!fm_link_release) : Setup!Fine(x) /\ x[1] \in Setup!Undoers
  BY <1>2, ObjectSets DEF Setup!Fine, Setup!Undoers, Setup!Link
<1> QED BY <1>1, <1>2, <1>3, <1>4, <1>5, MildInOrder DEF Undoing

LEMMA OpsUnregister ==
  /\ Setup!SetOf(Setup!fm_ops_unregister) = {<<"orstop", "library">>, <<"orstop", "low_ops_unregister">>,
       <<"drop", "cmd_buf">>,
                                             <<"orstop", "cmd_buf_lock">>, <<"put", "cmd_buf_lock">>}
  /\ Undoing(Setup!fm_ops_unregister)
<1>1. IsSeq(Setup!fm_ops_unregister)
  BY DEF IsSeq, Setup!fm_ops_unregister, Setup!SetOf
<1>2. Setup!SetOf(Setup!fm_ops_unregister) = {<<"orstop", "library">>, <<"orstop", "low_ops_unregister">>,
    <<"drop", "cmd_buf">>,
                                              <<"orstop", "cmd_buf_lock">>, <<"put", "cmd_buf_lock">>}
  BY DEF Setup!fm_ops_unregister, Setup!SetOf
<1>3. Setup!InOrder(Setup!fm_ops_unregister)
  BY ObjectSets DEF Setup!InOrder, Setup!fm_ops_unregister, Setup!Follows, Setup!Is
<1>5. \A x \in Setup!SetOf(Setup!fm_ops_unregister) : Setup!Fine(x) /\ x[1] \in Setup!Undoers
  BY <1>2, ObjectSets DEF Setup!Fine, Setup!Undoers
<1> QED BY <1>1, <1>2, <1>3, <1>5 DEF Undoing

LEMMA NothingToDo == Undoing(<<>>) /\ Setup!FreedOnce(<<>>) /\ Setup!SetOf(<<>>) = {}
<1>1. Setup!SetOf(<<>>) = {}
  BY DEF Setup!SetOf
<1>2. IsSeq(<<>>)
  BY <1>1 DEF IsSeq
<1>3. Setup!InOrder(<<>>) /\ Setup!FreedOnce(<<>>)
  BY DEF Setup!InOrder, Setup!FreedOnce
<1> QED BY <1>1, <1>2, <1>3 DEF Undoing

\* All that is undone of the environment but the link: nothing of it comes too early
\* after the link.
LEMMA EnvDestroys ==
  /\ Undoing(Setup!fm_env_destroy) /\ Setup!FreedOnce(Setup!fm_env_destroy)
  /\ Setup!SetOf(Setup!fm_env_destroy) =
       Setup!SetOf(Setup!fm_link_release) \union Setup!SetOf(Setup!fm_ops_unregister)
         \union {<<"put", o>> : o \in Setup!Locks \union {"fm_timer_sys"}}
<1> DEFINE T1 == Setup!Each("put", Setup!LocksBeforeRtc)
           T2 == << <<"put", "fm_rtc_mutex">>, <<"put", "fm_timer_sys">> >>
           T3 == Setup!Each("put", Setup!LocksAfterRtc)
           S1 == {<<"put", o>> : o \in Setup!SetOf(Setup!LocksBeforeRtc)}
           S2 == {<<"put", "fm_rtc_mutex">>, <<"put", "fm_timer_sys">>}
           S3 == {<<"put", o>> : o \in Setup!SetOf(Setup!LocksAfterRtc)}
           PutsLocks(x) == Mild(x) /\ Setup!Fine(x) /\ x[1] = "put" /\
               x[2] \in Setup!Locks \union {"fm_timer_sys"}
<1>1. IsSeq(T1) /\ Setup!SetOf(T1) = S1 /\ IsSeq(T3) /\ Setup!SetOf(T3) = S3
  BY EachIs, LockSets
<1>2. IsSeq(T2) /\ Setup!SetOf(T2) = S2
  BY DEF IsSeq, Setup!SetOf
<1>3. \A x \in S1 \union S2 \union S3 : PutsLocks(x)
  BY LockSets, ObjectSets DEF Mild, Setup!Is, Setup!Undoers, Setup!Fine
<1>4. Undoing(T1) /\ Undoing(T2) /\ Undoing(T3)
  BY <1>1, <1>2, <1>3, MildInOrder DEF Undoing, Setup!Undoers
<1> HIDE DEF T1, T2, T3, S1, S2, S3
<1>5. Before(Setup!SetOf(Setup!fm_link_release), Setup!SetOf(Setup!fm_ops_unregister))
  BY LinkReleases, MildFirst DEF Before, Mild, Setup!Undoers, Setup!Is
<1> DEFINE B == Setup!fm_link_release \o Setup!fm_ops_unregister
<1>6. /\ Undoing(B)
      /\ Setup!SetOf(B) = Setup!SetOf(Setup!fm_link_release) \union Setup!SetOf(Setup!fm_ops_unregister)
  BY <1>5, LinkReleases, OpsUnregister, UndoingJoins
<1>7. Setup!FreedOnce(B)
  <2>1. Once(Setup!SetOf(Setup!fm_link_release), Setup!SetOf(Setup!fm_ops_unregister))
    BY LinkReleases, OpsUnregister, ObjectSets DEF Once, Setup!Untouched, Setup!Holder
  <2>2. Setup!FreedOnce(Setup!fm_ops_unregister)
    BY OpsUnregister, NothingFreed DEF Undoing
  <2> QED BY <2>1, <2>2, LinkReleases, OpsUnregister, JoinsFreedOnce DEF Undoing
<1>8. \A x \in Setup!SetOf(B) : \A y : PutsLocks(y) => Setup!Follows(x, y) /\
    (x[1] = "free" => Setup!Untouched(x[2], y))
  BY <1>6, LinkReleases, OpsUnregister, ObjectSets DEF Setup!Follows, Setup!Is, Setup!Untouched, Setup!Holder
<1>9. \A x, y : PutsLocks(x) /\ PutsLocks(y) => Setup!Follows(x, y) /\ x[1] # "free"
  BY MildFirst
<1> HIDE DEF B, PutsLocks
<1>10. Setup!FreedOnce(T1) /\ Setup!FreedOnce(T2) /\ Setup!FreedOnce(T3)
  BY <1>1, <1>2, <1>3, <1>9, NothingFreed
<1>11. Undoing(B \o T1) /\ Setup!FreedOnce(B \o T1) /\ Setup!SetOf(B \o T1) = Setup!SetOf(B) \union S1
  <2>1. Before(Setup!SetOf(B), Setup!SetOf(T1)) /\ Once(Setup!SetOf(B), Setup!SetOf(T1))
    BY <1>1, <1>3, <1>8 DEF Before, Once
  <2> QED BY <1>1, <1>4, <1>6, <1>7, <1>10, <2>1, UndoingJoins, JoinsFreedOnce DEF Undoing
<1>12. /\ Undoing(B \o T1 \o T2)
       /\ Setup!FreedOnce(B \o T1 \o T2)
       /\ Setup!SetOf(B \o T1 \o T2) = Setup!SetOf(B) \union S1 \union S2
  <2>1. Before(Setup!SetOf(B \o T1), Setup!SetOf(T2)) /\ Once(Setup!SetOf(B \o T1), Setup!SetOf(T2))
    BY <1>2, <1>3, <1>8, <1>9, <1>11 DEF Before, Once
  <2> QED BY <1>2, <1>4, <1>11, <1>10, <2>1, UndoingJoins, JoinsFreedOnce DEF Undoing
<1>13. /\ Undoing(B \o T1 \o T2 \o T3) /\ Setup!FreedOnce(B \o T1 \o T2 \o T3)
       /\ Setup!SetOf(B \o T1 \o T2 \o T3) = Setup!SetOf(B) \union S1 \union S2 \union S3
  <2>1. Before(Setup!SetOf(B \o T1 \o T2), Setup!SetOf(T3)) /\ Once(Setup!SetOf(B \o T1 \o T2), Setup!SetOf(T3))
    BY <1>1, <1>3, <1>8, <1>9, <1>12 DEF Before, Once
  <2> QED BY <1>1, <1>4, <1>12, <1>10, <2>1, UndoingJoins, JoinsFreedOnce DEF Undoing
<1>14. Setup!fm_env_destroy = B \o T1 \o T2 \o T3
  BY DEF Setup!fm_env_destroy, B, T1, T2, T3
<1>15. S1 \union S2 \union S3 = {<<"put", o>> : o \in Setup!Locks \union {"fm_timer_sys"}}
  BY LockSets DEF S1, S2, S3, Setup!Locks
<1> QED BY <1>6, <1>13, <1>14, <1>15

LEMMA PutsEach ==
  ASSUME NEW os, IsSeq(os), Setup!SetOf(os) \subseteq Setup!Fm \ {"rds_data"},
         \A i, j \in DOMAIN os : i < j /\ os[i] = "rst_wk" => os[j] # "timer_wkthd"
  PROVE  /\ Undoing(Setup!Each("put", os))
         /\ Setup!SetOf(Setup!Each("put", os)) = {<<"put", o>> : o \in Setup!SetOf(os)}
<1>1. /\ IsSeq(Setup!Each("put", os))
      /\ Setup!SetOf(Setup!Each("put", os)) = {<<"put", o>> : o \in Setup!SetOf(os)}
  BY EachIs
<1>2. \A o \in Setup!SetOf(os) : Setup!Fine(<<"put", o>>)
  BY ObjectSets DEF Setup!Fine
<1>3. \A x, y \in Setup!SetOf(os) : (x = "rst_wk" => y # "timer_wkthd") =>
    Setup!Follows(<<"put", x>>, <<"put", y>>)
  BY ObjectSets DEF Setup!Follows, Setup!Is
<1>4. DOMAIN Setup!Each("put", os) = DOMAIN os /\
    \A i \in DOMAIN os : Setup!Each("put", os)[i] = <<"put", os[i]>>
  BY DEF Setup!Each
<1>5. Setup!InOrder(Setup!Each("put", os))
  BY <1>3, <1>4, IsOfIt DEF Setup!InOrder
<1> QED BY <1>1, <1>2, <1>5 DEF Undoing, Setup!Undoers

FreesFm == {<<"drop", "rds_data">>, <<"drop", "fm">>, <<"unpublish", "fm">>}
DestroyedThreads == {"eint_wkthd", "timer_wkthd", "eint_wk", "rds_wk", "rst_wk", "pwroff_wk"}

LEMMA FmFreed == Undoing(Setup!FreeFm) /\ Setup!SetOf(Setup!FreeFm) = {<<"drop", "fm">>, <<"unpublish", "fm">>}
<1>1. IsSeq(Setup!FreeFm) /\ Setup!SetOf(Setup!FreeFm) = {<<"drop", "fm">>, <<"unpublish", "fm">>}
  BY DEF IsSeq, Setup!FreeFm, Setup!SetOf
<1>2. Setup!InOrder(Setup!FreeFm)
  BY ObjectSets DEF Setup!InOrder, Setup!FreeFm, Setup!Follows, Setup!Is
<1> QED BY <1>1, <1>2, ObjectSets DEF Undoing, Setup!Undoers, Setup!Fine

\* Before the vendor driver's structure is freed only its parts are undone.
LEMMA FmFreedLast ==
  ASSUME NEW s, Undoing(s), NEW t, Undoing(t), Setup!SetOf(t) \subseteq {<<"drop", "rds_data">>,
      <<"put", "rds_event">>},
         \A x \in Setup!SetOf(s) : x[1] = "put" /\ x[2] \in Setup!Fm
  PROVE  /\ Undoing(s \o t \o Setup!FreeFm)
         /\ Setup!SetOf(s \o t \o Setup!FreeFm) = Setup!SetOf(s) \union Setup!SetOf(t) \union
              Setup!SetOf(Setup!FreeFm)
<1>1. \A x \in Setup!SetOf(s) \union Setup!SetOf(t) : \A y \in Setup!SetOf(t) \union Setup!SetOf(Setup!FreeFm) :
    Setup!Follows(x, y)
  BY FmFreed, ObjectSets DEF Setup!Follows, Setup!Is
<1>2. /\ Before(Setup!SetOf(s), Setup!SetOf(t))
      /\ Before(Setup!SetOf(s) \union Setup!SetOf(t), Setup!SetOf(Setup!FreeFm))
  BY <1>1 DEF Before
<1>3. Undoing(s) /\ Undoing(t)
  OBVIOUS
<1>4. Undoing(s \o t) /\ Setup!SetOf(s \o t) = Setup!SetOf(s) \union Setup!SetOf(t)
  BY <1>2, <1>3, UndoingJoins
<1>5. Before(Setup!SetOf(s \o t), Setup!SetOf(Setup!FreeFm))
  BY <1>2, <1>4
<1>6. /\ Undoing(s \o t \o Setup!FreeFm)
      /\ Setup!SetOf(s \o t \o Setup!FreeFm) = Setup!SetOf(s \o t) \union Setup!SetOf(Setup!FreeFm)
  BY <1>4, <1>5, FmFreed, UndoingJoins
<1> QED BY <1>4, <1>6

LEMMA DevInitUndoes ==
  /\ Undoing(Setup!DevInitFails)
  /\ Setup!SetOf(Setup!DevInitFails) = {<<"put", o>> :
       o \in DestroyedThreads \union {"tx_desense_wk", "tx_power_wk"}}
                                         \union FreesFm
<1> DEFINE os == <<"eint_wkthd", "timer_wkthd", "eint_wk", "rds_wk", "rst_wk", "tx_desense_wk",
                "tx_power_wk", "pwroff_wk">>
           s == Setup!Each("put", os)
           t == << <<"drop", "rds_data">> >>
<1>1. IsSeq(os) /\ Setup!SetOf(os) = DestroyedThreads \union {"tx_desense_wk", "tx_power_wk"}
  BY DEF IsSeq, Setup!SetOf, DestroyedThreads
<1>2. \A i, j \in DOMAIN os : i < j /\ os[i] = "rst_wk" => os[j] # "timer_wkthd"
  OBVIOUS
<1>3. Setup!DevInitFails = s \o t \o Setup!FreeFm
  BY DEF Setup!DevInitFails
<1>4. IsSeq(t) /\ Setup!SetOf(t) = {<<"drop", "rds_data">>}
  BY DEF IsSeq, Setup!SetOf
<1>5. Undoing(t)
  BY <1>4, ObjectSets, MildInOrder DEF Undoing, Setup!Undoers, Setup!Fine, Mild, Setup!Is
<1> HIDE DEF os, t
<1>6. /\ Undoing(s)
      /\ Setup!SetOf(s) = {<<"put", o>> : o \in DestroyedThreads \union {"tx_desense_wk", "tx_power_wk"}}
  BY <1>1, <1>2, PutsEach, ObjectSets DEF DestroyedThreads
<1> HIDE DEF s
<1>7. \A x \in Setup!SetOf(s) : x[1] = "put" /\ x[2] \in Setup!Fm
  BY <1>6, ObjectSets DEF DestroyedThreads
<1> QED BY <1>3, <1>4, <1>5, <1>6, <1>7, FmFreed, FmFreedLast DEF FreesFm

LEMMA DevDestroys ==
  /\ Undoing(Setup!fm_dev_destroy)
  /\ Setup!SetOf(Setup!fm_dev_destroy) = {<<"put", o>> : o \in DestroyedThreads \union {"rds_event"}} \union
       FreesFm
<1> DEFINE os == <<"eint_wkthd", "timer_wkthd", "eint_wk", "rds_wk", "rst_wk", "pwroff_wk">>
           s == Setup!Each("put", os)
           t == << <<"drop", "rds_data">>, <<"put", "rds_event">> >>
<1>1. IsSeq(os) /\ Setup!SetOf(os) = DestroyedThreads
  BY DEF IsSeq, Setup!SetOf, DestroyedThreads
<1>2. \A i, j \in DOMAIN os : i < j /\ os[i] = "rst_wk" => os[j] # "timer_wkthd"
  OBVIOUS
<1>3. Setup!fm_dev_destroy = s \o t \o Setup!FreeFm
  BY DEF Setup!fm_dev_destroy
<1>4. IsSeq(t) /\ Setup!SetOf(t) = {<<"drop", "rds_data">>, <<"put", "rds_event">>}
  BY DEF IsSeq, Setup!SetOf
<1>5. Undoing(t)
  BY <1>4, ObjectSets, MildInOrder DEF Undoing, Setup!Undoers, Setup!Fine, Mild, Setup!Is
<1> HIDE DEF os, t
<1>6. Undoing(s) /\ Setup!SetOf(s) = {<<"put", o>> : o \in DestroyedThreads}
  BY <1>1, <1>2, PutsEach, ObjectSets DEF DestroyedThreads
<1> HIDE DEF s
<1>7. \A x \in Setup!SetOf(s) : x[1] = "put" /\ x[2] \in Setup!Fm
  BY <1>6, ObjectSets DEF DestroyedThreads
<1> QED BY <1>3, <1>4, <1>5, <1>6, <1>7, FmFreed, FmFreedLast DEF FreesFm

LEMMA CdevDestroys ==
  /\ Undoing(Setup!fm_cdev_destroy)
  /\ Setup!SetOf(Setup!fm_cdev_destroy) = {<<"drop", o>> : o \in {"device", "class", "cdev", "chrdev"}}
<1> DEFINE os == <<"device", "class", "cdev", "chrdev">>
<1>1. IsSeq(os) /\ Setup!SetOf(os) = {"device", "class", "cdev", "chrdev"}
  BY DEF IsSeq, Setup!SetOf
<1> HIDE DEF os
<1>2. /\ IsSeq(Setup!Each("drop", os))
      /\ Setup!SetOf(Setup!Each("drop", os)) = {<<"drop", o>> : o \in {"device", "class", "cdev", "chrdev"}}
  BY <1>1, EachIs
<1>3. \A x \in Setup!SetOf(Setup!Each("drop", os)) : Mild(x) /\ Setup!Fine(x) /\ x[1] \in Setup!Undoers
  BY <1>2, ObjectSets DEF Mild, Setup!Fine, Setup!Is, Setup!Undoers
<1> QED BY <1>2, <1>3, MildInOrder DEF Setup!fm_cdev_destroy, os, Undoing

\* What fm_dev_destroy does not know is not in it; nothing else of the device is missing.
LEMMA CdevThenDev ==
  /\ Undoing(Setup!fm_cdev_destroy \o Setup!fm_dev_destroy)
  /\ Setup!SetOf(Setup!fm_cdev_destroy \o Setup!fm_dev_destroy) = Setup!SetOf(Setup!fm_cdev_destroy) \union
       Setup!SetOf(Setup!fm_dev_destroy)
<1>1. Before(Setup!SetOf(Setup!fm_cdev_destroy), Setup!SetOf(Setup!fm_dev_destroy))
  BY CdevDestroys, MildFirst DEF Before, Mild, Setup!Is, Setup!Undoers
<1> QED BY <1>1, CdevDestroys, DevDestroys, UndoingJoins

RemovesDevice(t) ==
  /\ Undoing(t) /\ Setup!FreedOnce(t)
  /\ \A y \in Setup!SetOf(t) : y[2] \in Setup!DeviceObjects /\ y[1] \notin {"orstop", "free"}
  /\ \A o \in Setup!Device \ {"tx_power_wk", "tx_desense_wk"} : \E y \in Setup!SetOf(t) : Setup!Undoes(y, o)
  /\ <<"unpublish", "fm">> \in Setup!SetOf(t) /\ <<"unbind", "g_fm">> \in Setup!SetOf(t)

LEMMA Removes == RemovesDevice(Setup!mt_fm_remove)
<1> DEFINE p == << <<"drop", "proc">> >>
           u == << <<"unbind", "g_fm">> >>
           c == Setup!fm_cdev_destroy
           d == Setup!fm_dev_destroy
           S == {<<"drop", "proc">>, <<"unbind", "g_fm">>} \union Setup!SetOf(c) \union Setup!SetOf(d)
<1>1. /\ Undoing(p)
      /\ Setup!SetOf(p) = {<<"drop", "proc">>}
      /\ Undoing(u)
      /\ Setup!SetOf(u) = {<<"unbind", "g_fm">>}
  <2>1. IsSeq(p) /\ Setup!SetOf(p) = {<<"drop", "proc">>} /\ IsSeq(u) /\ Setup!SetOf(u) = {<<"unbind", "g_fm">>}
    BY DEF IsSeq, Setup!SetOf
  <2>2. /\ Mild(<<"drop", "proc">>)
        /\ Setup!Fine(<<"drop", "proc">>)
        /\ Mild(<<"unbind", "g_fm">>)
        /\ Setup!Fine(<<"unbind", "g_fm">>)
    BY ObjectSets DEF Mild, Setup!Fine, Setup!Is, Setup!Undoers
  <2> QED BY <2>1, <2>2, MildInOrder DEF Undoing, Setup!Undoers
<1>2. Setup!mt_fm_remove = p \o c \o d \o u
  BY DEF Setup!mt_fm_remove, Setup!fm_mod_destroy
<1> HIDE DEF p, u
<1>3. Undoing(p \o c) /\ Setup!SetOf(p \o c) = Setup!SetOf(p) \union Setup!SetOf(c)
  <2>1. Before(Setup!SetOf(p), Setup!SetOf(c))
    BY <1>1, MildFirst DEF Before, Mild, Setup!Is, Setup!Undoers
  <2> QED BY <2>1, <1>1, CdevDestroys, UndoingJoins
<1>4. /\ Undoing(p \o c \o d)
      /\ Setup!SetOf(p \o c \o d) = Setup!SetOf(p) \union Setup!SetOf(c) \union Setup!SetOf(d)
  <2>1. \A x \in Setup!SetOf(p) \union Setup!SetOf(c) : Mild(x)
    BY <1>1, CdevDestroys DEF Mild, Setup!Is, Setup!Undoers
  <2>2. Before(Setup!SetOf(p \o c), Setup!SetOf(d))
    BY <1>3, <2>1, MildFirst DEF Before
  <2> QED BY <2>2, <1>3, DevDestroys, UndoingJoins
<1>5. Undoing(p \o c \o d \o u) /\ Setup!SetOf(p \o c \o d \o u) = S
  <2>1. \A x : x[1] \in Setup!Undoers \ {"orstop"} => Setup!Follows(x, <<"unbind", "g_fm">>)
    BY ObjectSets DEF Setup!Follows, Setup!Is, Setup!Undoers
  <2>2. \A x \in Setup!SetOf(p) \union Setup!SetOf(c) \union Setup!SetOf(d) :
      x[1] \in Setup!Undoers \ {"orstop"}
    BY <1>1, CdevDestroys, DevDestroys DEF FreesFm, Setup!Undoers
  <2>3. \A x \in Setup!SetOf(p \o c \o d), y \in Setup!SetOf(u) : Setup!Follows(x, y)
    BY <1>1, <1>4, <2>1, <2>2
  <2>4. Before(Setup!SetOf(p \o c \o d), Setup!SetOf(u))
    BY <2>3 DEF Before
  <2>5. /\ Undoing(p \o c \o d \o u)
        /\ Setup!SetOf(p \o c \o d \o u) = Setup!SetOf(p \o c \o d) \union Setup!SetOf(u)
    BY <2>4, <1>1, <1>4, UndoingJoins
  <2> QED BY <2>5, <1>1, <1>4
<1> HIDE DEF c, d
<1>6. \A y \in S : y[2] \in Setup!DeviceObjects /\ y[1] \notin {"orstop", "free"}
  BY CdevDestroys, DevDestroys, ObjectSets DEF FreesFm, DestroyedThreads, Setup!DeviceObjects, c, d
<1>7. \A o \in Setup!Device \ {"tx_power_wk", "tx_desense_wk"} : \E y \in S : Setup!Undoes(y, o)
  <2>1. \A o \in DestroyedThreads \union {"rds_event"} : <<"put", o>> \in S /\ Setup!Undoes(<<"put", o>>, o)
    BY DevDestroys DEF Setup!Undoes, d
  <2>2. \A o \in {"proc", "device", "class", "cdev", "chrdev", "rds_data", "fm"} :
          <<"drop", o>> \in S /\ Setup!Undoes(<<"drop", o>>, o)
    BY DevDestroys, CdevDestroys DEF FreesFm, Setup!Undoes, c, d
  <2>3. Setup!Device \ {"tx_power_wk", "tx_desense_wk"} =
          DestroyedThreads \union {"rds_event", "proc", "device", "class", "cdev", "chrdev", "rds_data", "fm"}
    BY ObjectSets DEF DestroyedThreads
  <2> QED BY <2>1, <2>2, <2>3
<1>8. <<"unpublish", "fm">> \in S
  BY DevDestroys DEF FreesFm, d
<1>9. Setup!FreedOnce(Setup!mt_fm_remove)
  BY <1>2, <1>5, <1>6, NothingFreed DEF Undoing
<1> HIDE DEF S
<1> QED BY <1>2, <1>5, <1>6, <1>7, <1>8, <1>9, ObjectSets DEF RemovesDevice, S

Covers(t, os) == \A o \in os : \E z \in Setup!SetOf(t) : Setup!Undoes(z, o)

LEMMA EnvCovered == Covers(Setup!fm_env_destroy, Setup!Env \ {"regs"})
<1>1. \A o \in Setup!Locks \union {"fm_timer_sys"} : <<"put", o>> \in Setup!SetOf(Setup!fm_env_destroy) /\
    Setup!Undoes(<<"put", o>>, o)
  BY EnvDestroys DEF Setup!Undoes
<1>2. \A o \in {"evt_fifo", "cmd_fifo", "link_event"} :
        <<"free", o>> \in Setup!SetOf(Setup!fm_env_destroy) /\ Setup!Undoes(<<"free", o>>, o)
  BY EnvDestroys, LinkReleases DEF Setup!Undoes
<1>3. \A o \in {"ln_event", "cmd_buf_lock"} : <<"put", o>> \in Setup!SetOf(Setup!fm_env_destroy) /\
    Setup!Undoes(<<"put", o>>, o)
  BY EnvDestroys, LinkReleases, OpsUnregister DEF Setup!Undoes
<1>4. <<"drop", "cmd_buf">> \in Setup!SetOf(Setup!fm_env_destroy) /\
    Setup!Undoes(<<"drop", "cmd_buf">>, "cmd_buf")
  BY EnvDestroys, OpsUnregister DEF Setup!Undoes
<1>5. Setup!Env \ {"regs"} = (Setup!Locks \union {"fm_timer_sys"}) \union {"evt_fifo", "cmd_fifo", "link_event"}
                                \union {"ln_event", "cmd_buf_lock"} \union {"cmd_buf"}
  BY ObjectSets
<1> QED BY <1>1, <1>2, <1>3, <1>4, <1>5 DEF Covers

LEMMA EnvObjects == \A y \in Setup!SetOf(Setup!fm_env_destroy) :
    y[2] \in Setup!Env \union {"library", "low_ops_unregister"}
BY EnvDestroys, LinkReleases, OpsUnregister, ObjectSets

LEMMA PlatformDrops ==
  LET t == Setup!Each("drop", <<"driver", "added", "pdev">>)
      u == Setup!Each("drop", <<"added", "pdev">>)
  IN  /\ Undoing(t) /\ Setup!SetOf(t) = {<<"drop", o>> : o \in Setup!Platform} /\ \A x \in Setup!SetOf(t) :
           Mild(x)
      /\ Undoing(u) /\ Setup!SetOf(u) = {<<"drop", o>> : o \in {"added", "pdev"}} /\ \A x \in Setup!SetOf(u) :
           Mild(x)
<1> DEFINE os == <<"driver", "added", "pdev">>
           ps == <<"added", "pdev">>
<1>1. IsSeq(os) /\ Setup!SetOf(os) = Setup!Platform /\ IsSeq(ps) /\ Setup!SetOf(ps) = {"added", "pdev"}
  BY DEF IsSeq, Setup!SetOf, Setup!Platform
<1> HIDE DEF os, ps
<1>2. /\ IsSeq(Setup!Each("drop", os)) /\
           Setup!SetOf(Setup!Each("drop", os)) = {<<"drop", o>> : o \in Setup!Platform}
      /\ IsSeq(Setup!Each("drop", ps))
      /\ Setup!SetOf(Setup!Each("drop", ps)) = {<<"drop", o>> : o \in {"added", "pdev"}}
  BY <1>1, EachIs
<1>3. \A o \in Setup!Platform : Mild(<<"drop", o>>) /\ Setup!Fine(<<"drop", o>>)
  BY ObjectSets DEF Mild, Setup!Fine, Setup!Is, Setup!Undoers, Setup!Platform
<1>4. /\ \A x \in Setup!SetOf(Setup!Each("drop", os)) : Mild(x) /\ Setup!Fine(x)
      /\ \A x \in Setup!SetOf(Setup!Each("drop", ps)) : Mild(x) /\ Setup!Fine(x)
  BY <1>2, <1>3 DEF Setup!Platform
<1> QED BY <1>2, <1>4, MildInOrder DEF Undoing, os, ps, Mild

\* The device goes before the environment.
LEMMA DeviceFirst ==
  ASSUME NEW x, x[1] \in Setup!Undoers \ {"orstop"}, ~Setup!Is(x, "put", "cmd_buf_lock"),
         NEW y, y[1] \in Setup!Undoers, y[2] \notin Setup!Fm
  PROVE  Setup!Follows(x, y)
BY ObjectSets DEF Setup!Follows, Setup!Is, Setup!Undoers

LEMMA Leaves ==
  /\ Undoing(Setup!mt_fm_exit) /\ Setup!FreedOnce(Setup!mt_fm_exit)
  /\ Covers(Setup!mt_fm_exit, (Setup!Env \union Setup!Platform \union {"lna"}) \ {"regs"})
  /\ probed => Setup!SetOf(Setup!mt_fm_remove) \subseteq Setup!SetOf(Setup!mt_fm_exit)
<1> DEFINE a == << <<"drop", "lna">> >>
           r == IF probed THEN Setup!mt_fm_remove ELSE <<>>
           d == Setup!Each("drop", <<"driver", "added", "pdev">>)
           e == Setup!fm_env_destroy
<1>1. IsSeq(a) /\ Setup!SetOf(a) = {<<"drop", "lna">>}
  BY DEF IsSeq, Setup!SetOf
<1>2. Undoing(a) /\ \A x \in Setup!SetOf(a) : Mild(x)
  BY <1>1, ObjectSets, MildInOrder DEF Undoing, Setup!Undoers, Setup!Fine, Mild, Setup!Is
<1>3. Undoing(r) /\ Setup!FreedOnce(r) /\ \A y \in Setup!SetOf(r) : y[2] \in Setup!DeviceObjects /\
    y[1] \notin {"orstop", "free"}
  <2>1. CASE probed
    BY <2>1, Removes DEF RemovesDevice
  <2>2. CASE ~probed
    <3>1. r = <<>>
      BY <2>2
    <3> QED BY <3>1, NothingToDo
  <2> QED BY <2>1, <2>2
<1>4. Setup!mt_fm_exit = a \o r \o d \o e
  BY DEF Setup!mt_fm_exit
<1>5. Undoing(d) /\ Setup!SetOf(d) = {<<"drop", o>> : o \in Setup!Platform} /\ \A x \in Setup!SetOf(d) : Mild(x)
  BY PlatformDrops
<1>6. probed => r = Setup!mt_fm_remove
  OBVIOUS
<1> HIDE DEF a, r, d
<1>7. Undoing(a \o r) /\ Setup!SetOf(a \o r) = Setup!SetOf(a) \union Setup!SetOf(r)
  <2>1. Before(Setup!SetOf(a), Setup!SetOf(r))
    BY <1>2, MildFirst DEF Before
  <2> QED BY <2>1, <1>2, <1>3, UndoingJoins
<1>9. /\ Undoing(a \o r \o d)
      /\ Setup!SetOf(a \o r \o d) = Setup!SetOf(a) \union Setup!SetOf(r) \union Setup!SetOf(d)
  <2>1. \A x \in Setup!SetOf(a \o r), y \in Setup!SetOf(d) : Setup!Follows(x, y)
    <3>1. \A x \in Setup!SetOf(r) : x[1] \in Setup!Undoers \ {"orstop"} /\ ~Setup!Is(x, "put", "cmd_buf_lock")
      BY <1>3, ObjectSets DEF Undoing, Setup!DeviceObjects, Setup!Is
    <3>2. \A y \in Setup!SetOf(d) : y[1] \in Setup!Undoers /\ y[2] \notin Setup!Fm
      BY <1>5, ObjectSets DEF Setup!Platform, Setup!Undoers
    <3> QED BY <3>1, <3>2, <1>2, <1>7, DeviceFirst, MildFirst
  <2>2. Before(Setup!SetOf(a \o r), Setup!SetOf(d))
    BY <2>1 DEF Before
  <2>3. Setup!SetOf(a \o r \o d) = Setup!SetOf(a \o r) \union Setup!SetOf(d) /\ Undoing(a \o r \o d)
    BY <2>2, <1>5, <1>7, UndoingJoins
  <2> QED BY <2>3, <1>7
<1>10. \A x \in Setup!SetOf(a \o r \o d) : x[1] \in Setup!Undoers \ {"orstop", "free"} /\
    ~Setup!Is(x, "put", "cmd_buf_lock")
  BY <1>1, <1>3, <1>5, <1>9, ObjectSets DEF Undoing, Setup!Undoers, Setup!DeviceObjects, Setup!Is,
      Setup!Platform
<1>11. Setup!FreedOnce(a \o r \o d)
  BY <1>9, <1>10, NothingFreed DEF Undoing
<1>12. Before(Setup!SetOf(a \o r \o d), Setup!SetOf(e)) /\ Once(Setup!SetOf(a \o r \o d), Setup!SetOf(e))
  <2>1. \A y \in Setup!SetOf(e) : y[1] \in Setup!Undoers /\ y[2] \notin Setup!Fm
    BY EnvDestroys, EnvObjects, ObjectSets DEF Undoing
  <2> QED BY <2>1, <1>10, DeviceFirst DEF Before, Once
<1>13. /\ Undoing(a \o r \o d \o e) /\ Setup!FreedOnce(a \o r \o d \o e)
       /\ Setup!SetOf(a \o r \o d \o e) = Setup!SetOf(a \o r \o d) \union Setup!SetOf(e)
  BY <1>9, <1>11, <1>12, EnvDestroys, UndoingJoins, JoinsFreedOnce DEF Undoing
<1>14. Covers(Setup!mt_fm_exit, (Setup!Env \union Setup!Platform \union {"lna"}) \ {"regs"})
  <2>1. \A o \in Setup!Env \ {"regs"} : \E z \in Setup!SetOf(e) : Setup!Undoes(z, o)
    BY EnvCovered DEF Covers
  <2>2. \A o \in Setup!Platform : <<"drop", o>> \in Setup!SetOf(d) /\ Setup!Undoes(<<"drop", o>>, o)
    BY <1>5 DEF Setup!Undoes
  <2>3. <<"drop", "lna">> \in Setup!SetOf(a) /\ Setup!Undoes(<<"drop", "lna">>, "lna")
    BY <1>1 DEF Setup!Undoes
  <2> QED BY <2>1, <2>2, <2>3, <1>4, <1>9, <1>13 DEF Covers
<1> QED BY <1>4, <1>6, <1>9, <1>13, <1>14

EnvWays    == {"env", "no_event", "no_fifo"}
DeviceWays == {"no_fm", "dev", "mod"}

\* What each way does.
WayIsFine(w) ==
  /\ Undoing(Setup!Way[w])
  /\ w \notin {"no_event", "no_fifo"} => Setup!FreedOnce(Setup!Way[w])
  /\ w \in EnvWays => Covers(Setup!Way[w], Setup!Env \ {"regs"})
  /\ w \in DeviceWays => \A y \in Setup!SetOf(Setup!Way[w]) : y[2] \in Setup!DeviceObjects
  /\ w \in {"dev", "mod"} => <<"unpublish", "fm">> \in Setup!SetOf(Setup!Way[w])
  /\ w = "dev" => Covers(Setup!Way[w], (Setup!Fm \ {"rds_event"}) \union {"fm"})
  /\ w = "mod" => Covers(Setup!Way[w], Setup!Device \ {"tx_power_wk", "tx_desense_wk", "proc"})
  /\ w = "no_add" => Covers(Setup!Way[w], {"pdev"})
  /\ w = "no_driver" => Covers(Setup!Way[w], {"pdev", "added"})

LEMMA CoversMore == ASSUME NEW s, NEW t, NEW os, Covers(s, os), Setup!SetOf(s) \subseteq Setup!SetOf(t)
  PROVE Covers(t, os)
BY DEF Covers

LEMMA WaysAreFine == \A w \in Setup!Ways : WayIsFine(w)
<1> DEFINE f == << <<"free", "link_event">> >>
           p == << <<"drop", "pdev">> >>
<1>1. /\ IsSeq(f)
      /\ Setup!SetOf(f) = {<<"free", "link_event">>}
      /\ IsSeq(p)
      /\ Setup!SetOf(p) = {<<"drop", "pdev">>}
  BY DEF IsSeq, Setup!SetOf
<1>2. /\ Undoing(f) /\ \A x \in Setup!SetOf(f) : Mild(x)
      /\ Undoing(p) /\ \A x \in Setup!SetOf(p) : Mild(x)
  BY <1>1, ObjectSets, MildInOrder DEF Undoing, Setup!Undoers, Setup!Fine, Mild, Setup!Is, Setup!Link,
      Setup!Platform
<1> HIDE DEF f, p
<1>3. WayIsFine("env")
  <2>1. Setup!Way["env"] = Setup!fm_env_destroy
    BY DEF Setup!Way
  <2> QED BY <2>1, EnvDestroys, EnvCovered DEF WayIsFine, DeviceWays
<1>4. WayIsFine("no_event")
  <2>1. Setup!Way["no_event"] = f \o Setup!fm_env_destroy
    BY DEF Setup!Way, f
  <2>2. Before(Setup!SetOf(f), Setup!SetOf(Setup!fm_env_destroy))
    BY <1>2, MildFirst DEF Before
  <2>3. /\ Undoing(f \o Setup!fm_env_destroy)
        /\ Setup!SetOf(f \o Setup!fm_env_destroy) = Setup!SetOf(f) \union Setup!SetOf(Setup!fm_env_destroy)
    BY <1>2, <2>2, EnvDestroys, UndoingJoins
  <2> QED BY <2>1, <2>3, EnvCovered, CoversMore DEF WayIsFine, DeviceWays
<1>5. WayIsFine("no_fifo")
  <2>1. Setup!Way["no_fifo"] = Setup!fm_link_release \o Setup!fm_env_destroy
    BY DEF Setup!Way
  <2>2. Before(Setup!SetOf(Setup!fm_link_release), Setup!SetOf(Setup!fm_env_destroy))
    BY LinkReleases, MildFirst DEF Before, Mild, Setup!Is, Setup!Undoers
  <2>3. /\ Undoing(Setup!fm_link_release \o Setup!fm_env_destroy)
        /\ Setup!SetOf(Setup!fm_link_release \o Setup!fm_env_destroy) =
             Setup!SetOf(Setup!fm_link_release) \union Setup!SetOf(Setup!fm_env_destroy)
    BY <2>2, LinkReleases, EnvDestroys, UndoingJoins
  <2> QED BY <2>1, <2>3, EnvCovered, CoversMore DEF WayIsFine, DeviceWays
<1>6. WayIsFine("left") /\ WayIsFine("no_fm")
  <2>1. Setup!Way["left"] = <<>> /\ Setup!Way["no_fm"] = <<>>
    BY DEF Setup!Way
  <2> QED BY <2>1, NothingToDo DEF WayIsFine, DeviceWays, EnvWays
<1>7. WayIsFine("no_add")
  <2>1. Setup!Way["no_add"] = p
    BY DEF Setup!Way, p
  <2>2. Covers(p, {"pdev"}) /\ Setup!FreedOnce(p)
    BY <1>1, NothingFreed DEF Covers, Setup!Undoes
  <2> QED BY <1>2, <2>1, <2>2 DEF WayIsFine, DeviceWays, EnvWays
<1>8. WayIsFine("no_driver")
  <2> DEFINE u == Setup!Each("drop", <<"added", "pdev">>)
  <2>1. Setup!Way["no_driver"] = u
    BY DEF Setup!Way
  <2>2. Undoing(u) /\ Setup!SetOf(u) = {<<"drop", o>> : o \in {"added", "pdev"}}
    BY PlatformDrops
  <2> HIDE DEF u
  <2>3. Covers(u, {"pdev", "added"})
    <3>1. \A o \in {"pdev", "added"} : <<"drop", o>> \in Setup!SetOf(u) /\ Setup!Undoes(<<"drop", o>>, o)
      BY <2>2 DEF Setup!Undoes
    <3> QED BY <3>1 DEF Covers
  <2>4. Setup!FreedOnce(u)
    BY <2>2, NothingFreed DEF Undoing
  <2> QED BY <2>1, <2>2, <2>3, <2>4 DEF WayIsFine, DeviceWays, EnvWays
<1>9. WayIsFine("dev")
  <2>1. Setup!Way["dev"] = Setup!DevInitFails
    BY DEF Setup!Way
  <2>2. \A o \in DestroyedThreads \union {"tx_desense_wk", "tx_power_wk"} :
          <<"put", o>> \in Setup!SetOf(Setup!DevInitFails) /\ Setup!Undoes(<<"put", o>>, o)
    BY DevInitUndoes DEF Setup!Undoes
  <2>3. \A o \in {"rds_data", "fm"} : <<"drop", o>> \in Setup!SetOf(Setup!DevInitFails) /\
      Setup!Undoes(<<"drop", o>>, o)
    BY DevInitUndoes DEF FreesFm, Setup!Undoes
  <2>4. Covers(Setup!DevInitFails, (Setup!Fm \ {"rds_event"}) \union {"fm"})
    <3>1. (Setup!Fm \ {"rds_event"}) \union {"fm"} =
            (DestroyedThreads \union {"tx_desense_wk", "tx_power_wk"}) \union {"rds_data", "fm"}
      BY ObjectSets DEF DestroyedThreads
    <3> QED BY <2>2, <2>3, <3>1 DEF Covers
  <2>5. \A y \in Setup!SetOf(Setup!DevInitFails) : y[2] \in Setup!DeviceObjects /\ y[1] # "free"
    BY DevInitUndoes, ObjectSets DEF FreesFm, DestroyedThreads, Setup!DeviceObjects
  <2>6. Setup!FreedOnce(Setup!DevInitFails) /\ <<"unpublish", "fm">> \in Setup!SetOf(Setup!DevInitFails)
    BY <2>5, DevInitUndoes, NothingFreed DEF Undoing, FreesFm
  <2> QED BY <2>1, <2>4, <2>5, <2>6, DevInitUndoes DEF WayIsFine, EnvWays
<1>10. WayIsFine("mod")
  <2> DEFINE m == Setup!fm_cdev_destroy \o Setup!fm_dev_destroy
  <2>1. Setup!Way["mod"] = m
    BY DEF Setup!Way
  <2>2. /\ Undoing(m)
        /\ Setup!SetOf(m) = Setup!SetOf(Setup!fm_cdev_destroy) \union Setup!SetOf(Setup!fm_dev_destroy)
    BY CdevThenDev
  <2> HIDE DEF m
  <2>3. \A o \in DestroyedThreads \union {"rds_event"} : <<"put", o>> \in Setup!SetOf(m) /\
      Setup!Undoes(<<"put", o>>, o)
    BY <2>2, DevDestroys DEF Setup!Undoes
  <2>4. \A o \in {"rds_data", "fm", "device", "class", "cdev", "chrdev"} :
          <<"drop", o>> \in Setup!SetOf(m) /\ Setup!Undoes(<<"drop", o>>, o)
    BY <2>2, DevDestroys, CdevDestroys DEF FreesFm, Setup!Undoes
  <2>5. Covers(m, Setup!Device \ {"tx_power_wk", "tx_desense_wk", "proc"})
    <3>1. Setup!Device \ {"tx_power_wk", "tx_desense_wk", "proc"} =
            (DestroyedThreads \union {"rds_event"}) \union {"rds_data", "fm", "device", "class", "cdev",
                "chrdev"}
      BY ObjectSets DEF DestroyedThreads
    <3> QED BY <2>3, <2>4, <3>1 DEF Covers
  <2>6. \A y \in Setup!SetOf(m) : y[2] \in Setup!DeviceObjects /\ y[1] # "free"
    BY <2>2, DevDestroys, CdevDestroys, ObjectSets DEF FreesFm, DestroyedThreads, Setup!DeviceObjects
  <2>7. Setup!FreedOnce(m) /\ <<"unpublish", "fm">> \in Setup!SetOf(m)
    BY <2>2, <2>6, DevDestroys, NothingFreed DEF Undoing, FreesFm
  <2> QED BY <2>1, <2>2, <2>5, <2>6, <2>7 DEF WayIsFine, EnvWays
<1> QED BY <1>3, <1>4, <1>5, <1>6, <1>7, <1>8, <1>9, <1>10 DEF Setup!Ways

\* t makes the objects os of the device.
Prepares(t, os) ==
  /\ Keeps(t) /\ Setup!TakenAtOnce(t)
  /\ \A y \in Setup!SetOf(t) : Setup!Fine(y) /\ y[1] \in {"new", "get", "publish"}
  /\ \A y \in Setup!SetOf(t) : y[2] \in os \/ y[1] = "publish"
  /\ \A o \in os : o \in Setup!Device /\ \E y \in Setup!SetOf(t) : Setup!Is(y, "new", o)

Suits(os, t) == \A p \in os, y \in Setup!SetOf(t) : Setup!OkAfter(p, y)

LEMMA PreparesBoth ==
  ASSUME NEW s, NEW t, NEW os, NEW ps, Prepares(s, os), Prepares(t, ps), os \intersect ps = {}, "fm" \notin ps,
         Suits(os, t)
  PROVE  Prepares(s \o t, os \union ps)
<1>1. ASSUME NEW x \in Setup!SetOf(s), NEW y \in Setup!SetOf(t) PROVE Setup!Follows(x, y)
  <2>1. /\ x[1] \in {"new", "get", "publish"} /\ (x[2] \in os \/ x[1] = "publish")
        /\ y[1] \in {"new", "get", "publish"} /\ (y[2] \in ps \/ y[1] = "publish")
    BY <1>1 DEF Prepares
  <2>2. x[1] = "new" => Setup!OkAfter(x[2], y)
    BY <1>1, <2>1 DEF Suits
  <2>3. y[2] \in ps => y[2] \in Setup!Device /\ y[2] \notin os /\ y[2] # "fm"
    BY DEF Prepares
  <2>4. y[1] = "get" => y[2] \notin Setup!Locks
    BY <2>1, <2>3, ObjectSets
  <2> QED BY <2>1, <2>2, <2>3, <2>4 DEF Setup!Follows, Setup!Is
<1>2. Before(Setup!SetOf(s), Setup!SetOf(t))
  BY <1>1 DEF Before
<1>3. Keeps(s \o t) /\ Setup!TakenAtOnce(s \o t) /\ Setup!SetOf(s \o t) = Setup!SetOf(s) \union Setup!SetOf(t)
  BY <1>2, Joins, JoinsInOrder, JoinsTaken DEF Prepares, Keeps
<1> QED BY <1>3 DEF Prepares

LEMMA MakesAndTakes ==
  ASSUME NEW o \in Setup!Fm \ {"rds_data"}
  PROVE  /\ Prepares(Setup!NewGet(o, "dev"), {o})
         /\ Setup!SetOf(Setup!NewGet(o, "dev")) = {<<"new", o, "dev">>, <<"get", o>>}
<1>1. IsSeq(Setup!NewGet(o, "dev")) /\ Setup!SetOf(Setup!NewGet(o, "dev")) = {<<"new", o, "dev">>, <<"get", o>>}
  BY DEF Setup!NewGet, IsSeq, Setup!SetOf
<1>2. Setup!InOrder(Setup!NewGet(o, "dev"))
  BY ObjectSets DEF Setup!InOrder, Setup!NewGet, Setup!Follows, Setup!Is, Setup!OkAfter
<1>3. Setup!TakenAtOnce(Setup!NewGet(o, "dev"))
  BY DEF Setup!TakenAtOnce, Setup!NewGet, Setup!Is
<1>4. Setup!Fine(<<"new", o, "dev">>) /\ Setup!Fine(<<"get", o>>)
  BY ObjectSets DEF Setup!Fine, Setup!Ways, Setup!Link, Setup!Platform
<1> QED BY <1>1, <1>2, <1>3, <1>4, ObjectSets DEF Prepares, Keeps, Setup!Is

LEMMA MakesOnly ==
  ASSUME NEW o \in Setup!Device, NEW way, Setup!Fine(<<"new", o, way>>), o \notin Setup!Counted \/
      o = "rds_data"
  PROVE  Prepares(Setup!New(<<o>>, way), {o}) /\ Setup!SetOf(Setup!New(<<o>>, way)) = {<<"new", o, way>>}
<1>1. IsSeq(<<o>>) /\ Setup!SetOf(<<o>>) = {o}
  BY DEF IsSeq, Setup!SetOf
<1>2. IsSeq(Setup!New(<<o>>, way)) /\ Setup!SetOf(Setup!New(<<o>>, way)) = {<<"new", o, way>>}
  BY <1>1, NewIs
<1>3. DOMAIN Setup!New(<<o>>, way) = {1} /\ Setup!New(<<o>>, way)[1] = <<"new", o, way>>
  BY DEF Setup!New
<1>4. Setup!InOrder(Setup!New(<<o>>, way)) /\ Setup!TakenAtOnce(Setup!New(<<o>>, way))
  BY <1>3 DEF Setup!InOrder, Setup!TakenAtOnce
<1> QED BY <1>2, <1>4 DEF Prepares, Keeps, Setup!Is

\* fm_dev_init may fail at any place, and undoes what it has made.
LEMMA SuitsDev ==
  ASSUME NEW os, os \subseteq Setup!Fm \union {"fm"}, NEW o, o \notin os, o # "cmd_buf", NEW t,
         Setup!SetOf(t) \subseteq {<<"new", o, "dev">>, <<"get", o>>}
  PROVE  Suits(os, t)
<1>1. \A p \in os : p \in Setup!Scope("dev") => \E z \in Setup!SetOf(Setup!Way["dev"]) : Setup!Undoes(z, p)
  <2>1. Covers(Setup!Way["dev"], (Setup!Fm \ {"rds_event"}) \union {"fm"})
    BY WaysAreFine DEF Setup!Ways, WayIsFine
  <2> QED BY <2>1, ObjectSets DEF Covers, Setup!Scope
<1>2. \A p \in os : Setup!OkAfter(p, <<"new", o, "dev">>) /\ Setup!OkAfter(p, <<"get", o>>)
  BY <1>1 DEF Setup!OkAfter
<1> QED BY <1>2 DEF Suits

LEMMA SuitsMod ==
  ASSUME NEW os, os \subseteq Setup!Device \ {"proc"}, NEW o, o \notin os, o # "cmd_buf", NEW t,
         Setup!SetOf(t) \subseteq {<<"new", o, "mod">>}
  PROVE  Suits(os, t)
<1>1. \A p \in os : p \in Setup!Scope("mod") => \E z \in Setup!SetOf(Setup!Way["mod"]) : Setup!Undoes(z, p)
  <2>1. Covers(Setup!Way["mod"], Setup!Device \ {"tx_power_wk", "tx_desense_wk", "proc"})
    BY WaysAreFine DEF Setup!Ways, WayIsFine
  <2> QED BY <2>1, ObjectSets DEF Covers, Setup!Scope
<1>2. \A p \in os : Setup!OkAfter(p, <<"new", o, "mod">>)
  BY <1>1 DEF Setup!OkAfter
<1> QED BY <1>2 DEF Suits

LEMMA TakesNext ==
  ASSUME NEW s, NEW os, os \subseteq Setup!Fm \union {"fm"}, Prepares(s, os), NEW o \in Setup!Fm \ {"rds_data"},
      o \notin os
  PROVE  Prepares(s \o Setup!NewGet(o, "dev"), os \union {o})
<1>1. /\ Prepares(Setup!NewGet(o, "dev"), {o})
      /\ Setup!SetOf(Setup!NewGet(o, "dev")) = {<<"new", o, "dev">>, <<"get", o>>}
  BY MakesAndTakes
<1>2. Suits(os, Setup!NewGet(o, "dev")) /\ o # "fm"
  BY <1>1, SuitsDev, ObjectSets
<1> QED BY <1>1, <1>2, PreparesBoth

LEMMA DevInits == Prepares(Setup!fm_dev_init, Setup!Fm \union {"fm"})
<1> DEFINE s0 == Setup!New(<<"fm">>, "no_fm")
           s1 == s0 \o Setup!NewGet("rds_event", "dev")
           s2 == s1 \o Setup!New(<<"rds_data">>, "dev")
           s3 == s2 \o << <<"publish", "fm">> >>
           s4 == s3 \o Setup!NewGet("timer_wkthd", "dev")
           s5 == s4 \o Setup!NewGet("eint_wkthd", "dev")
           s6 == s5 \o Setup!NewGet("eint_wk", "dev")
           s7 == s6 \o Setup!NewGet("rst_wk", "dev")
           s8 == s7 \o Setup!NewGet("rds_wk", "dev")
           s9 == s8 \o Setup!NewGet("tx_power_wk", "dev")
           s10 == s9 \o Setup!NewGet("tx_desense_wk", "dev")
           s11 == s10 \o Setup!NewGet("pwroff_wk", "dev")
           m3 == {"fm", "rds_event", "rds_data"}
           m4 == m3 \union {"timer_wkthd"}
           m5 == m4 \union {"eint_wkthd"}
           m6 == m5 \union {"eint_wk"}
           m7 == m6 \union {"rst_wk"}
           m8 == m7 \union {"rds_wk"}
           m9 == m8 \union {"tx_power_wk"}
           m10 == m9 \union {"tx_desense_wk"}
           m11 == m10 \union {"pwroff_wk"}
<1>1. Prepares(s0, {"fm"})
  <2>1. Setup!Fine(<<"new", "fm", "no_fm">>)
    BY ObjectSets DEF Setup!Fine, Setup!Ways, Setup!Link, Setup!Platform
  <2> QED BY <2>1, MakesOnly, ObjectSets
<1>2. Prepares(s1, {"fm", "rds_event"})
  <2>1. Prepares(s0 \o Setup!NewGet("rds_event", "dev"), {"fm"} \union {"rds_event"})
    BY <1>1, TakesNext, ObjectSets
  <2>2. {"fm"} \union {"rds_event"} = {"fm", "rds_event"}
    OBVIOUS
  <2> QED BY <2>1, <2>2
<1>3. Prepares(s2, {"fm", "rds_event", "rds_data"})
  <2>1. Setup!Fine(<<"new", "rds_data", "dev">>)
    BY ObjectSets DEF Setup!Fine, Setup!Ways, Setup!Link, Setup!Platform
  <2>2. /\ Prepares(Setup!New(<<"rds_data">>, "dev"), {"rds_data"})
        /\ Setup!SetOf(Setup!New(<<"rds_data">>, "dev")) = {<<"new", "rds_data", "dev">>}
    BY <2>1, MakesOnly, ObjectSets
  <2>3. Suits({"fm", "rds_event"}, Setup!New(<<"rds_data">>, "dev"))
    BY <2>2, SuitsDev, ObjectSets
  <2>4. Prepares(s1 \o Setup!New(<<"rds_data">>, "dev"), {"fm", "rds_event"} \union {"rds_data"})
    BY <1>2, <2>2, <2>3, PreparesBoth
  <2>5. {"fm", "rds_event"} \union {"rds_data"} = {"fm", "rds_event", "rds_data"}
    OBVIOUS
  <2> QED BY <2>4, <2>5
<1>4. Prepares(s3, m3)
  <2> DEFINE p == << <<"publish", "fm">> >>
  <2>1. IsSeq(p) /\ Setup!SetOf(p) = {<<"publish", "fm">>} /\ DOMAIN p = {1} /\ p[1] = <<"publish", "fm">>
    BY DEF IsSeq, Setup!SetOf
  <2>2. Prepares(p, {})
    <3>1. Setup!Fine(<<"publish", "fm">>)
      BY ObjectSets DEF Setup!Fine
    <3> QED BY <2>1, <3>1 DEF Prepares, Keeps, Setup!InOrder, Setup!TakenAtOnce
  <2>3. Suits(m3, p)
    BY <2>1 DEF Suits, Setup!OkAfter
  <2> HIDE DEF p
  <2>4. Prepares(s2 \o p, m3 \union {})
    BY <1>3, <2>2, <2>3, PreparesBoth
  <2>5. m3 \union {} = m3
    OBVIOUS
  <2> QED BY <2>4, <2>5 DEF p
<1> HIDE DEF s3
<1>5. Prepares(s4, m4)
  <2>1. /\ "timer_wkthd" \in Setup!Fm \ {"rds_data"}
        /\ "timer_wkthd" \notin m3
        /\ m3 \subseteq Setup!Fm \union {"fm"}
    BY ObjectSets
  <2> HIDE DEF m3
  <2> QED BY <1>4, <2>1, TakesNext
<1> HIDE DEF s4
<1>6. Prepares(s5, m5)
  <2>1. /\ "eint_wkthd" \in Setup!Fm \ {"rds_data"}
        /\ "eint_wkthd" \notin m4
        /\ m4 \subseteq Setup!Fm \union {"fm"}
    BY ObjectSets
  <2> HIDE DEF m4
  <2> QED BY <1>5, <2>1, TakesNext
<1> HIDE DEF s5
<1>7. Prepares(s6, m6)
  <2>1. "eint_wk" \in Setup!Fm \ {"rds_data"} /\ "eint_wk" \notin m5 /\ m5 \subseteq Setup!Fm \union {"fm"}
    BY ObjectSets
  <2> HIDE DEF m5
  <2> QED BY <1>6, <2>1, TakesNext
<1> HIDE DEF s6
<1>8. Prepares(s7, m7)
  <2>1. "rst_wk" \in Setup!Fm \ {"rds_data"} /\ "rst_wk" \notin m6 /\ m6 \subseteq Setup!Fm \union {"fm"}
    BY ObjectSets
  <2> HIDE DEF m6
  <2> QED BY <1>7, <2>1, TakesNext
<1> HIDE DEF s7
<1>9. Prepares(s8, m8)
  <2>1. "rds_wk" \in Setup!Fm \ {"rds_data"} /\ "rds_wk" \notin m7 /\ m7 \subseteq Setup!Fm \union {"fm"}
    BY ObjectSets
  <2> HIDE DEF m7
  <2> QED BY <1>8, <2>1, TakesNext
<1> HIDE DEF s8
<1>10. Prepares(s9, m9)
  <2>1. /\ "tx_power_wk" \in Setup!Fm \ {"rds_data"}
        /\ "tx_power_wk" \notin m8
        /\ m8 \subseteq Setup!Fm \union {"fm"}
    BY ObjectSets
  <2> HIDE DEF m8
  <2> QED BY <1>9, <2>1, TakesNext
<1> HIDE DEF s9
<1>11. Prepares(s10, m10)
  <2>1. /\ "tx_desense_wk" \in Setup!Fm \ {"rds_data"}
        /\ "tx_desense_wk" \notin m9
        /\ m9 \subseteq Setup!Fm \union {"fm"}
    BY ObjectSets
  <2> HIDE DEF m9
  <2> QED BY <1>10, <2>1, TakesNext
<1> HIDE DEF s10
<1>12. Prepares(s11, m11)
  <2>1. /\ "pwroff_wk" \in Setup!Fm \ {"rds_data"}
        /\ "pwroff_wk" \notin m10
        /\ m10 \subseteq Setup!Fm \union {"fm"}
    BY ObjectSets
  <2> HIDE DEF m10
  <2> QED BY <1>11, <2>1, TakesNext
<1> HIDE DEF s11
<1>13. Setup!fm_dev_init = s11
  BY DEF Setup!fm_dev_init, s3, s4, s5, s6, s7, s8, s9, s10, s11
<1>14. m11 = Setup!Fm \union {"fm"}
  BY ObjectSets
<1> HIDE DEF m11
<1> QED BY <1>12, <1>13, <1>14

LEMMA CdevSetsUp == Prepares(Setup!fm_cdev_setup, {"chrdev", "cdev", "class", "device"})
<1> DEFINE os == <<"chrdev", "cdev", "class">>
           s == Setup!New(os, "mod")
           t == Setup!New(<<"device">>, "go")
<1>1. IsSeq(os) /\ Setup!SetOf(os) = {"chrdev", "cdev", "class"} /\ DOMAIN os = 1 .. 3
      /\ \A i, j \in DOMAIN os : i < j => os[i] # os[j]
  BY DEF IsSeq, Setup!SetOf
<1> HIDE DEF os
<1>2. IsSeq(s) /\ Setup!SetOf(s) = {<<"new", o, "mod">> : o \in {"chrdev", "cdev", "class"}}
  BY <1>1, NewIs
<1>3. DOMAIN s = DOMAIN os /\ \A i \in DOMAIN os : s[i] = <<"new", os[i], "mod">>
  BY DEF Setup!New
<1>4. \A p, o \in {"chrdev", "cdev", "class"} : p # o => Setup!OkAfter(p, <<"new", o, "mod">>)
  <2>1. \A p, o \in {"chrdev", "cdev", "class"} : p # o => Suits({p}, << <<"new", o, "mod">> >>)
    <3>1. \A o : Setup!SetOf(<< <<"new", o, "mod">> >>) = {<<"new", o, "mod">>}
      BY DEF Setup!SetOf
    <3> QED BY <3>1, SuitsMod, ObjectSets
  <2>2. \A o : <<"new", o, "mod">> \in Setup!SetOf(<< <<"new", o, "mod">> >>)
    BY DEF Setup!SetOf
  <2> QED BY <2>1, <2>2 DEF Suits
<1>5. \A i, j \in DOMAIN s : i < j => Setup!Follows(s[i], s[j])
  <2> SUFFICES ASSUME NEW i \in DOMAIN s, NEW j \in DOMAIN s, i < j PROVE Setup!Follows(s[i], s[j])
    OBVIOUS
  <2>1. os[i] \in Setup!SetOf(os) /\ os[j] \in Setup!SetOf(os) /\ os[i] # os[j]
    BY <1>1, <1>3, IsOfIt
  <2>2. Setup!OkAfter(os[i], <<"new", os[j], "mod">>)
    BY <1>1, <1>4, <2>1
  <2> QED BY <1>3, <2>2 DEF Setup!Follows, Setup!Is
<1>6. \A o \in {"chrdev", "cdev", "class"} : Setup!Fine(<<"new", o, "mod">>) /\ o \in Setup!Device /\
    o \notin Setup!Counted
  BY ObjectSets DEF Setup!Fine, Setup!Ways, Setup!Link, Setup!Platform
<1>7. Setup!TakenAtOnce(s)
  <2>1. \A i \in DOMAIN s : s[i][2] \notin Setup!Counted
    BY <1>1, <1>3, <1>6, IsOfIt
  <2> QED BY <2>1 DEF Setup!TakenAtOnce
<1>8. Prepares(s, {"chrdev", "cdev", "class"})
  <2>1. \A o \in {"chrdev", "cdev", "class"} : <<"new", o, "mod">> \in Setup!SetOf(s)
    BY <1>2
  <2> QED BY <1>2, <1>5, <1>6, <1>7, <2>1 DEF Prepares, Keeps, Setup!InOrder, Setup!Is
<1>9. Prepares(t, {"device"}) /\ Setup!SetOf(t) = {<<"new", "device", "go">>}
  <2>1. Setup!Fine(<<"new", "device", "go">>)
    BY ObjectSets DEF Setup!Fine, Setup!Ways, Setup!Link, Setup!Platform
  <2> QED BY <2>1, MakesOnly, ObjectSets
<1>10. Suits({"chrdev", "cdev", "class"}, t)
  BY <1>9 DEF Suits, Setup!OkAfter, Setup!Scope
<1> HIDE DEF s, t
<1>11. Prepares(s \o t, {"chrdev", "cdev", "class"} \union {"device"})
  BY <1>8, <1>9, <1>10, PreparesBoth
<1>12. {"chrdev", "cdev", "class"} \union {"device"} = {"chrdev", "cdev", "class", "device"}
  OBVIOUS
<1> QED BY <1>11, <1>12 DEF Setup!fm_cdev_setup, s, t, os

MakesDevice == Setup!fm_dev_init \o Setup!fm_cdev_setup \o Setup!New(<<"proc">>, "mod")

LEMMA DeviceIsPrepared == Prepares(MakesDevice, Setup!Device)
<1> DEFINE t == Setup!New(<<"proc">>, "mod")
           os == Setup!Fm \union {"fm"}
           ps == {"chrdev", "cdev", "class", "device"}
<1>1. Suits(os, Setup!fm_cdev_setup)
  <2>1. \A y \in Setup!SetOf(Setup!fm_cdev_setup) : y[1] = "new" => y[2] \in ps /\ y[3] \in {"mod", "go"}
    <3>1. IsSeq(<<"chrdev", "cdev", "class">>) /\
        Setup!SetOf(<<"chrdev", "cdev", "class">>) = {"chrdev", "cdev", "class"}
          /\ IsSeq(<<"device">>) /\ Setup!SetOf(<<"device">>) = {"device"}
      BY DEF IsSeq, Setup!SetOf
    <3>2. /\ Setup!SetOf(Setup!New(<<"chrdev", "cdev", "class">>, "mod")) = {<<"new", o, "mod">> :
               o \in {"chrdev", "cdev", "class"}}
          /\ Setup!SetOf(Setup!New(<<"device">>, "go")) = {<<"new", o, "go">> : o \in {"device"}}
          /\ IsSeq(Setup!New(<<"chrdev", "cdev", "class">>, "mod")) /\ IsSeq(Setup!New(<<"device">>, "go"))
      BY <3>1, NewIs
    <3> QED BY <3>2, Joins DEF Setup!fm_cdev_setup
  <2>2. \A p \in os : \A o \in ps : p # o
    BY ObjectSets
  <2>3. \A p \in os : p \in Setup!Scope("mod") => \E z \in Setup!SetOf(Setup!Way["mod"]) : Setup!Undoes(z, p)
    <3>1. Covers(Setup!Way["mod"], Setup!Device \ {"tx_power_wk", "tx_desense_wk", "proc"})
      BY WaysAreFine DEF Setup!Ways, WayIsFine
    <3> QED BY <3>1, ObjectSets DEF Covers, Setup!Scope
  <2>4. \A p \in os : p \notin Setup!Scope("go")
    BY DEF Setup!Scope
  <2> QED BY <2>1, <2>2, <2>3, <2>4 DEF Suits, Setup!OkAfter
<1>2. Prepares(Setup!fm_dev_init \o Setup!fm_cdev_setup, os \union ps)
  <2>1. os \intersect ps = {} /\ "fm" \notin ps
    BY ObjectSets
  <2> QED BY <1>1, <2>1, DevInits, CdevSetsUp, PreparesBoth
<1>3. Prepares(t, {"proc"}) /\ Setup!SetOf(t) = {<<"new", "proc", "mod">>}
  <2>1. Setup!Fine(<<"new", "proc", "mod">>)
    BY ObjectSets DEF Setup!Fine, Setup!Ways, Setup!Link, Setup!Platform
  <2> QED BY <2>1, MakesOnly, ObjectSets
<1>4. Suits(os \union ps, t)
  <2>1. os \union ps \subseteq Setup!Device \ {"proc"} /\ "proc" \notin os \union ps
    BY ObjectSets
  <2> QED BY <1>3, <2>1, SuitsMod
<1> HIDE DEF t
<1>5. Prepares(Setup!fm_dev_init \o Setup!fm_cdev_setup \o t, (os \union ps) \union {"proc"})
  <2>1. (os \union ps) \intersect {"proc"} = {}
    BY ObjectSets
  <2> QED BY <1>2, <1>3, <1>4, <2>1, PreparesBoth
<1>6. (os \union ps) \union {"proc"} = Setup!Device
  BY ObjectSets
<1> QED BY <1>5, <1>6 DEF MakesDevice, t

LEMMA Probes ==
  /\ Keeps(Setup!mt_fm_probe) /\ Setup!TakenAtOnce(Setup!mt_fm_probe) /\ Setup!FreedOnce(Setup!mt_fm_probe)
  /\ \A y \in Setup!SetOf(Setup!mt_fm_probe) : Setup!Fine(y) /\
       y[1] \in {"new", "get", "publish", "bind", "request"} /\ y[2] \in Setup!DeviceObjects
  /\ \A y \in Setup!SetOf(Setup!mt_fm_probe) : y[1] \in {"new", "get"} => y[2] \in Setup!Device
  /\ <<"bind", "g_fm">> \in Setup!SetOf(Setup!mt_fm_probe)
  /\ \A o \in Setup!Device : \E y \in Setup!SetOf(Setup!mt_fm_probe) : Setup!Is(y, "new", o)
  /\ \A y \in Setup!SetOf(Setup!mt_fm_probe) : y[1] = "new" /\ y[2] \in Setup!Counted \ {"rds_data"} =>
       \E z \in Setup!SetOf(Setup!mt_fm_probe) : Setup!Is(z, "get", y[2])
<1> DEFINE a == << <<"request", "lna">> >>
           b == << <<"bind", "g_fm">> >>
           m == MakesDevice
<1>1. IsSeq(a) /\ Setup!SetOf(a) = {<<"request", "lna">>} /\ IsSeq(b) /\ Setup!SetOf(b) = {<<"bind", "g_fm">>}
  BY DEF IsSeq, Setup!SetOf
<1>2. Setup!InOrder(a) /\ Setup!InOrder(b) /\ Setup!TakenAtOnce(a) /\ Setup!TakenAtOnce(b)
  BY DEF Setup!InOrder, Setup!TakenAtOnce
<1>3. Setup!mt_fm_probe = a \o (m \o b)
  BY DEF Setup!mt_fm_probe, Setup!fm_mod_init, MakesDevice
<1>4. Prepares(m, Setup!Device)
  BY DeviceIsPrepared
<1> HIDE DEF a, b, m
<1>5. /\ Keeps(m \o b)
      /\ Setup!TakenAtOnce(m \o b)
      /\ Setup!SetOf(m \o b) = Setup!SetOf(m) \union {<<"bind", "g_fm">>}
  <2>1. \A x \in Setup!SetOf(m) : Setup!Follows(x, <<"bind", "g_fm">>)
    BY <1>4 DEF Prepares, Setup!Follows, Setup!Is, Setup!OkAfter
  <2>2. Before(Setup!SetOf(m), Setup!SetOf(b))
    BY <1>1, <2>1 DEF Before
  <2> QED BY <1>1, <1>2, <1>4, <2>2, Joins, JoinsInOrder, JoinsTaken DEF Prepares, Keeps
<1>6. /\ Keeps(Setup!mt_fm_probe) /\ Setup!TakenAtOnce(Setup!mt_fm_probe)
      /\ Setup!SetOf(Setup!mt_fm_probe) = {<<"request", "lna">>} \union Setup!SetOf(m) \union
           {<<"bind", "g_fm">>}
  <2>1. \A y : y[1] \in {"new", "get", "publish", "bind"} /\ (y[1] = "get" => y[2] \notin Setup!Locks) =>
               Setup!Follows(<<"request", "lna">>, y)
    BY ObjectSets DEF Setup!Follows, Setup!Is
  <2>2. \A y \in Setup!SetOf(m) : y[1] \in {"new", "get", "publish", "bind"} /\
      (y[1] = "get" => y[2] \notin Setup!Locks)
    BY <1>4, ObjectSets DEF Prepares
  <2>3. Before(Setup!SetOf(a), Setup!SetOf(m \o b))
    BY <1>1, <1>5, <2>1, <2>2 DEF Before
  <2>4. Setup!SetOf(a \o (m \o b)) = Setup!SetOf(a) \union Setup!SetOf(m \o b)
    BY <1>1, <1>5, Joins DEF Keeps
  <2>5. Keeps(a \o (m \o b)) /\ Setup!TakenAtOnce(a \o (m \o b))
    BY <1>1, <1>2, <1>5, <2>3, JoinsInOrder, JoinsTaken DEF Keeps
  <2> QED BY <1>1, <1>3, <1>5, <2>4, <2>5
<1>7. \A y \in Setup!SetOf(Setup!mt_fm_probe) : Setup!Fine(y) /\
    y[1] \in {"new", "get", "publish", "bind", "request"} /\ y[2] \in Setup!DeviceObjects
  BY <1>4, <1>6, ObjectSets DEF Prepares, Setup!Fine, Setup!DeviceObjects
<1>8. \A y \in Setup!SetOf(Setup!mt_fm_probe) : y[1] \in {"new", "get"} => y[2] \in Setup!Device
  BY <1>4, <1>6 DEF Prepares
<1>9. Setup!FreedOnce(Setup!mt_fm_probe)
  BY <1>6, <1>7, NothingFreed DEF Keeps
<1>10. \A o \in Setup!Device : \E y \in Setup!SetOf(Setup!mt_fm_probe) : Setup!Is(y, "new", o)
  BY <1>4, <1>6 DEF Prepares
<1>11. \A y \in Setup!SetOf(Setup!mt_fm_probe) : y[1] = "new" /\ y[2] \in Setup!Counted \ {"rds_data"} =>
         \E z \in Setup!SetOf(Setup!mt_fm_probe) : Setup!Is(z, "get", y[2])
  <2>1. \A i \in DOMAIN Setup!mt_fm_probe : Setup!mt_fm_probe[i][1] = "new" /\
      Setup!mt_fm_probe[i][2] \in Setup!Counted \ {"rds_data"} =>
          Setup!mt_fm_probe[i][2] \notin Setup!Locks
    BY <1>8, ObjectSets, IsOfIt
  <2>2. \A i \in DOMAIN Setup!mt_fm_probe : Setup!mt_fm_probe[i][1] = "new" /\
      Setup!mt_fm_probe[i][2] \in Setup!Counted \ {"rds_data"} =>
          /\ Setup!mt_fm_probe[i + 1] \in Setup!SetOf(Setup!mt_fm_probe)
          /\ Setup!Is(Setup!mt_fm_probe[i + 1], "get", Setup!mt_fm_probe[i][2])
    BY <1>6, <2>1, IsOfIt DEF Setup!TakenAtOnce
  <2> QED BY <2>2 DEF Setup!SetOf
<1>12. <<"bind", "g_fm">> \in Setup!SetOf(Setup!mt_fm_probe)
  BY <1>6
<1> QED BY <1>6, <1>7, <1>8, <1>9, <1>10, <1>11, <1>12

\* t makes the objects ms of the environment, and takes references to gs.
SetsUp(t, ms, gs) ==
  /\ Keeps(t) /\ Setup!TakenAtOnce(t)
  /\ \A y \in Setup!SetOf(t) : Setup!Fine(y) /\ y[1] \in {"new", "get", "need", "listen"} /\
       y[2] \in Setup!SetupObjects
  /\ \A y \in Setup!SetOf(t) : (y[1] = "new" => y[2] \in ms) /\ (y[1] = "get" => y[2] \in gs)
  /\ \A o \in ms : \E y \in Setup!SetOf(t) : Setup!Is(y, "new", o)
  /\ \A o \in gs : \E y \in Setup!SetOf(t) : Setup!Is(y, "get", o)

FirstMade == {"regs", "cmd_buf_lock", "cmd_buf"}

\* The steps of t need not come before any of ms is made.
NotEarlier(ms, t) ==
  \A y \in Setup!SetOf(t) :
    /\ y[1] = "need" => IF y[2] = "library" THEN ms \subseteq {"regs"} ELSE ms \subseteq FirstMade
    /\ y[1] = "get" /\ y[2] \in Setup!Locks => ms \subseteq Setup!Locks \union FirstMade

LEMMA SetsUpBoth ==
  ASSUME NEW s, NEW ms, NEW gs, SetsUp(s, ms, gs), NEW t, NEW ns, NEW hs, SetsUp(t, ns, hs),
         gs \intersect (ns \union hs) = {}, Suits(ms, t), NotEarlier(ms, t)
  PROVE  SetsUp(s \o t, ms \union ns, gs \union hs)
<1>1. ASSUME NEW x \in Setup!SetOf(s), NEW y \in Setup!SetOf(t) PROVE Setup!Follows(x, y)
  <2>1. /\ x[1] \in {"new", "get", "need", "listen"} /\ y[1] \in {"new", "get", "need", "listen"}
        /\ (x[1] = "new" => x[2] \in ms) /\ (x[1] = "get" => x[2] \in gs)
        /\ (y[1] = "new" => y[2] \in ns) /\ (y[1] = "get" => y[2] \in hs)
    BY <1>1 DEF SetsUp
  <2>2. x[1] = "new" => Setup!OkAfter(x[2], y)
    BY <1>1, <2>1 DEF Suits
  <2>3. x[1] = "get" => ~Setup!Is(y, "get", x[2]) /\ ~Setup!Is(y, "new", x[2])
    BY <2>1 DEF Setup!Is
  <2>4. /\ Setup!Is(y, "need", "library") => x[1] # "new" \/ x[2] = "regs"
        /\ Setup!Is(y, "need", "cmd_buf_lock") => x[1] # "new" \/ x[2] \in FirstMade
        /\ y[1] = "get" /\ y[2] \in Setup!Locks => x[1] # "new" \/ x[2] \in Setup!Locks \union FirstMade
    BY <2>1 DEF NotEarlier, Setup!Is
  <2> QED BY <2>1, <2>2, <2>3, <2>4 DEF Setup!Follows, Setup!Is, FirstMade
<1>2. Before(Setup!SetOf(s), Setup!SetOf(t))
  BY <1>1 DEF Before
<1>3. Setup!SetOf(s \o t) = Setup!SetOf(s) \union Setup!SetOf(t)
  BY Joins DEF SetsUp, Keeps
<1>4. Keeps(s \o t) /\ Setup!TakenAtOnce(s \o t)
  BY <1>2, JoinsInOrder, JoinsTaken DEF SetsUp, Keeps
<1> QED BY <1>3, <1>4 DEF SetsUp

\* All ways but the platform device's undo all of the environment.
LEMMA EnvOkAfter ==
  ASSUME NEW p \in Setup!Env, NEW o, NEW way \in EnvWays \union {"go"}, p # o, o = "cmd_buf" =>
      p \notin Setup!Locks
  PROVE  Setup!OkAfter(p, <<"new", o, way>>)
<1>1. way \in EnvWays => Covers(Setup!Way[way], Setup!Env \ {"regs"})
  BY WaysAreFine DEF Setup!Ways, WayIsFine, EnvWays
<1>2. p \in Setup!Scope(way) => \E z \in Setup!SetOf(Setup!Way[way]) : Setup!Undoes(z, p)
  BY <1>1 DEF Covers, Setup!Scope, EnvWays
<1> QED BY <1>2 DEF Setup!OkAfter

LEMMA SuitsEnv ==
  ASSUME NEW ms, ms \subseteq Setup!Env, NEW t,
         \A y \in Setup!SetOf(t) : y[1] = "new" =>
           \E o, way : /\ y = <<"new", o, way>> /\ way \in EnvWays \union {"go"} /\ o \notin ms
                       /\ o = "cmd_buf" => ms \intersect Setup!Locks = {}
  PROVE  Suits(ms, t)
<1> SUFFICES ASSUME NEW p \in ms, NEW y \in Setup!SetOf(t), y[1] = "new" PROVE Setup!OkAfter(p, y)
  BY DEF Suits, Setup!OkAfter
<1>1. PICK o, way : /\ y = <<"new", o, way>> /\ way \in EnvWays \union {"go"} /\ o \notin ms
                    /\ o = "cmd_buf" => ms \intersect Setup!Locks = {}
  OBVIOUS
<1> QED BY <1>1, EnvOkAfter

LEMMA LocksMade ==
  ASSUME NEW os, IsSeq(os), Setup!SetOf(os) \subseteq Setup!Locks, \A i, j \in DOMAIN os : i < j =>
      os[i] # os[j],
         NEW way, IF Setup!SetOf(os) = {"fm_rtc_mutex"} THEN way = "go"
                  ELSE way = "env" /\ "fm_rtc_mutex" \notin Setup!SetOf(os)
  PROVE  /\ SetsUp(Setup!New(os, way), Setup!SetOf(os), {})
         /\ Setup!SetOf(Setup!New(os, way)) = {<<"new", o, way>> : o \in Setup!SetOf(os)}
<1>1. IsSeq(Setup!New(os, way)) /\ Setup!SetOf(Setup!New(os, way)) = {<<"new", o, way>> : o \in Setup!SetOf(os)}
  BY NewIs
<1>2. DOMAIN Setup!New(os, way) = DOMAIN os /\
    \A i \in DOMAIN os : Setup!New(os, way)[i] = <<"new", os[i], way>>
  BY DEF Setup!New
<1>3. Setup!InOrder(Setup!New(os, way))
  <2> SUFFICES ASSUME NEW i \in DOMAIN os, NEW j \in DOMAIN os, i < j
               PROVE  Setup!Follows(<<"new", os[i], way>>, <<"new", os[j], way>>)
    BY <1>2 DEF Setup!InOrder
  <2>1. os[i] \in Setup!Env /\ os[i] # os[j] /\ os[j] # "cmd_buf" /\ way \in EnvWays \union {"go"}
    BY IsOfIt, ObjectSets DEF EnvWays
  <2>2. Setup!OkAfter(os[i], <<"new", os[j], way>>)
    BY <2>1, EnvOkAfter
  <2> QED BY <2>2 DEF Setup!Follows, Setup!Is
<1>4. Setup!TakenAtOnce(Setup!New(os, way))
  <2>1. \A i \in DOMAIN Setup!New(os, way) : Setup!New(os, way)[i][2] \in Setup!Locks
    BY <1>2, IsOfIt
  <2> QED BY <2>1 DEF Setup!TakenAtOnce
<1>5. \A o \in Setup!SetOf(os) : Setup!Fine(<<"new", o, way>>) /\ o \in Setup!SetupObjects
  <2>1. \A o \in Setup!SetOf(os) : way = "go" <=> o = "fm_rtc_mutex"
    OBVIOUS
  <2> QED BY <2>1, ObjectSets DEF Setup!Fine, Setup!Ways, Setup!Link, Setup!Platform, Setup!SetupObjects
<1>6. \A o \in Setup!SetOf(os) : \E y \in Setup!SetOf(Setup!New(os, way)) : Setup!Is(y, "new", o)
  <2>1. \A o \in Setup!SetOf(os) : <<"new", o, way>> \in Setup!SetOf(Setup!New(os, way)) /\
      Setup!Is(<<"new", o, way>>, "new", o)
    BY <1>1 DEF Setup!Is
  <2> QED BY <2>1
<1>7. \A y \in Setup!SetOf(Setup!New(os, way)) : Setup!Fine(y) /\ y[1] = "new" /\ y[2] \in Setup!SetOf(os) /\
    y[2] \in Setup!SetupObjects
  BY <1>1, <1>5
<1>8. IsSeq(Setup!New(os, way)) /\ Setup!InOrder(Setup!New(os, way)) /\ Setup!TakenAtOnce(Setup!New(os, way))
  BY <1>1, <1>3, <1>4
<1> QED BY <1>1, <1>6, <1>7, <1>8 DEF SetsUp, Keeps

LEMMA LocksTaken ==
  ASSUME NEW os, IsSeq(os), Setup!SetOf(os) \subseteq Setup!Locks, \A i, j \in DOMAIN os : i < j =>
      os[i] # os[j]
  PROVE  /\ SetsUp(Setup!Each("get", os), {}, Setup!SetOf(os))
         /\ Setup!SetOf(Setup!Each("get", os)) = {<<"get", o>> : o \in Setup!SetOf(os)}
<1>1. /\ IsSeq(Setup!Each("get", os))
      /\ Setup!SetOf(Setup!Each("get", os)) = {<<"get", o>> : o \in Setup!SetOf(os)}
  BY EachIs
<1>2. DOMAIN Setup!Each("get", os) = DOMAIN os /\
    \A i \in DOMAIN os : Setup!Each("get", os)[i] = <<"get", os[i]>>
  BY DEF Setup!Each
<1>3. Setup!InOrder(Setup!Each("get", os))
  BY <1>2 DEF Setup!InOrder, Setup!Follows, Setup!Is
<1>4. Setup!TakenAtOnce(Setup!Each("get", os))
  BY <1>2 DEF Setup!TakenAtOnce
<1>5. \A o \in Setup!SetOf(os) : Setup!Fine(<<"get", o>>) /\ o \in Setup!SetupObjects
  BY ObjectSets DEF Setup!Fine, Setup!SetupObjects
<1>6. \A o \in Setup!SetOf(os) : \E y \in Setup!SetOf(Setup!Each("get", os)) : Setup!Is(y, "get", o)
  <2>1. \A o \in Setup!SetOf(os) : <<"get", o>> \in Setup!SetOf(Setup!Each("get", os)) /\
      Setup!Is(<<"get", o>>, "get", o)
    BY <1>1 DEF Setup!Is
  <2> QED BY <2>1
<1>7. \A y \in Setup!SetOf(Setup!Each("get", os)) : Setup!Fine(y) /\ y[1] = "get" /\ y[2] \in Setup!SetOf(os) /\
    y[2] \in Setup!SetupObjects
  BY <1>1, <1>5
<1>8. /\ IsSeq(Setup!Each("get", os))
      /\ Setup!InOrder(Setup!Each("get", os))
      /\ Setup!TakenAtOnce(Setup!Each("get", os))
  BY <1>1, <1>3, <1>4
<1> QED BY <1>1, <1>6, <1>7, <1>8 DEF SetsUp, Keeps

LEMMA KnownBuild == ASSUME fm_build \in FmBuilds
  PROVE fm_build[1] \in {"wmt", "conninfra"}
    /\ fm_build[2] \in {"mt6631", "mt6635", "mt6635_2", "mt6627", "mt6580", "mt6630", "mt6632"}
BY DEF FmBuilds

RegsMade == IF fm_build[1] = "conninfra" THEN {"regs"} ELSE {}

LEMMA OneStep ==
  ASSUME NEW x, Setup!Fine(x), x[1] \in {"new", "get", "need", "listen"}, x[2] \in Setup!SetupObjects,
         x[1] = "new" => x[2] \notin Setup!Counted \/ x[2] \in Setup!Locks
  PROVE  /\ Setup!SetOf(<<x>>) = {x}
         /\ SetsUp(<<x>>, IF x[1] = "new" THEN {x[2]} ELSE {}, IF x[1] = "get" THEN {x[2]} ELSE {})
<1>1. IsSeq(<<x>>) /\ Setup!SetOf(<<x>>) = {x}
  BY DEF IsSeq, Setup!SetOf
<1>2. Setup!InOrder(<<x>>) /\ Setup!TakenAtOnce(<<x>>)
  BY DEF Setup!InOrder, Setup!TakenAtOnce
<1> QED BY <1>1, <1>2 DEF SetsUp, Keeps, Setup!Is

LEMMA NewGetSetsUp ==
  ASSUME NEW o \in {"cmd_buf_lock", "fm_timer_sys", "ln_event"}, NEW way, Setup!Fine(<<"new", o, way>>)
  PROVE  /\ Setup!SetOf(Setup!NewGet(o, way)) = {<<"new", o, way>>, <<"get", o>>}
         /\ SetsUp(Setup!NewGet(o, way), {o}, {o})
<1>1. IsSeq(Setup!NewGet(o, way)) /\ Setup!SetOf(Setup!NewGet(o, way)) = {<<"new", o, way>>, <<"get", o>>}
  BY DEF Setup!NewGet, IsSeq, Setup!SetOf
<1>2. Setup!InOrder(Setup!NewGet(o, way))
  BY ObjectSets DEF Setup!InOrder, Setup!NewGet, Setup!Follows, Setup!Is, Setup!OkAfter
<1>3. Setup!TakenAtOnce(Setup!NewGet(o, way))
  BY DEF Setup!TakenAtOnce, Setup!NewGet, Setup!Is
<1>4. Setup!Fine(<<"get", o>>) /\ o \in Setup!SetupObjects
  BY ObjectSets DEF Setup!Fine, Setup!SetupObjects
<1> QED BY <1>1, <1>2, <1>3, <1>4, ObjectSets DEF SetsUp, Keeps, Setup!Is

LEMMA LowOpsRegister ==
  LET t == Setup!mt6631_fm_low_ops_register
  IN  /\ SetsUp(t, {"cmd_buf_lock", "cmd_buf"}, {"cmd_buf_lock"})
      /\ <<"need", "cmd_buf_lock", "env">> \in Setup!SetOf(t)
      /\ Setup!SetOf(t) = {<<"new", "cmd_buf_lock", "go">>, <<"get", "cmd_buf_lock">>,
           <<"new", "cmd_buf", "env">>,
                           <<"need", "cmd_buf_lock", "env">>}
<1> DEFINE a == Setup!NewGet("cmd_buf_lock", "go")
           x == <<"new", "cmd_buf", "env">>
           y == <<"need", "cmd_buf_lock", "env">>
           b == <<x>>
           c == <<y>>
<1>1. Setup!Fine(<<"new", "cmd_buf_lock", "go">>) /\ Setup!Fine(x) /\ Setup!Fine(y)
  BY ObjectSets DEF Setup!Fine, Setup!Ways, Setup!Link, Setup!Platform
<1>2. /\ Setup!SetOf(a) = {<<"new", "cmd_buf_lock", "go">>, <<"get", "cmd_buf_lock">>}
      /\ SetsUp(a, {"cmd_buf_lock"}, {"cmd_buf_lock"})
  BY <1>1, NewGetSetsUp
<1>3. Setup!SetOf(b) = {x} /\ SetsUp(b, {"cmd_buf"}, {})
  <2>1. x[2] \notin Setup!Counted /\ x[2] \in Setup!SetupObjects /\ x[1] = "new" /\ x[2] = "cmd_buf"
    BY ObjectSets DEF Setup!SetupObjects
  <2> QED BY <1>1, <2>1, OneStep
<1>4. Setup!SetOf(c) = {y} /\ SetsUp(c, {}, {})
  <2>1. y[2] \in Setup!SetupObjects /\ y[1] = "need"
    BY ObjectSets DEF Setup!SetupObjects
  <2> QED BY <1>1, <2>1, OneStep
<1>5. Setup!New(<<"cmd_buf">>, "env") = b
  <2>1. DOMAIN Setup!New(<<"cmd_buf">>, "env") = 1 .. 1 /\ Setup!New(<<"cmd_buf">>, "env")[1] = x
    BY DEF Setup!New
  <2> QED BY <2>1 DEF Setup!New
<1>6. Setup!mt6631_fm_low_ops_register = a \o b \o c
  BY <1>5 DEF Setup!mt6631_fm_low_ops_register
<1>7. Suits({"cmd_buf_lock"}, b) /\ NotEarlier({"cmd_buf_lock"}, b)
  <2>1. Suits({"cmd_buf_lock"}, b)
    <3>1. /\ {"cmd_buf_lock"} \subseteq Setup!Env
          /\ {"cmd_buf_lock"} \intersect Setup!Locks = {}
          /\ "env" \in EnvWays
      BY ObjectSets DEF EnvWays
    <3> QED BY <1>3, <3>1, SuitsEnv
  <2> QED BY <1>3, <2>1 DEF NotEarlier
<1>8. Suits({"cmd_buf_lock", "cmd_buf"}, c) /\ NotEarlier({"cmd_buf_lock", "cmd_buf"}, c)
  BY <1>4 DEF NotEarlier, Suits, Setup!OkAfter, FirstMade
<1> HIDE DEF a, b, c
<1>9. SetsUp(a \o b, {"cmd_buf_lock"} \union {"cmd_buf"}, {"cmd_buf_lock"} \union {})
  BY <1>2, <1>3, <1>7, SetsUpBoth
<1>10. /\ {"cmd_buf_lock"} \union {"cmd_buf"} = {"cmd_buf_lock", "cmd_buf"}
       /\ {"cmd_buf_lock"} \union {} = {"cmd_buf_lock"}
  OBVIOUS
<1>11. SetsUp(a \o b \o c, {"cmd_buf_lock", "cmd_buf"} \union {}, {"cmd_buf_lock"} \union {})
  BY <1>4, <1>8, <1>9, <1>10, SetsUpBoth
<1>12. Setup!SetOf(a \o b \o c) = Setup!SetOf(a) \union Setup!SetOf(b) \union Setup!SetOf(c)
  <2>1. IsSeq(a) /\ IsSeq(b) /\ IsSeq(c) /\ IsSeq(a \o b)
    BY <1>2, <1>3, <1>4, <1>9 DEF SetsUp, Keeps
  <2>2. /\ Setup!SetOf(a \o b) = Setup!SetOf(a) \union Setup!SetOf(b)
        /\ Setup!SetOf((a \o b) \o c) = Setup!SetOf(a \o b) \union Setup!SetOf(c)
    BY <2>1, Joins
  <2> QED BY <2>2
<1>13. {"cmd_buf_lock", "cmd_buf"} \union {} = {"cmd_buf_lock", "cmd_buf"}
  OBVIOUS
<1>14. SetsUp(a \o b \o c, {"cmd_buf_lock", "cmd_buf"}, {"cmd_buf_lock"})
  BY <1>10, <1>11, <1>13
<1> QED BY <1>2, <1>3, <1>4, <1>6, <1>12, <1>14

LEMMA OpsRegister ==
  ASSUME fm_build \in FmBuilds
  PROVE  /\ SetsUp(Setup!fm_ops_register, RegsMade \union {"cmd_buf_lock", "cmd_buf"}, {"cmd_buf_lock"})
         /\ <<"need", "library", "env">> \in Setup!SetOf(Setup!fm_ops_register)
         /\ <<"need", "cmd_buf_lock", "env">> \in Setup!SetOf(Setup!fm_ops_register)
         /\ \A y \in Setup!SetOf(Setup!fm_ops_register) : y[1] = "need" => y[3] = "env"
<1> DEFINE r == IF fm_build[1] = "conninfra" THEN Setup!register_drv_ops_init ELSE <<>>
           x == <<"need", "library", "env">>
           n == <<x>>
           l == Setup!mt6631_fm_low_ops_register
<1>1. Setup!low_ops_register[fm_build[2]] = l
  BY KnownBuild DEF Setup!low_ops_register, Setup!mt6635_fm_low_ops_register,
      Setup!mt6635_2_fm_low_ops_register,
     Setup!mt6627_low_ops_register, Setup!mt6580_low_ops_register, Setup!mt6630_low_ops_register,
         Setup!mt6632_low_ops_register
<1>2. SetsUp(r, RegsMade, {}) /\ \A y \in Setup!SetOf(r) : y[1] = "new"
  <2>1. CASE fm_build[1] = "conninfra"
    <3>1. /\ DOMAIN Setup!New(<<"regs">>, "go") = 1 .. 1
          /\ Setup!New(<<"regs">>, "go")[1] = <<"new", "regs", "go">>
      BY DEF Setup!New
    <3>2. r = << <<"new", "regs", "go">> >>
      BY <2>1, <3>1 DEF Setup!register_drv_ops_init, Setup!New
    <3>3. Setup!Fine(<<"new", "regs", "go">>) /\ "regs" \in Setup!SetupObjects /\ "regs" \notin Setup!Counted
      BY <2>1, ObjectSets DEF Setup!Fine, Setup!Ways, Setup!Link, Setup!Platform, Setup!SetupObjects
    <3> QED BY <2>1, <3>2, <3>3, OneStep DEF RegsMade
  <2>2. CASE fm_build[1] # "conninfra"
    <3>1. r = <<>> /\ RegsMade = {}
      BY <2>2 DEF RegsMade
    <3> QED BY <3>1, NothingToDo, NothingTaken DEF SetsUp, Keeps, Undoing
  <2> QED BY <2>1, <2>2
<1>3. Setup!SetOf(n) = {x} /\ SetsUp(n, {}, {})
  <2>1. Setup!Fine(x) /\ x[1] = "need" /\ x[2] \in Setup!SetupObjects
    BY ObjectSets DEF Setup!Fine, Setup!SetupObjects
  <2> QED BY <2>1, OneStep
<1>4. Suits(RegsMade, n) /\ NotEarlier(RegsMade, n)
  BY <1>3 DEF Suits, Setup!OkAfter, NotEarlier, RegsMade
<1>5. Setup!fm_ops_register = r \o n \o l
  BY <1>1 DEF Setup!fm_ops_register
<1> HIDE DEF r, n
<1>6. SetsUp(r \o n, RegsMade \union {}, {} \union {})
  BY <1>2, <1>3, <1>4, SetsUpBoth
<1>7. SetsUp(r \o n, RegsMade, {})
  <2>1. RegsMade \union {} = RegsMade /\ {} \union {} = {}
    OBVIOUS
  <2> QED BY <1>6, <2>1
<1>8. Suits(RegsMade, l) /\ NotEarlier(RegsMade, l)
  <2>1. RegsMade \subseteq Setup!Env /\ RegsMade \intersect Setup!Locks = {} /\ RegsMade \subseteq {"regs"} /\
      RegsMade \subseteq FirstMade
        /\ "cmd_buf_lock" \notin Setup!Locks
    BY ObjectSets DEF RegsMade, FirstMade
  <2>2. \A y \in Setup!SetOf(l) : y[1] = "new" =>
           \E o, way : /\ y = <<"new", o, way>> /\ way \in EnvWays \union {"go"} /\ o \notin RegsMade
                       /\ o = "cmd_buf" => RegsMade \intersect Setup!Locks = {}
    BY <2>1, LowOpsRegister DEF EnvWays
  <2>3. Suits(RegsMade, l)
    BY <2>1, <2>2, SuitsEnv
  <2> QED BY <2>1, <2>3, LowOpsRegister DEF NotEarlier
<1>9. SetsUp(r \o n \o l, RegsMade \union {"cmd_buf_lock", "cmd_buf"}, {} \union {"cmd_buf_lock"})
  BY <1>7, <1>8, LowOpsRegister, SetsUpBoth
<1>10. Setup!SetOf(r \o n \o l) = Setup!SetOf(r) \union Setup!SetOf(n) \union Setup!SetOf(l)
  <2>1. IsSeq(r) /\ IsSeq(n) /\ IsSeq(l) /\ IsSeq(r \o n)
    BY <1>2, <1>3, <1>7, LowOpsRegister DEF SetsUp, Keeps
  <2>2. /\ Setup!SetOf(r \o n) = Setup!SetOf(r) \union Setup!SetOf(n)
        /\ Setup!SetOf((r \o n) \o l) = Setup!SetOf(r \o n) \union Setup!SetOf(l)
    BY <2>1, Joins
  <2> QED BY <2>2
<1>11. {} \union {"cmd_buf_lock"} = {"cmd_buf_lock"}
  OBVIOUS
<1>12. SetsUp(Setup!fm_ops_register, RegsMade \union {"cmd_buf_lock", "cmd_buf"}, {"cmd_buf_lock"})
  BY <1>5, <1>9, <1>11
<1>13. \A y \in Setup!SetOf(Setup!fm_ops_register) : y[1] = "need" => y[3] = "env"
  BY <1>12 DEF SetsUp, Setup!Fine
<1> QED BY <1>3, <1>5, <1>10, <1>12, <1>13, LowOpsRegister

LEMMA LinkSetup ==
  /\ SetsUp(Setup!fm_link_setup, {"link_event", "ln_event", "cmd_fifo", "evt_fifo"}, {"ln_event"})
  /\ Setup!SetOf(Setup!fm_link_setup) =
       {<<"new", "link_event", "env">>, <<"new", "ln_event", "no_event">>, <<"get", "ln_event">>,
        <<"new", "cmd_fifo", "no_fifo">>, <<"new", "evt_fifo", "no_fifo">>, <<"listen", "callback">>}
<1>1. /\ IsSeq(Setup!fm_link_setup) /\ DOMAIN Setup!fm_link_setup = 1 .. 6
      /\ Setup!fm_link_setup[1] = <<"new", "link_event", "env">> /\
           Setup!fm_link_setup[2] = <<"new", "ln_event", "no_event">>
      /\ Setup!fm_link_setup[3] = <<"get", "ln_event">> /\
           Setup!fm_link_setup[4] = <<"new", "cmd_fifo", "no_fifo">>
      /\ Setup!fm_link_setup[5] = <<"new", "evt_fifo", "no_fifo">>
      /\ Setup!fm_link_setup[6] = <<"listen", "callback">>
  BY DEF IsSeq, Setup!SetOf, Setup!fm_link_setup
<1>2. Setup!SetOf(Setup!fm_link_setup) =
        {<<"new", "link_event", "env">>, <<"new", "ln_event", "no_event">>, <<"get", "ln_event">>,
         <<"new", "cmd_fifo", "no_fifo">>, <<"new", "evt_fifo", "no_fifo">>, <<"listen", "callback">>}
  BY DEF Setup!SetOf, Setup!fm_link_setup
<1>3. /\ Setup!OkAfter("link_event", <<"new", "ln_event", "no_event">>)
      /\ Setup!OkAfter("link_event", <<"new", "cmd_fifo", "no_fifo">>) /\
           Setup!OkAfter("link_event", <<"new", "evt_fifo", "no_fifo">>)
      /\ Setup!OkAfter("ln_event", <<"new", "cmd_fifo", "no_fifo">>) /\
           Setup!OkAfter("ln_event", <<"new", "evt_fifo", "no_fifo">>)
      /\ Setup!OkAfter("cmd_fifo", <<"new", "evt_fifo", "no_fifo">>)
  <2>1. "link_event" \in Setup!Env /\ "ln_event" \in Setup!Env /\ "cmd_fifo" \in Setup!Env
        /\ "no_event" \in EnvWays \union {"go"} /\ "no_fifo" \in EnvWays \union {"go"}
    BY ObjectSets DEF EnvWays
  <2> QED BY <2>1, EnvOkAfter
<1>4. Setup!InOrder(Setup!fm_link_setup)
  <2> DEFINE a1 == <<"new", "link_event", "env">>
             a2 == <<"new", "ln_event", "no_event">>
             a3 == <<"get", "ln_event">>
             a4 == <<"new", "cmd_fifo", "no_fifo">>
             a5 == <<"new", "evt_fifo", "no_fifo">>
             a6 == <<"listen", "callback">>
  <2>1. /\ Setup!Follows(a1, a2) /\ Setup!Follows(a1, a4) /\ Setup!Follows(a1, a5)
        /\ Setup!Follows(a2, a4) /\ Setup!Follows(a2, a5) /\ Setup!Follows(a4, a5)
    BY <1>3 DEF Setup!Follows, Setup!Is
  <2>2. /\ Setup!Follows(a1, a3) /\ Setup!Follows(a2, a3)
        /\ Setup!Follows(a1, a6) /\ Setup!Follows(a2, a6) /\ Setup!Follows(a4, a6) /\ Setup!Follows(a5, a6)
    BY ObjectSets DEF Setup!Follows, Setup!Is, Setup!OkAfter
  <2>3. Setup!Follows(a3, a4) /\ Setup!Follows(a3, a5) /\ Setup!Follows(a3, a6)
    BY DEF Setup!Follows, Setup!Is
  <2> HIDE DEF a1, a2, a3, a4, a5, a6
  <2>4. /\ DOMAIN Setup!fm_link_setup = 1 .. 6
        /\ Setup!fm_link_setup[1] = a1 /\ Setup!fm_link_setup[2] = a2 /\ Setup!fm_link_setup[3] = a3
        /\ Setup!fm_link_setup[4] = a4 /\ Setup!fm_link_setup[5] = a5 /\ Setup!fm_link_setup[6] = a6
    BY <1>1 DEF a1, a2, a3, a4, a5, a6
  <2> QED BY <2>1, <2>2, <2>3, <2>4 DEF Setup!InOrder
<1>5. Setup!TakenAtOnce(Setup!fm_link_setup)
  BY <1>1, ObjectSets DEF Setup!TakenAtOnce, Setup!Is
<1>6. \A y \in Setup!SetOf(Setup!fm_link_setup) : Setup!Fine(y) /\ y[2] \in Setup!SetupObjects
  BY <1>2, ObjectSets DEF Setup!Fine, Setup!Ways, Setup!Link, Setup!Platform, Setup!SetupObjects
<1> QED BY <1>1, <1>2, <1>4, <1>5, <1>6 DEF SetsUp, Keeps, Setup!Is

LEMMA PlatformSetup ==
  LET t == << <<"new", "pdev", "left">>, <<"new", "added", "no_add">>, <<"new", "driver", "no_driver">> >>
  IN  /\ SetsUp(t, Setup!Platform, {})
      /\ Setup!SetOf(t) = {<<"new", "pdev", "left">>, <<"new", "added", "no_add">>,
           <<"new", "driver", "no_driver">>}
<1> DEFINE x == <<"new", "pdev", "left">>
           y == <<"new", "added", "no_add">>
           z == <<"new", "driver", "no_driver">>
           t == <<x, y, z>>
<1>1. IsSeq(t) /\ DOMAIN t = 1 .. 3 /\ t[1] = x /\ t[2] = y /\ t[3] = z /\ Setup!SetOf(t) = {x, y, z}
  BY DEF IsSeq, Setup!SetOf
<1>2. Setup!OkAfter("pdev", y) /\ Setup!OkAfter("pdev", z) /\ Setup!OkAfter("added", z)
  <2>1. Covers(Setup!Way["no_add"], {"pdev"}) /\ Covers(Setup!Way["no_driver"], {"pdev", "added"})
    BY WaysAreFine DEF Setup!Ways, WayIsFine
  <2> QED BY <2>1, ObjectSets DEF Setup!OkAfter, Covers
<1>3. Setup!InOrder(t)
  <2>1. Setup!Follows(x, y) /\ Setup!Follows(x, z) /\ Setup!Follows(y, z)
    BY <1>2 DEF Setup!Follows, Setup!Is
  <2> HIDE DEF x, y, z, t
  <2> QED BY <1>1, <2>1 DEF Setup!InOrder
<1>4. Setup!TakenAtOnce(t)
  BY ObjectSets DEF Setup!TakenAtOnce
<1>5. \A s \in {x, y, z} : Setup!Fine(s) /\ s[2] \in Setup!SetupObjects /\ s[1] = "new" /\
    s[2] \in Setup!Platform
  BY ObjectSets DEF Setup!Fine, Setup!Ways, Setup!Link, Setup!Platform, Setup!SetupObjects
<1>6. Setup!Is(x, "new", "pdev") /\ Setup!Is(y, "new", "added") /\ Setup!Is(z, "new", "driver")
  BY DEF Setup!Is
<1> HIDE DEF x, y, z, t
<1>7. SetsUp(t, Setup!Platform, {})
  BY <1>1, <1>3, <1>4, <1>5, <1>6 DEF SetsUp, Keeps, Setup!Platform
<1> QED BY <1>1, <1>7 DEF x, y, z, t

LEMMA SuitsPlatform ==
  ASSUME NEW ms, ms \subseteq Setup!Env, NEW t,
         Setup!SetOf(t) = {<<"new", "pdev", "left">>, <<"new", "added", "no_add">>,
             <<"new", "driver", "no_driver">>}
  PROVE  Suits(ms, t) /\ NotEarlier(ms, t)
<1>1. \A p \in ms : p \notin Setup!Platform
  BY ObjectSets DEF Setup!Platform
<1>2. \A p \in ms : \A y \in Setup!SetOf(t) : Setup!OkAfter(p, y)
  BY <1>1, ObjectSets DEF Setup!OkAfter, Setup!Scope, Setup!Platform
<1> QED BY <1>2 DEF Suits, NotEarlier

LEMMA SuitsLocks ==
  ASSUME NEW ms, ms \subseteq Setup!Env, NEW os, os \subseteq Setup!Locks, os \intersect ms = {},
      NEW way \in {"env", "go"},
         NEW t, Setup!SetOf(t) = {<<"new", o, way>> : o \in os}
  PROVE  Suits(ms, t) /\ NotEarlier(ms, t)
<1>1. way \in EnvWays \union {"go"} /\ "cmd_buf" \notin Setup!Locks
  BY ObjectSets DEF EnvWays
<1>2. \A p \in ms, o \in os : Setup!OkAfter(p, <<"new", o, way>>)
  BY <1>1, EnvOkAfter
<1>3. \A p \in ms, y \in Setup!SetOf(t) : Setup!OkAfter(p, y)
  BY <1>2
<1>4. \A y \in Setup!SetOf(t) : y[1] = "new"
  OBVIOUS
<1> QED BY <1>3, <1>4 DEF Suits, NotEarlier

LEMMA SuitsTaking ==
  ASSUME NEW ms, ms \subseteq Setup!Locks \union FirstMade, NEW t, \A y \in Setup!SetOf(t) : y[1] = "get"
  PROVE  Suits(ms, t) /\ NotEarlier(ms, t)
BY DEF Suits, NotEarlier, Setup!OkAfter

\* The objects that are made in every build, and those whose references are counted.
EnvMade == RegsMade \union (Setup!Env \ {"regs"})

LEMMA EnvSetsUp ==
  ASSUME fm_build \in FmBuilds
  PROVE  /\ SetsUp(Setup!fm_env_setup, EnvMade, Setup!Counted \intersect Setup!Env)
         /\ Setup!SetOf(Setup!fm_ops_register) \subseteq Setup!SetOf(Setup!fm_env_setup)
<1> DEFINE o  == Setup!fm_ops_register
           n1 == Setup!New(Setup!LocksBeforeRtc, "env")
           n2 == Setup!New(<<"fm_rtc_mutex">>, "go")
           n3 == Setup!New(Setup!LocksAfterRtc, "env")
           t1 == Setup!Each("get", Setup!LocksBeforeRtc)
           t2 == << <<"get", "fm_rtc_mutex">> >>
           t3 == Setup!Each("get", Setup!LocksAfterRtc)
           m  == Setup!NewGet("fm_timer_sys", "env")
           B  == Setup!SetOf(Setup!LocksBeforeRtc)
           A  == Setup!SetOf(Setup!LocksAfterRtc)
           M0 == RegsMade \union {"cmd_buf_lock", "cmd_buf"}
           M1 == M0 \union B
           M2 == M1 \union {"fm_rtc_mutex"}
           M3 == M2 \union A
           M4 == M3 \union {"fm_timer_sys"}
           G1 == {"cmd_buf_lock"} \union B
           G2 == G1 \union {"fm_rtc_mutex"}
           G3 == G2 \union A
           G4 == G3 \union {"fm_timer_sys"}
<1>1. B \subseteq Setup!Locks /\ A \subseteq Setup!Locks /\ "fm_rtc_mutex" \in Setup!Locks /\
    "fm_rtc_mutex" \notin B \union A
      /\ A \intersect B = {} /\ Setup!Locks = B \union {"fm_rtc_mutex"} \union A
      /\ Setup!Locks \intersect {"regs", "cmd_buf_lock", "cmd_buf", "fm_timer_sys", "link_event", "ln_event",
           "cmd_fifo", "evt_fifo"} = {}
      /\ RegsMade \subseteq {"regs"}
  BY LockSets, ObjectSets DEF RegsMade
<1>2. /\ \A i, j \in DOMAIN Setup!LocksBeforeRtc : i < j => Setup!LocksBeforeRtc[i] # Setup!LocksBeforeRtc[j]
      /\ \A i, j \in DOMAIN Setup!LocksAfterRtc : i < j => Setup!LocksAfterRtc[i] # Setup!LocksAfterRtc[j]
  BY DEF Setup!LocksBeforeRtc, Setup!LocksAfterRtc
<1>3. SetsUp(o, M0, {"cmd_buf_lock"})
  BY OpsRegister
<1>4. /\ SetsUp(n1, B, {}) /\ Setup!SetOf(n1) = {<<"new", p, "env">> : p \in B}
      /\ SetsUp(n3, A, {}) /\ Setup!SetOf(n3) = {<<"new", p, "env">> : p \in A}
  BY <1>1, <1>2, LockSets, LocksMade
<1>5. SetsUp(n2, {"fm_rtc_mutex"}, {}) /\ Setup!SetOf(n2) = {<<"new", "fm_rtc_mutex", "go">>}
  <2> DEFINE os == <<"fm_rtc_mutex">>
  <2>1. IsSeq(os) /\ Setup!SetOf(os) = {"fm_rtc_mutex"} /\ \A i, j \in DOMAIN os : i < j => os[i] # os[j]
    BY DEF IsSeq, Setup!SetOf
  <2> HIDE DEF os
  <2>2. /\ SetsUp(Setup!New(os, "go"), Setup!SetOf(os), {})
        /\ Setup!SetOf(Setup!New(os, "go")) = {<<"new", p, "go">> : p \in Setup!SetOf(os)}
    BY <1>1, <2>1, LocksMade
  <2> QED BY <2>1, <2>2 DEF os
<1>6. /\ SetsUp(t1, {}, B) /\ Setup!SetOf(t1) = {<<"get", p>> : p \in B}
      /\ SetsUp(t3, {}, A) /\ Setup!SetOf(t3) = {<<"get", p>> : p \in A}
  BY <1>1, <1>2, LockSets, LocksTaken
<1>7. SetsUp(t2, {}, {"fm_rtc_mutex"}) /\ Setup!SetOf(t2) = {<<"get", "fm_rtc_mutex">>}
  <2> DEFINE x == <<"get", "fm_rtc_mutex">>
  <2>1. Setup!Fine(x) /\ x[1] = "get" /\ x[2] = "fm_rtc_mutex" /\ x[2] \in Setup!SetupObjects
    BY ObjectSets DEF Setup!Fine, Setup!SetupObjects
  <2> QED BY <2>1, OneStep
<1>8. /\ SetsUp(m, {"fm_timer_sys"}, {"fm_timer_sys"})
      /\ Setup!SetOf(m) = {<<"new", "fm_timer_sys", "env">>, <<"get", "fm_timer_sys">>}
  <2>1. Setup!Fine(<<"new", "fm_timer_sys", "env">>)
    BY ObjectSets DEF Setup!Fine, Setup!Ways, Setup!Link, Setup!Platform
  <2> QED BY <2>1, NewGetSetsUp
<1> HIDE DEF n1, n2, n3, t1, t2, t3, m, A, B
<1>9. M0 \subseteq Setup!Env /\ M1 \subseteq Setup!Env /\ M2 \subseteq Setup!Env /\ M3 \subseteq Setup!Env /\
    M4 \subseteq Setup!Env
      /\ M3 \subseteq Setup!Locks \union FirstMade
  BY <1>1, ObjectSets DEF FirstMade
<1>10. SetsUp(o \o n1, M1, {"cmd_buf_lock"})
  <2>1. M0 \intersect B = {} /\ {"cmd_buf_lock"} \intersect (B \union {}) = {}
    BY <1>1
  <2>2. Suits(M0, n1) /\ NotEarlier(M0, n1)
    BY <1>1, <1>4, <1>9, <2>1, SuitsLocks
  <2>3. SetsUp(o \o n1, M1, {"cmd_buf_lock"} \union {})
    BY <1>3, <1>4, <2>1, <2>2, SetsUpBoth
  <2>4. {"cmd_buf_lock"} \union {} = {"cmd_buf_lock"}
    OBVIOUS
  <2> QED BY <2>3, <2>4
<1>11. SetsUp(o \o n1 \o n2, M2, {"cmd_buf_lock"})
  <2>1. M1 \intersect {"fm_rtc_mutex"} = {} /\ {"cmd_buf_lock"} \intersect ({"fm_rtc_mutex"} \union {}) = {}
    BY <1>1
  <2>2. /\ Setup!SetOf(n2) = {<<"new", p, "go">> : p \in {"fm_rtc_mutex"}}
        /\ {"fm_rtc_mutex"} \subseteq Setup!Locks
    BY <1>1, <1>5
  <2>3. Suits(M1, n2) /\ NotEarlier(M1, n2)
    BY <1>9, <2>1, <2>2, SuitsLocks
  <2>4. SetsUp(o \o n1 \o n2, M2, {"cmd_buf_lock"} \union {})
    BY <1>5, <1>10, <2>1, <2>3, SetsUpBoth
  <2>5. {"cmd_buf_lock"} \union {} = {"cmd_buf_lock"}
    OBVIOUS
  <2> QED BY <2>4, <2>5
<1>12. SetsUp(o \o n1 \o n2 \o n3, M3, {"cmd_buf_lock"})
  <2>1. M2 \intersect A = {} /\ {"cmd_buf_lock"} \intersect (A \union {}) = {}
    BY <1>1
  <2>2. Suits(M2, n3) /\ NotEarlier(M2, n3)
    BY <1>1, <1>4, <1>9, <2>1, SuitsLocks
  <2>3. SetsUp(o \o n1 \o n2 \o n3, M3, {"cmd_buf_lock"} \union {})
    BY <1>4, <1>11, <2>1, <2>2, SetsUpBoth
  <2>4. {"cmd_buf_lock"} \union {} = {"cmd_buf_lock"}
    OBVIOUS
  <2> QED BY <2>3, <2>4
<1>13. M3 \union {} = M3
  OBVIOUS
<1>14. /\ Suits(M3, t1) /\ NotEarlier(M3, t1) /\ Suits(M3, t2) /\ NotEarlier(M3, t2)
       /\ Suits(M3, t3) /\ NotEarlier(M3, t3)
  <2>1. /\ (\A y \in Setup!SetOf(t1) : y[1] = "get")
        /\ (\A y \in Setup!SetOf(t2) : y[1] = "get")
        /\ (\A y \in Setup!SetOf(t3) : y[1] = "get")
    BY <1>6, <1>7
  <2> QED BY <1>9, <2>1, SuitsTaking
<1> HIDE DEF M3
<1> DEFINE u == o \o n1 \o n2 \o n3
<1>15. SetsUp(u \o t1, M3, G1)
  <2>1. {"cmd_buf_lock"} \intersect ({} \union B) = {}
    BY <1>1
  <2> QED BY <1>6, <1>12, <1>13, <1>14, <2>1, SetsUpBoth
<1> HIDE DEF u
<1>16. SetsUp(u \o t1 \o t2, M3, G2)
  <2>1. G1 \intersect ({} \union {"fm_rtc_mutex"}) = {}
    BY <1>1
  <2> QED BY <1>7, <1>13, <1>14, <1>15, <2>1, SetsUpBoth
<1>17. SetsUp(u \o t1 \o t2 \o t3, M3, G3)
  <2>1. G2 \intersect ({} \union A) = {}
    BY <1>1
  <2> QED BY <1>6, <1>13, <1>14, <1>16, <2>1, SetsUpBoth
<1> DEFINE v == u \o t1 \o t2 \o t3
<1>18. SetsUp(v \o m, M4, G4)
  <2>1. /\ G3 \intersect ({"fm_timer_sys"} \union {"fm_timer_sys"}) = {}
        /\ "fm_timer_sys" \notin M3
        /\ "fm_timer_sys" \notin Setup!Locks
    BY <1>1 DEF M3
  <2>2. Suits(M3, m)
    BY <1>8, <1>9, <2>1, SuitsEnv DEF EnvWays
  <2>3. NotEarlier(M3, m)
    BY <1>8, <2>1 DEF NotEarlier
  <2> HIDE DEF v
  <2>4. SetsUp(v, M3, G3)
    BY <1>17 DEF v
  <2> QED BY <1>8, <2>1, <2>2, <2>3, <2>4, SetsUpBoth
<1> HIDE DEF v
<1>19. SetsUp(v \o m \o Setup!fm_link_setup, M4 \union {"link_event", "ln_event", "cmd_fifo", "evt_fifo"},
    G4 \union {"ln_event"})
  <2>1. /\ G4 \intersect ({"link_event", "ln_event", "cmd_fifo", "evt_fifo"} \union {"ln_event"}) = {}
        /\ M4 \intersect {"link_event", "ln_event", "cmd_fifo", "evt_fifo"} = {}
        /\ "ln_event" \notin Setup!Locks
    BY <1>1 DEF M3
  <2>2. Suits(M4, Setup!fm_link_setup)
    BY <1>9, <2>1, LinkSetup, SuitsEnv DEF EnvWays
  <2>3. NotEarlier(M4, Setup!fm_link_setup)
    BY <2>1, LinkSetup DEF NotEarlier
  <2> QED BY <1>18, <2>1, <2>2, <2>3, LinkSetup, SetsUpBoth
<1>20. M4 \union {"link_event", "ln_event", "cmd_fifo", "evt_fifo"} = EnvMade
  BY <1>1, ObjectSets DEF EnvMade, M3
<1>21. G4 \union {"ln_event"} = Setup!Counted \intersect Setup!Env
  BY <1>1, ObjectSets
<1>22. Setup!fm_env_setup = v \o m \o Setup!fm_link_setup
  BY DEF Setup!fm_env_setup, v, u, t1, t2, t3, m, n1, n2, n3
<1>23. Setup!SetOf(o) \subseteq Setup!SetOf(v \o m \o Setup!fm_link_setup)
  <2> DEFINE In(s) == IsSeq(s) /\ Setup!SetOf(o) \subseteq Setup!SetOf(s)
  <2>1. \A s, t : In(s) /\ IsSeq(t) => Setup!SetOf(o) \subseteq Setup!SetOf(s \o t)
    BY Joins
  <2>2. Setup!SetOf(o) \subseteq Setup!SetOf(o \o n1)
    BY <2>1, <1>3, <1>4 DEF SetsUp, Keeps
  <2>3. Setup!SetOf(o) \subseteq Setup!SetOf(o \o n1 \o n2)
    BY <2>1, <2>2, <1>10, <1>5 DEF SetsUp, Keeps
  <2>4. Setup!SetOf(o) \subseteq Setup!SetOf(u)
    BY <2>1, <2>3, <1>11, <1>4 DEF SetsUp, Keeps, u
  <2>5. Setup!SetOf(o) \subseteq Setup!SetOf(u \o t1)
    BY <2>1, <2>4, <1>12, <1>6 DEF SetsUp, Keeps, u
  <2>6. Setup!SetOf(o) \subseteq Setup!SetOf(u \o t1 \o t2)
    BY <2>1, <2>5, <1>15, <1>7 DEF SetsUp, Keeps
  <2>7. Setup!SetOf(o) \subseteq Setup!SetOf(v)
    BY <2>1, <2>6, <1>16, <1>6 DEF SetsUp, Keeps, v
  <2>8. Setup!SetOf(o) \subseteq Setup!SetOf(v \o m)
    BY <2>1, <2>7, <1>17, <1>8 DEF SetsUp, Keeps, v
  <2> QED BY <2>1, <2>8, <1>18, LinkSetup DEF SetsUp, Keeps
<1> QED BY <1>19, <1>20, <1>21, <1>22, <1>23

LEMMA Inits ==
  ASSUME fm_build \in FmBuilds
  PROVE  /\ SetsUp(Setup!mt_fm_init, EnvMade \union Setup!Platform, Setup!Counted \intersect Setup!Env)
         /\ <<"need", "library", "env">> \in Setup!SetOf(Setup!mt_fm_init)
         /\ <<"need", "cmd_buf_lock", "env">> \in Setup!SetOf(Setup!mt_fm_init)
<1> DEFINE t == << <<"new", "pdev", "left">>, <<"new", "added", "no_add">>, <<"new", "driver", "no_driver">> >>
<1>1. /\ SetsUp(t, Setup!Platform, {})
      /\ Setup!SetOf(t) = {<<"new", "pdev", "left">>, <<"new", "added", "no_add">>,
           <<"new", "driver", "no_driver">>}
  BY PlatformSetup
<1>2. Setup!mt_fm_init = Setup!fm_env_setup \o t
  BY DEF Setup!mt_fm_init
<1> HIDE DEF t
<1>3. /\ EnvMade \subseteq Setup!Env
      /\ (Setup!Counted \intersect Setup!Env) \intersect (Setup!Platform \union {}) = {}
  BY ObjectSets DEF EnvMade, RegsMade, Setup!Platform
<1>4. Suits(EnvMade, t) /\ NotEarlier(EnvMade, t)
  BY <1>1, <1>3, SuitsPlatform
<1>5. /\ SetsUp(Setup!fm_env_setup, EnvMade, Setup!Counted \intersect Setup!Env)
      /\ Setup!SetOf(Setup!fm_ops_register) \subseteq Setup!SetOf(Setup!fm_env_setup)
  BY EnvSetsUp
<1>6. SetsUp(Setup!fm_env_setup \o t, EnvMade \union Setup!Platform,
    (Setup!Counted \intersect Setup!Env) \union {})
  BY <1>1, <1>3, <1>4, <1>5, SetsUpBoth
<1>7. (Setup!Counted \intersect Setup!Env) \union {} = Setup!Counted \intersect Setup!Env
  OBVIOUS
<1>8. Setup!SetOf(Setup!fm_env_setup \o t) = Setup!SetOf(Setup!fm_env_setup) \union Setup!SetOf(t)
  BY <1>1, <1>5, Joins DEF SetsUp, Keeps
<1> QED BY <1>2, <1>5, <1>6, <1>7, <1>8, OpsRegister

-----------------------------------------------------------------------------
(* A step of a routine. *)

Went ==
  /\ fm_todo # <<>> /\ fm_todo[1] \in Setup!SetOf(fm_todo)
  /\ Setup!SetOf(fm_todo) = {fm_todo[1]} \union Setup!SetOf(fm_todo')
  /\ \A y \in Setup!SetOf(fm_todo') : Setup!Follows(fm_todo[1], y)
  /\ phase' = phase /\ fm_build' = fm_build

LEMMA FirstIsFine ==
  ASSUME Setup!Types, Setup!Routine, fm_todo # <<>>
  PROVE  fm_todo[1] \in Setup!SetOf(fm_todo) /\ Setup!Fine(fm_todo[1])
<1>1. Setup!SetOf(fm_todo) = {fm_todo[1]} \union Setup!SetOf(Tail(fm_todo))
  BY Tails DEF Setup!Types, IsSeq
<1> QED BY <1>1 DEF Setup!Routine

LEMMA GoesOn ==
  ASSUME Setup!Types, Setup!Routine, fm_todo # <<>>, fm_todo' = Tail(fm_todo), phase' = phase,
      fm_build' = fm_build
  PROVE  Went
<1>1. IsSeq(fm_todo) /\ Setup!InOrder(fm_todo)
  BY DEF Setup!Types, Setup!Routine, IsSeq
<1>2. Setup!SetOf(fm_todo) = {fm_todo[1]} \union Setup!SetOf(Tail(fm_todo)) /\
    \A y \in Setup!SetOf(Tail(fm_todo)) : Setup!Follows(fm_todo[1], y)
  BY <1>1, Tails
<1> QED BY <1>2 DEF Went

LEMMA WentAhead ==
  ASSUME Went, NEW verb, NEW o
  PROVE  /\ (Setup!Ahead(verb, o)' => Setup!Ahead(verb, o)) /\ (Setup!Ahead(verb, o) => Setup!Ahead(verb, o)' \/
              Setup!Is(fm_todo[1], verb, o))
         /\ (Setup!UndoneAhead(o)' => Setup!UndoneAhead(o))
         /\ (Setup!UndoneAhead(o) => Setup!UndoneAhead(o)' \/ Setup!Undoes(fm_todo[1], o))
BY DEF Went, Setup!Ahead, Setup!UndoneAhead

LEMMA SameFine == ASSUME fm_build' = fm_build PROVE \A y : Setup!Fine(y)' <=> Setup!Fine(y)
BY DEF Setup!Fine

LEMMA RoutineGoesOn ==
  ASSUME Setup!Types, Setup!Routine, fm_todo # <<>>, fm_todo' = Tail(fm_todo), phase' = phase,
      fm_build' = fm_build
  PROVE  Setup!Routine' /\ fm_todo' \in Seq(Setup!SetOf(fm_todo'))
<1> DEFINE S == Setup!SetOf(fm_todo)
           T == Setup!SetOf(fm_todo')
<1>1. IsSeq(fm_todo) /\ Setup!InOrder(fm_todo) /\ Setup!TakenAtOnce(fm_todo)
  BY DEF Setup!Types, Setup!Routine, IsSeq
<1>2. IsSeq(Tail(fm_todo)) /\ Setup!InOrder(Tail(fm_todo)) /\ Setup!TakenAtOnce(Tail(fm_todo))
  BY <1>1, Tails, TailsTaken
<1>3. fm_todo' \in Seq(Setup!SetOf(fm_todo')) /\ Setup!InOrder(fm_todo)' /\ Setup!TakenAtOnce(fm_todo)'
  BY <1>2 DEF IsSeq
<1>4. Went
  BY GoesOn
<1>5. \A y \in T : y \in S /\ Setup!Fine(y) /\ Setup!Fine(y)'
  BY <1>4, SameFine DEF Went, Setup!Routine
<1>6. \A y \in T : y[1] = "new" /\ y[2] \in Setup!Counted \ {"rds_data"} => Setup!Ahead("get", y[2])'
  <2> SUFFICES ASSUME NEW y \in T, y[1] = "new", y[2] \in Setup!Counted \ {"rds_data"}
         PROVE Setup!Ahead("get", y[2])'
    OBVIOUS
  <2>1. Setup!Ahead("get", y[2])
    BY <1>5 DEF Setup!Routine
  <2>2. ~Setup!Is(fm_todo[1], "get", y[2])
    BY <1>4 DEF Went, Setup!Follows, Setup!Is
  <2> QED BY <1>4, <2>1, <2>2, WentAhead
<1>7. Setup!Making' => Setup!Making
  BY <1>4, WentAhead DEF Setup!Making
<1>8. ASSUME Setup!Making, ~Setup!Making' PROVE T = {}
  <2>1. Setup!Is(fm_todo[1], "bind", "g_fm")
    BY <1>4, <1>8, WentAhead DEF Setup!Making
  <2> QED BY <1>4, <2>1 DEF Went, Setup!Follows, Setup!Is
<1>10. phase = "probing" =>
         \A y \in T : Setup!Fine(y)' /\ y[1] \in (IF Setup!Making' THEN Setup!Makers ELSE Setup!Undoers) /\
             y[2] \in Setup!DeviceObjects
  <2>1. \A y \in T : Setup!Making' <=> Setup!Making
    BY <1>7, <1>8
  <2>2. phase = "probing" => \A y \in S : y[1] \in (IF Setup!Making THEN Setup!Makers ELSE Setup!Undoers) /\
      y[2] \in Setup!DeviceObjects
    BY DEF Setup!Routine, Setup!IsAbout
  <2> QED BY <1>5, <2>1, <2>2
<1>11. phase = "setup" => Setup!IsAbout(fm_todo, Setup!Makers, Setup!SetupObjects)'
  BY <1>5 DEF Setup!Routine, Setup!IsAbout
<1>12. phase = "unbinding" => Setup!IsAbout(fm_todo, Setup!Undoers, Setup!DeviceObjects)'
  BY <1>5 DEF Setup!Routine, Setup!IsAbout
<1>13. phase = "leaving" => \A y \in T : y[1] \in Setup!Undoers
  BY <1>5 DEF Setup!Routine
<1>14. phase \notin {"loaded", "gone"}
  BY DEF Setup!Routine
<1>15. \A y \in Setup!SetOf(fm_todo)' : Setup!Fine(y)'
  BY <1>5
<1>16. phase' = "probing" => Setup!IsAbout(fm_todo, IF Setup!Making THEN Setup!Makers ELSE Setup!Undoers,
    Setup!DeviceObjects)'
  BY <1>10 DEF Setup!IsAbout
<1> QED BY <1>3, <1>6, <1>11, <1>12, <1>13, <1>14, <1>15, <1>16 DEF Setup!Routine

\* The routine that is running is known from its next step.
LEMMA InSetup ==
  ASSUME Setup!IInv, phase = "setup"
  PROVE  /\ ~probed /\ ~published /\ ~Setup!Making /\ ~Setup!Complete
         /\ \A y \in Setup!SetOf(fm_todo) : y[1] \in Setup!Makers /\ y[2] \in Setup!SetupObjects
         /\ \A o : ~Setup!UndoneAhead(o)
         /\ live \intersect Setup!Device \subseteq Setup!DeviceLeftover
         /\ held \intersect (Setup!Fm \union {"fm"}) = {}
<1>1. \A y \in Setup!SetOf(fm_todo) : y[1] \in Setup!Makers /\ y[2] \in Setup!SetupObjects
  BY DEF Setup!IInv, Setup!Routine, Setup!IsAbout
<1>2. ~Setup!Making /\ ~Setup!Ahead("unbind", "g_fm") /\ ~Setup!Ahead("unpublish", "fm")
  BY <1>1, ObjectSets DEF Setup!Making, Setup!Ahead, Setup!Is, Setup!SetupObjects, Setup!Platform, Setup!Makers
<1>3. ~probed
  BY <1>2 DEF Setup!IInv, Setup!DeviceInv
<1>4. ~Setup!Complete /\ ~published
  BY <1>2, <1>3 DEF Setup!IInv, Setup!DeviceInv, Setup!Complete
<1>5. \A o : ~Setup!UndoneAhead(o)
  BY <1>1 DEF Setup!UndoneAhead, Setup!Undoes, Setup!Makers
<1>6. live \intersect Setup!Device \subseteq Setup!DeviceLeftover
  BY <1>4, <1>5 DEF Setup!IInv, Setup!DeviceInv
<1>7. "fm" \notin held
  <2>1. "fm" \in held => "fm" \in live /\ "fm" \in Setup!Device
    BY ObjectSets DEF Setup!IInv, Setup!Pointers
  <2>2. "fm" \notin Setup!DeviceLeftover
    BY DEF Setup!DeviceLeftover
  <2> QED BY <1>6, <2>1, <2>2
<1> QED BY <1>1, <1>2, <1>3, <1>4, <1>5, <1>6, <1>7 DEF Setup!IInv, Setup!Pointers

LEMMA InProbe ==
  ASSUME Setup!IInv, phase = "probing", fm_todo # <<>>, fm_todo[1][1] \in Setup!Makers
  PROVE  /\ ~probed /\ Setup!Making /\ Setup!Complete
         /\ \A y \in Setup!SetOf(fm_todo) : y[1] \in Setup!Makers /\ y[2] \in Setup!DeviceObjects
         /\ \A o : ~Setup!UndoneAhead(o)
<1>1. fm_todo[1] \in Setup!SetOf(fm_todo)
  BY FirstIsFine DEF Setup!IInv
<1>2. Setup!Making
  BY <1>1 DEF Setup!IInv, Setup!Routine, Setup!IsAbout, Setup!Makers, Setup!Undoers
<1>3. \A y \in Setup!SetOf(fm_todo) : y[1] \in Setup!Makers /\ y[2] \in Setup!DeviceObjects
  BY <1>2 DEF Setup!IInv, Setup!Routine, Setup!IsAbout
<1>4. ~Setup!Ahead("unbind", "g_fm")
  BY <1>3 DEF Setup!Ahead, Setup!Is, Setup!Makers
<1>5. ~probed
  BY <1>4 DEF Setup!IInv, Setup!DeviceInv
<1>6. \A o : ~Setup!UndoneAhead(o)
  BY <1>3 DEF Setup!UndoneAhead, Setup!Undoes, Setup!Makers
<1> QED BY <1>2, <1>3, <1>5, <1>6 DEF Setup!Complete

LEMMA InMaking ==
  ASSUME Setup!IInv, fm_todo # <<>>, fm_todo[1][1] \in Setup!Makers
  PROVE  phase \in {"setup", "probing"}
<1>1. fm_todo[1] \in Setup!SetOf(fm_todo)
  BY FirstIsFine DEF Setup!IInv
<1> QED BY <1>1 DEF Setup!IInv, Setup!Types, Setup!Routine, Setup!IsAbout, Setup!Makers, Setup!Undoers

LEMMA InUndoing ==
  ASSUME Setup!IInv, fm_todo # <<>>, fm_todo[1][1] \in Setup!Undoers
  PROVE  /\ phase \in {"probing", "unbinding", "leaving"}
         /\ ~Setup!Making /\ ~Setup!Complete
         /\ \A y \in Setup!SetOf(fm_todo) : y[1] \in Setup!Undoers /\
              (phase # "leaving" => y[2] \in Setup!DeviceObjects)
         /\ \A o \in (live \intersect Setup!Device) \ Setup!DeviceLeftover : Setup!UndoneAhead(o)
         /\ probed => Setup!Ahead("unbind", "g_fm")
         /\ published => Setup!Ahead("unpublish", "fm")
<1>1. fm_todo[1] \in Setup!SetOf(fm_todo)
  BY FirstIsFine DEF Setup!IInv
<1>2. phase \in {"probing", "unbinding", "leaving"}
  BY <1>1 DEF Setup!IInv, Setup!Types, Setup!Routine, Setup!IsAbout, Setup!Makers, Setup!Undoers
<1>3. \A y \in Setup!SetOf(fm_todo) : y[1] \in Setup!Undoers /\
    (phase # "leaving" => y[2] \in Setup!DeviceObjects)
  BY <1>1, <1>2 DEF Setup!IInv, Setup!Types, Setup!Routine, Setup!IsAbout, Setup!Makers, Setup!Undoers
<1>4. ~Setup!Making
  BY <1>3 DEF Setup!Making, Setup!Ahead, Setup!Is, Setup!Undoers
<1>5. ~Setup!Complete
  BY <1>4 DEF Setup!Complete
<1> QED BY <1>2, <1>3, <1>4, <1>5 DEF Setup!IInv, Setup!DeviceInv

\* What a step does to what is ahead, in words of its own.
LEMMA StaysAhead ==
  ASSUME Went
  PROVE  /\ \A verb, o : (Setup!Ahead(verb, o)' => Setup!Ahead(verb, o)) /\
              (Setup!Ahead(verb, o) => Setup!Ahead(verb, o)' \/ Setup!Is(fm_todo[1], verb, o))
         /\ \A o : (Setup!UndoneAhead(o)' => Setup!UndoneAhead(o)) /\
              (Setup!UndoneAhead(o) => Setup!UndoneAhead(o)' \/ Setup!Undoes(fm_todo[1], o))
         /\ fm_todo' # <<>> => fm_todo # <<>>
BY WentAhead DEF Went

LEMMA LeftoverGrows == ASSUME failed \subseteq failed'
  PROVE Setup!DeviceLeftover \subseteq Setup!DeviceLeftover'
BY DEF Setup!DeviceLeftover, Setup!Any

LEMMA EnvLeftoverGrows ==
  ASSUME failed \subseteq failed', fm_build' = fm_build, binds \in Nat, binds' \in Nat, binds <= binds'
  PROVE  Setup!EnvLeftover \subseteq Setup!EnvLeftover'
BY DEF Setup!EnvLeftover, Setup!Any

\* A reference is taken by the very next step.
LEMMA NextTakes ==
  ASSUME Setup!Types, Setup!Routine, fm_todo # <<>>, fm_todo' = Tail(fm_todo), fm_todo[1][1] = "new",
         fm_todo[1][2] \in Setup!Counted \ (Setup!Locks \union {"rds_data"}),
         NEW y \in Setup!SetOf(fm_todo'), Setup!Is(y, "get", fm_todo[1][2])
  PROVE  y = fm_todo'[1]
<1>1. IsSeq(fm_todo) /\ Setup!TakenAtOnce(fm_todo) /\ Setup!InOrder(fm_todo)
  BY DEF Setup!Types, Setup!Routine, IsSeq
<1>2. /\ IsSeq(fm_todo')
      /\ fm_todo' # <<>>
      /\ Setup!Is(fm_todo'[1], "get", fm_todo[1][2])
      /\ Setup!InOrder(fm_todo')
  BY <1>1, Tails, TailsTaken
<1>3. Setup!SetOf(fm_todo') = {fm_todo'[1]} \union Setup!SetOf(Tail(fm_todo')) /\
    \A z \in Setup!SetOf(Tail(fm_todo')) : Setup!Follows(fm_todo'[1], z)
  BY <1>2, Tails
<1> QED BY <1>2, <1>3 DEF Setup!Follows, Setup!Is

LEMMA FreedOnceGoesOn ==
  ASSUME Setup!Types, Setup!FreedOnce(fm_todo), fm_todo # <<>>, fm_todo' = Tail(fm_todo)
  PROVE  Setup!FreedOnce(fm_todo)' /\ \A y \in Setup!SetOf(fm_todo') : fm_todo[1][1] = "free" =>
      Setup!Untouched(fm_todo[1][2], y)
BY Tails DEF Setup!Types, IsSeq

LEMMA MakesKeeps == ASSUME Setup!IInv, NEW o, Setup!Makes(o), UNCHANGED Setup!kept_vars PROVE Setup!IInv'
<1> DEFINE x == fm_todo[1]
           T == Setup!SetOf(fm_todo')
<1>1. /\ fm_todo # <<>> /\ x[1] = "new" /\ x[2] = o /\ fm_todo' = Tail(fm_todo) /\ broken = "no"
      /\ live' = live \union {o} /\ held' = held \union {o}
      /\ UNCHANGED <<phase, failed, probed, published, listening, rst_queued, broken, fm_build, binds>>
  BY DEF Setup!Makes, Setup!At, Setup!kept_vars
<1>2. Setup!Types /\ Setup!Routine /\ Setup!Made /\ Setup!Pointers /\ Setup!Misuse /\ Setup!References /\
    Setup!DeviceInv /\ Setup!EnvInv /\ Setup!LnaInv /\ Setup!Known /\ Setup!ResetInv
  BY DEF Setup!IInv
<1>3. Went /\ Setup!Routine' /\ fm_todo' \in Seq(Setup!SetOf(fm_todo'))
  BY <1>1, <1>2, GoesOn, RoutineGoesOn
<1>4. Setup!Fine(x) /\ x \in Setup!SetOf(fm_todo)
  BY <1>1, <1>2, FirstIsFine
<1>5. /\ o \in Setup!Env \union Setup!Device \union Setup!Platform
      /\ o \notin {"library", "low_ops_unregister", "lna", "irq"}
  BY <1>1, <1>4, ObjectSets DEF Setup!Fine, Setup!Platform
<1>6. phase \in {"setup", "probing"} /\ x[1] \in Setup!Makers
  BY <1>1, InMaking DEF Setup!Makers
<1>7. /\ Setup!DeviceLeftover' = Setup!DeviceLeftover
      /\ Setup!EnvLeftover' = Setup!EnvLeftover
      /\ (Setup!Excuse <=> Setup!Excuse')
  BY <1>1 DEF Setup!DeviceLeftover, Setup!EnvLeftover, Setup!Excuse, Setup!Any
<1>8. /\ \A verb, p : (Setup!Ahead(verb, p)' => Setup!Ahead(verb, p)) /\
           (Setup!Ahead(verb, p) => Setup!Ahead(verb, p)' \/ (verb = "new" /\ p = o))
      /\ \A p : Setup!UndoneAhead(p)' <=> Setup!UndoneAhead(p)
  BY <1>1, <1>3, StaysAhead DEF Setup!Is, Setup!Undoes
<1>9. \A y \in T : y \in Setup!SetOf(fm_todo) /\ Setup!OkAfter(o, y) /\ Setup!Follows(x, y)
  BY <1>1, <1>3 DEF Went, Setup!Follows
<1>10. Setup!Types'
  <2>1. ref' \in [Setup!Counted -> Int]
    BY <1>2 DEF Setup!Makes, Setup!Types
  <2> QED BY <1>1, <1>2, <1>3, <2>1 DEF Setup!Types
<1>11. Setup!Made'
  <2>1. \A p \in (live \ Setup!DeviceLeftover) \union (held \intersect Setup!Fm) : \A y \in T :
      Setup!OkAfter(p, y)
    BY <1>2, <1>9 DEF Setup!Made
  <2> QED BY <1>1, <1>7, <1>9, <2>1 DEF Setup!Made
<1>12. o \in Setup!Fm => "fm" \in held
  <2> SUFFICES ASSUME o \in Setup!Fm PROVE "fm" \in held
    OBVIOUS
  <2>1. phase = "probing"
    <3>1. o \notin Setup!SetupObjects
      BY ObjectSets DEF Setup!SetupObjects, Setup!Platform
    <3> QED BY <1>1, <1>4, <1>6, <3>1, InSetup
  <2>2. Setup!Complete
    BY <1>1, <1>6, <2>1, InProbe
  <2>3. "fm" \in Setup!Device /\ "fm" \notin Setup!DeviceLeftover
    BY ObjectSets DEF Setup!DeviceLeftover
  <2>4. "fm" \in live \/ Setup!Ahead("new", "fm")
    BY <1>2, <2>2, <2>3 DEF Setup!DeviceInv
  <2>5. ~Setup!Ahead("new", "fm")
    <3> SUFFICES ASSUME NEW y \in Setup!SetOf(fm_todo), Setup!Is(y, "new", "fm") PROVE FALSE
      BY DEF Setup!Ahead
    <3>1. y \in T
      BY <1>1, <1>3, ObjectSets DEF Went, Setup!Is
    <3>2. y[3] = "no_fm"
      BY <1>2 DEF Setup!Routine, Setup!Fine, Setup!Is
    <3>3. o \in Setup!Scope("no_fm") /\ Setup!SetOf(Setup!Way["no_fm"]) = {}
      BY ObjectSets, NothingToDo DEF Setup!Scope, Setup!Way
    <3> QED BY <1>9, <3>1, <3>2, <3>3 DEF Setup!OkAfter, Setup!Is
  <2> QED BY <1>2, <2>3, <2>4, <2>5 DEF Setup!Pointers
<1>13. Setup!Pointers'
  BY <1>1, <1>2, <1>7, <1>12 DEF Setup!Pointers
<1>14. Setup!Misuse'
  <2>1. ~Setup!Excuse' => Setup!FreedOnce(fm_todo)'
    BY <1>1, <1>2, <1>7, FreedOnceGoesOn DEF Setup!Misuse
  <2>2. held' \ live' \subseteq held \ live
    BY <1>1
  <2> QED BY <1>1, <1>2, <1>7, <1>9, <2>1, <2>2 DEF Setup!Misuse
<1>15. Setup!References'
  <2>1. ASSUME NEW p \in held' \intersect (Setup!Counted \ {"rds_data"})
        PROVE  (p \in Setup!Locks /\ Setup!Any(Setup!Locks \ {"fm_rtc_mutex"})) \/
            ref'[p] = IF Setup!Ahead("get", p)' THEN 0 ELSE 1
    <3>1. CASE p = o
      <4>1. Setup!Ahead("get", o)
        BY <1>1, <1>2, <1>4, <3>1 DEF Setup!Routine
      <4>2. ref'[o] = 0
        BY <1>2, <3>1 DEF Setup!Makes, Setup!Types
      <4> QED BY <1>8, <3>1, <4>1, <4>2
    <3>2. CASE p # o
      <4>1. ref'[p] = ref[p] /\ p \in held
        BY <1>1, <1>2, <3>2 DEF Setup!Makes, Setup!Types
      <4> QED BY <1>2, <1>8, <4>1 DEF Setup!References
    <3> QED BY <3>1, <3>2
  <2>2. ASSUME NEW y \in T, y[1] = "get"
        PROVE  y[2] \in Setup!Locks \/ Setup!Ahead("new", y[2])' \/ y = fm_todo'[1]
    <3>1. y[2] \in Setup!Locks \/ Setup!Ahead("new", y[2])
      BY <1>1, <1>2, <1>9, <2>2 DEF Setup!References
    <3>2. CASE y[2] \notin Setup!Locks /\ ~Setup!Ahead("new", y[2])'
      <4>1. y[2] = o
        BY <1>8, <3>1, <3>2
      <4>2. y[2] \in Setup!Counted \ {"rds_data"}
        BY <1>2, <1>9, <2>2 DEF Setup!Routine, Setup!Fine
      <4>3. o \in Setup!Counted \ (Setup!Locks \union {"rds_data"})
        BY <3>2, <4>1, <4>2
      <4>4. Setup!Is(y, "get", x[2])
        BY <1>1, <2>2, <4>1 DEF Setup!Is
      <4> QED BY <1>1, <1>2, <4>3, <4>4, NextTakes
    <3> QED BY <3>1, <3>2
  <2>3. Setup!Any(Setup!Locks \ {"fm_rtc_mutex"})' <=> Setup!Any(Setup!Locks \ {"fm_rtc_mutex"})
    BY <1>1 DEF Setup!Any
  <2> QED BY <2>1, <2>2, <2>3 DEF Setup!References
<1>16. Setup!Making' <=> Setup!Making
  BY <1>8 DEF Setup!Making
<1>17. Setup!DeviceInv'
  <2>1. CASE phase = "setup"
    <3>1. /\ ~probed /\ ~published /\ ~Setup!Making /\
               live \intersect Setup!Device \subseteq Setup!DeviceLeftover
          /\ \A y \in Setup!SetOf(fm_todo) : y[2] \in Setup!SetupObjects
      BY <2>1, InSetup
    <3>2. o \notin Setup!Device
      BY <1>1, <1>4, <3>1, ObjectSets DEF Setup!SetupObjects, Setup!Platform
    <3>3. ~Setup!Complete'
      BY <1>1, <1>16, <3>1 DEF Setup!Complete
    <3> QED BY <1>1, <1>7, <3>1, <3>2, <3>3 DEF Setup!DeviceInv
  <2>2. CASE phase = "probing"
    <3>1. ~probed /\ Setup!Making /\ Setup!Complete /\ \A y \in Setup!SetOf(fm_todo) : y[1] \in Setup!Makers
      BY <1>1, <1>6, <2>2, InProbe
    <3>2. ~Setup!Ahead("unpublish", "fm")
      BY <3>1 DEF Setup!Ahead, Setup!Is, Setup!Makers
    <3>3. Setup!Complete'
      BY <1>16, <3>1 DEF Setup!Complete
    <3>4. \A p \in Setup!Device : p \in live' \/ Setup!Ahead("new", p)' \/ (p = "device" /\ p \in failed)
      BY <1>1, <1>2, <1>8, <3>1 DEF Setup!DeviceInv
    <3>5. published => ~Setup!Ahead("new", "fm")'
      BY <1>2, <1>8, <3>2 DEF Setup!DeviceInv
    <3> QED BY <1>1, <3>1, <3>3, <3>4, <3>5 DEF Setup!DeviceInv
  <2> QED BY <1>6, <2>1, <2>2
<1>18. Setup!EnvInv'
  <2>1. /\ \A p \in Setup!Env : p \in live' \/ Setup!Ahead("new", p)' \/ p \in {"regs", "cmd_buf_lock"}
                                 \/ (p = "fm_rtc_mutex" /\ p \in failed)
        /\ "cmd_buf_lock" \in live' \/ Setup!Ahead("need", "cmd_buf_lock")'
    BY <1>1, <1>2, <1>6, <1>8 DEF Setup!EnvInv
  <2>2. "library" \notin held' =>
          /\ live' \intersect (Setup!Env \union Setup!Platform) \subseteq {"regs"}
          /\ phase = "setup" /\ Setup!Ahead("need", "library")'
    <3> SUFFICES ASSUME "library" \notin held'
                 PROVE  /\ live' \intersect (Setup!Env \union Setup!Platform) \subseteq {"regs"}
                        /\ phase = "setup" /\ Setup!Ahead("need", "library")'
      OBVIOUS
    <3>1. /\ live \intersect (Setup!Env \union Setup!Platform) \subseteq {"regs"}
          /\ phase = "setup" /\ Setup!Ahead("need", "library")
      BY <1>1, <1>2, <1>6 DEF Setup!EnvInv
    <3>2. Setup!Ahead("need", "library")'
      BY <1>8, <3>1
    <3>3. o = "regs"
      BY <1>1, <1>9, <3>2 DEF Setup!Ahead, Setup!Follows
    <3> QED BY <1>1, <3>1, <3>2, <3>3
  <2>3. "cmd_buf_lock" \notin held' =>
          /\ live' \intersect (Setup!Env \union Setup!Platform) \subseteq {"regs", "cmd_buf"}
          /\ phase = "setup" /\ Setup!Ahead("need", "cmd_buf_lock")'
    <3> SUFFICES ASSUME "cmd_buf_lock" \notin held'
                 PROVE  /\ live' \intersect (Setup!Env \union Setup!Platform) \subseteq {"regs", "cmd_buf"}
                        /\ phase = "setup" /\ Setup!Ahead("need", "cmd_buf_lock")'
      OBVIOUS
    <3>1. /\ live \intersect (Setup!Env \union Setup!Platform) \subseteq {"regs", "cmd_buf"}
          /\ phase = "setup" /\ Setup!Ahead("need", "cmd_buf_lock")
      BY <1>1, <1>2, <1>6 DEF Setup!EnvInv
    <3>2. Setup!Ahead("need", "cmd_buf_lock")'
      BY <1>8, <3>1
    <3>3. o \in {"regs", "cmd_buf_lock", "cmd_buf"} /\ o # "cmd_buf_lock"
      BY <1>1, <1>9, <3>2 DEF Setup!Ahead, Setup!Follows
    <3> QED BY <1>1, <3>1, <3>2, <3>3
  <2>4. ("low_ops_unregister" \in held' <=> fm_build[1] = "wmt")
        /\ (live' \intersect {"regs", "irq"} # {} => fm_build[1] = "conninfra")
    BY <1>1, <1>2, <1>4, <1>5 DEF Setup!EnvInv, Setup!Fine
  <2> QED BY <1>1, <1>6, <2>1, <2>2, <2>3, <2>4 DEF Setup!EnvInv
<1>19. Setup!LnaInv'
  BY <1>1, <1>2, <1>5, <1>8 DEF Setup!LnaInv
<1>20. Setup!Known' /\ Setup!ResetInv'
  BY <1>1, <1>2, <1>5, <1>6 DEF Setup!Known, Setup!ResetInv, Setup!ResetFindsAll
<1> QED BY <1>3, <1>10, <1>11, <1>13, <1>14, <1>15, <1>17, <1>18, <1>19, <1>20 DEF Setup!IInv

\* A routine is given up for the way of a failure.
LEMMA GivesUpKeeps ==
  ASSUME Setup!IInv, broken = "no", fm_todo # <<>>, NEW w \in Setup!Ways, fm_todo[1][1] \in {"new", "need"},
      fm_todo[1][3] = w,
         fm_todo' = Setup!Way[w], phase' = (IF phase = "probing" THEN phase ELSE "leaving"),
         UNCHANGED <<fm_build, live, ref, probed, published, rst_queued, binds, broken>>,
         fm_todo[1][1] = "new" => failed' = failed \union {fm_todo[1][2]},
         fm_todo[1][1] = "need" => failed' = failed /\ fm_todo[1][2] \notin held,
         held' = held \/ (held' = held \union {"class"} /\ "class" \in failed')
  PROVE  Setup!IInv'
<1> DEFINE x == fm_todo[1]
           T == Setup!SetOf(fm_todo')
<1>1. Setup!Types /\ Setup!Routine /\ Setup!Made /\ Setup!Pointers /\ Setup!Misuse /\ Setup!References /\
    Setup!DeviceInv /\ Setup!EnvInv /\ Setup!LnaInv /\ Setup!Known /\ Setup!ResetInv
  BY DEF Setup!IInv
<1>2. Setup!Fine(x) /\ x \in Setup!SetOf(fm_todo)
  BY <1>1, FirstIsFine
<1>3. phase \in {"setup", "probing"} /\ x[1] \in Setup!Makers
  BY InMaking DEF Setup!Makers
<1>4. Setup!SetOf(fm_todo) = {x} \union Setup!SetOf(Tail(fm_todo)) /\ \A y \in Setup!SetOf(Tail(fm_todo)) :
    Setup!Follows(x, y)
  BY <1>1, Tails DEF Setup!Types, Setup!Routine, IsSeq
<1>5. WayIsFine(w)
  BY WaysAreFine
<1>6. IsSeq(fm_todo') /\ Setup!InOrder(fm_todo') /\ \A y \in T : Setup!Fine(y) /\ y[1] \in Setup!Undoers
  BY <1>5 DEF WayIsFine, Undoing
<1>7. \A verb \in {"new", "get", "need", "request", "bind"} : \A p : ~Setup!Ahead(verb, p)'
  BY <1>6 DEF Setup!Ahead, Setup!Is, Setup!Undoers
<1>8. failed \subseteq failed'
  OBVIOUS
<1>9. Setup!DeviceLeftover \subseteq Setup!DeviceLeftover' /\ Setup!EnvLeftover \subseteq Setup!EnvLeftover'
  BY <1>1, <1>8, LeftoverGrows, EnvLeftoverGrows DEF Setup!Types
<1>10. Setup!Types'
  BY <1>1, <1>3, <1>6 DEF Setup!Types, IsSeq
<1>11. \A p \in held \intersect (Setup!Counted \ {"rds_data"}) : p \in live /\ \A y \in Setup!SetOf(fm_todo) :
    Setup!OkAfter(p, y)
  <2>1. /\ Setup!Counted \subseteq Setup!Env \union Setup!Fm
        /\ Setup!DeviceLeftover \subseteq Setup!Fm
        /\ Setup!Env \intersect Setup!Fm = {}
    BY ObjectSets DEF Setup!DeviceLeftover
  <2> QED BY <1>1, <1>3, <2>1 DEF Setup!Pointers, Setup!Made
<1>12. phase = "setup" => /\ ~probed /\ ~published /\
                               live \intersect Setup!Device \subseteq Setup!DeviceLeftover
                          /\ \A y \in Setup!SetOf(fm_todo) : y[1] \in Setup!Makers /\
                               y[2] \in Setup!SetupObjects
                          /\ \A p : ~Setup!UndoneAhead(p)
  BY InSetup
<1>13. phase = "probing" => /\ ~probed /\ Setup!Complete /\ Setup!Making
                            /\ \A y \in Setup!SetOf(fm_todo) : y[1] \in Setup!Makers /\
                                 y[2] \in Setup!DeviceObjects
  BY <1>3, InProbe
<1>14. x[1] = "need" => phase = "setup" /\ w = "env"
  <2>1. x[1] = "need" => x[2] \in {"library", "cmd_buf_lock"} /\ w = "env"
    BY <1>2 DEF Setup!Fine
  <2>2. "library" \notin Setup!DeviceObjects /\ "cmd_buf_lock" \notin Setup!DeviceObjects
    BY ObjectSets DEF Setup!DeviceObjects
  <2> QED BY <1>2, <1>3, <1>13, <2>1, <2>2
<1>15. phase = "probing" => w \in DeviceWays /\ x[2] \in Setup!Device /\ x[1] = "new"
  <2>1. phase = "probing" => x[2] \in Setup!DeviceObjects /\ x[1] = "new"
    BY <1>2, <1>13, <1>14
  <2>2. x[1] = "new" => x[2] \in Setup!Env \union Setup!Device \union Setup!Platform
    BY <1>2 DEF Setup!Fine
  <2>3. (Setup!Env \union Setup!Device \union Setup!Platform) \intersect Setup!DeviceObjects = Setup!Device
    BY ObjectSets DEF Setup!DeviceObjects, Setup!Platform
  <2>4. w # "go"
    BY DEF Setup!Ways
  <2> QED BY <1>2, <2>1, <2>2, <2>3, <2>4 DEF Setup!Fine, DeviceWays
<1>16. phase = "setup" /\ x[1] = "new" => w \notin DeviceWays
  <2>1. Setup!Device \intersect Setup!SetupObjects = {}
    BY ObjectSets DEF Setup!SetupObjects, Setup!Platform
  <2> QED BY <1>2, <1>12, <2>1 DEF Setup!Fine, DeviceWays
<1>17. Setup!Routine'
  <2>1. \A y \in T : Setup!Fine(y)'
    BY <1>6, SameFine
  <2>2. Setup!TakenAtOnce(fm_todo')
    BY <1>6, NothingTaken
  <2>3. ~Setup!Making'
    BY <1>7 DEF Setup!Making
  <2>4. phase = "probing" => \A y \in T : y[2] \in Setup!DeviceObjects
    BY <1>5, <1>15 DEF WayIsFine
  <2>5. \A y \in T : y[1] # "new"
    BY <1>6 DEF Setup!Undoers
  <2>6. phase' \in {"probing", "leaving"}
    OBVIOUS
  <2> QED BY <1>3, <1>6, <2>1, <2>2, <2>3, <2>4, <2>5, <2>6 DEF Setup!Routine, Setup!IsAbout
<1>18. Setup!Made'
  BY <1>6 DEF Setup!Made, Setup!OkAfter, Setup!Undoers
<1>19. Setup!Pointers'
  <2>1. "class" \notin Setup!Env \union Setup!Platform \union Setup!Fm \union {"fm"}
    BY ObjectSets DEF Setup!Platform
  <2> QED BY <1>1, <1>3, <1>9, <2>1 DEF Setup!Pointers
<1>20. Setup!Misuse'
  <2> SUFFICES ASSUME ~Setup!Excuse'
               PROVE  Setup!FreedOnce(fm_todo') /\ \A p \in held' \ live' :
                   p \in {"library", "low_ops_unregister"}
    BY DEF Setup!Misuse
  <2>1. "class" \notin failed' /\ held' = held /\ ~Setup!Excuse
    BY <1>8 DEF Setup!Excuse, Setup!Any
  <2>2. w \notin {"no_event", "no_fifo"}
    BY <1>2, <1>14 DEF Setup!Excuse, Setup!Any, Setup!Fine
  <2> QED BY <1>1, <1>3, <1>5, <2>1, <2>2 DEF WayIsFine, Setup!Misuse
<1>21. Setup!References'
  <2>1. ASSUME NEW p \in held' \intersect (Setup!Counted \ {"rds_data"})
        PROVE  (p \in Setup!Locks /\ Setup!Any(Setup!Locks \ {"fm_rtc_mutex"})') \/ ref'[p] = 1
    <3>1. p \in held
      BY ObjectSets
    <3>2. p \in live /\ \A y \in Setup!SetOf(fm_todo) : Setup!OkAfter(p, y)
      BY <1>11, <3>1
    <3>3. (p \in Setup!Locks /\ Setup!Any(Setup!Locks \ {"fm_rtc_mutex"})) \/
        ref[p] = (IF Setup!Ahead("get", p) THEN 0 ELSE 1)
      BY <1>1, <3>1 DEF Setup!References
    <3>4. CASE ~Setup!Ahead("get", p)
      BY <1>8, <3>3, <3>4 DEF Setup!Any
    <3>5. CASE Setup!Ahead("get", p)
      <4>1. PICK y \in Setup!SetOf(fm_todo) : Setup!Is(y, "get", p)
        BY <3>5 DEF Setup!Ahead
      <4>2. ~Setup!Ahead("new", p)
        BY <3>2 DEF Setup!Ahead, Setup!Is, Setup!OkAfter
      <4>3. p \in Setup!Locks /\ p \in Setup!Env
        BY <1>1, <4>1, <4>2, ObjectSets DEF Setup!References, Setup!Is
      <4>4. Setup!Follows(x, y)
        BY <1>4, <4>1 DEF Setup!Is
      <4>5. x[1] = "new"
        <5>1. x[1] = "need" => x[2] \in {"library", "cmd_buf_lock"}
          BY <1>2 DEF Setup!Fine
        <5>2. p \notin {"regs", "cmd_buf"}
          BY <4>3, ObjectSets
        <5> QED BY <1>1, <1>3, <3>2, <4>3, <5>1, <5>2 DEF Setup!EnvInv
      <4>6. x[2] \in Setup!Locks \union FirstMade
        BY <4>1, <4>3, <4>4, <4>5 DEF Setup!Follows, Setup!Is, FirstMade
      <4>7. x[2] # "cmd_buf"
        BY <1>2, <3>2, <4>3, <4>5 DEF Setup!OkAfter
      <4>8. x[2] \notin {"regs", "cmd_buf_lock", "fm_rtc_mutex"}
        BY <1>2, <4>5 DEF Setup!Fine, Setup!Ways
      <4> QED BY <4>3, <4>5, <4>6, <4>7, <4>8 DEF Setup!Any, FirstMade
    <3> QED BY <3>4, <3>5
  <2>2. \A y \in T : y[1] # "get"
    BY <1>6 DEF Setup!Undoers
  <2> QED BY <1>7, <2>1, <2>2 DEF Setup!References
<1>22. ~Setup!Complete'
  BY <1>3, <1>7, <1>12, <1>13 DEF Setup!Complete, Setup!Making
<1>23. Setup!DeviceInv'
  <2>1. ASSUME NEW p \in (live' \intersect Setup!Device) \ Setup!DeviceLeftover' PROVE Setup!UndoneAhead(p)'
    <3>1. p \in live /\ p \notin Setup!DeviceLeftover /\ p \in Setup!Device
      BY <1>9
    <3>2. phase = "probing"
      BY <1>3, <1>12, <3>1
    <3>3. Setup!OkAfter(p, x) /\ x[1] = "new"
      BY <1>1, <1>2, <1>15, <3>1, <3>2 DEF Setup!Made
    <3>4. p \in Setup!Scope(w)
      <4>1. CASE w = "no_fm"
        BY <3>1, <4>1 DEF Setup!Scope
      <4>2. CASE w = "dev"
        <5>1. p # "rds_event"
          <6> SUFFICES ASSUME p = "rds_event" PROVE FALSE
            OBVIOUS
          <6>1. x[2] \in Setup!Fm \ {"rds_event"}
            BY <1>2, <3>3, <4>2 DEF Setup!Fine, Setup!OkAfter
          <6>2. Setup!Any(Setup!Fm \ {"rds_event"})'
            BY <3>3, <6>1 DEF Setup!Any
          <6> QED BY <6>2 DEF Setup!DeviceLeftover
        <5> QED BY <3>1, <4>2, <5>1 DEF Setup!Scope
      <4>3. CASE w = "mod"
        BY <3>1, <4>3 DEF Setup!Scope, Setup!DeviceLeftover
      <4> QED BY <1>15, <3>2, <4>1, <4>2, <4>3 DEF DeviceWays
    <3> QED BY <3>3, <3>4 DEF Setup!OkAfter, Setup!UndoneAhead
  <2>2. published => Setup!Ahead("unpublish", "fm")'
    <3> SUFFICES ASSUME published PROVE Setup!Ahead("unpublish", "fm")'
      OBVIOUS
    <3>1. phase = "probing"
      BY <1>3, <1>12
    <3>2. ~Setup!Ahead("unpublish", "fm")
      BY <1>13, <3>1 DEF Setup!Ahead, Setup!Is, Setup!Makers
    <3>3. ~Setup!Ahead("new", "fm")
      BY <1>1, <3>2 DEF Setup!DeviceInv
    <3>4. w # "no_fm"
      BY <1>2, <1>15, <3>1, <3>3 DEF Setup!Fine, Setup!Ahead, Setup!Is
    <3>5. <<"unpublish", "fm">> \in T
      BY <1>5, <1>15, <3>1, <3>4 DEF WayIsFine, DeviceWays
    <3> QED BY <3>5 DEF Setup!Ahead, Setup!Is
  <2> QED BY <1>3, <1>12, <1>13, <1>22, <2>1, <2>2 DEF Setup!DeviceInv
<1>24. Setup!EnvInv'
  <2>1. CASE phase = "setup"
    <3>1. ASSUME NEW p \in live' \intersect (Setup!Env \union Setup!Platform)
           PROVE p \in Setup!EnvLeftover' \/ Setup!UndoneAhead(p)'
      <4>1. p = "regs" => p \in Setup!EnvLeftover
        BY <1>1, <3>1, ObjectSets DEF Setup!EnvInv, Setup!EnvLeftover, Setup!Link
      <4>2. CASE x[1] = "need"
        <5>1. p \in {"regs", "cmd_buf"}
          BY <1>1, <1>2, <2>1, <3>1, <4>2 DEF Setup!EnvInv, Setup!Fine
        <5>2. Setup!UndoneAhead("cmd_buf")'
          BY <1>5, <1>14, <4>2, ObjectSets DEF WayIsFine, EnvWays, Covers, Setup!UndoneAhead
        <5> QED BY <1>9, <4>1, <5>1, <5>2
      <4>3. CASE x[1] = "new"
        <5>1. p \notin Setup!DeviceLeftover
          BY <3>1, ObjectSets DEF Setup!DeviceLeftover, Setup!Platform
        <5>2. Setup!OkAfter(p, x)
          BY <1>1, <1>2, <3>1, <5>1 DEF Setup!Made
        <5>3. p \in Setup!Scope(w) => Setup!UndoneAhead(p)'
          BY <4>3, <5>2 DEF Setup!OkAfter, Setup!UndoneAhead
        <5>4. CASE w \in EnvWays
          BY <1>9, <3>1, <4>1, <5>3, <5>4 DEF Setup!Scope, EnvWays
        <5>5. CASE w \in {"left", "no_add", "no_driver"}
          <6>1. x[2] \in Setup!Platform /\ Setup!Any({"pdev", "added", "driver"})'
            BY <1>2, <4>3, <5>5 DEF Setup!Fine, Setup!Any, Setup!Platform
          <6>2. Setup!Env \subseteq Setup!EnvLeftover'
            BY <6>1 DEF Setup!EnvLeftover
          <6> QED BY <3>1, <5>3, <5>5, <6>2 DEF Setup!Scope
        <5> QED BY <1>16, <2>1, <4>3, <5>4, <5>5 DEF Setup!Ways, EnvWays, DeviceWays
      <4> QED BY <4>2, <4>3
    <3> QED BY <1>1, <1>9, <2>1, <3>1 DEF Setup!EnvInv
  <2>2. CASE phase = "probing"
    <3>1. \A p \in Setup!Env : ~Setup!Ahead("new", p)
      BY <1>13, <2>2, ObjectSets DEF Setup!Ahead, Setup!Is, Setup!DeviceObjects
    <3>2. ~Setup!Ahead("need", "cmd_buf_lock")
      BY <1>13, <2>2, ObjectSets DEF Setup!Ahead, Setup!Is, Setup!DeviceObjects
    <3> QED BY <1>1, <1>8, <2>2, <3>1, <3>2 DEF Setup!EnvInv
  <2> QED BY <1>3, <2>1, <2>2
<1>25. Setup!LnaInv'
  BY <1>1, <1>3, <1>7, <1>12 DEF Setup!LnaInv
<1>26. Setup!Known' /\ Setup!ResetInv'
  BY <1>1, <1>3 DEF Setup!Known, Setup!ResetInv, Setup!ResetFindsAll
<1> QED BY <1>10, <1>17, <1>18, <1>19, <1>20, <1>21, <1>23, <1>24, <1>25, <1>26 DEF Setup!IInv

\* A step that neither makes nor destroys anything.
Calm ==
  /\ Setup!IInv /\ broken = "no" /\ fm_todo # <<>> /\ fm_todo' = Tail(fm_todo) /\ failed \subseteq failed'
  /\ UNCHANGED <<phase, fm_build, binds, rst_queued, broken>>
  /\ ref' \in [Setup!Counted -> Int] /\ \A p \in Setup!Counted : p # fm_todo[1][2] \/
       fm_todo[1][1] \notin {"get", "put"} => ref'[p] = ref[p]
  /\ probed' = IF fm_todo[1][1] \in {"bind", "unbind"} THEN fm_todo[1][1] = "bind" ELSE probed
  /\ published' = IF fm_todo[1][1] \in {"publish", "unpublish"} THEN fm_todo[1][1] = "publish" ELSE published
  /\ IF fm_todo[1][1] = "request"
     THEN \/ "lna" \notin live /\ live' = live \union {"lna"} /\ held' = held \union {"lna"}
          \/ live' = live /\ held' = held \ {"lna"}
     ELSE live' = live /\ held' = held
  /\ fm_todo[1][1] = "new" => fm_todo[1][3] = "go" /\ fm_todo[1][2] \in failed'
  /\ fm_todo[1][1] \in {"need", "orstop"} => fm_todo[1][2] \in held
  /\ fm_todo[1][1] = "get" /\ fm_todo[1][2] \in held => ref'[fm_todo[1][2]] = ref[fm_todo[1][2]] + 1
  /\ fm_todo[1][1] \in {"put", "free", "drop"} =>
       \/ fm_todo[1][2] \notin held
       \/ fm_todo[1][2] \in Setup!Locks /\ Setup!Any(Setup!Locks \ {"fm_rtc_mutex"})

LEMMA CalmBasics ==
  ASSUME Calm
  PROVE  /\ Setup!Types /\ Setup!Routine /\ Setup!Made /\ Setup!Pointers /\ Setup!Misuse /\ Setup!References /\
              Setup!DeviceInv /\ Setup!EnvInv /\ Setup!LnaInv /\ Setup!Known /\ Setup!ResetInv
         /\ Went /\ Setup!Routine' /\ fm_todo' \in Seq(Setup!SetOf(fm_todo')) /\ Setup!Fine(fm_todo[1]) /\
              fm_todo[1] \in Setup!SetOf(fm_todo)
         /\ Setup!DeviceLeftover \subseteq Setup!DeviceLeftover' /\
              Setup!EnvLeftover \subseteq Setup!EnvLeftover' /\ (Setup!Excuse => Setup!Excuse')
         /\ \A p : p # "lna" => (p \in live' <=> p \in live) /\ (p \in held' <=> p \in held)
         /\ fm_todo[1][1] \in Setup!Makers \union Setup!Undoers
<1>1. Setup!Types /\ Setup!Routine /\ Setup!Made /\ Setup!Pointers /\ Setup!Misuse /\ Setup!References /\
    Setup!DeviceInv /\ Setup!EnvInv /\ Setup!LnaInv /\ Setup!Known /\ Setup!ResetInv
  BY DEF Calm, Setup!IInv
<1>2. Went /\ Setup!Routine' /\ fm_todo' \in Seq(Setup!SetOf(fm_todo'))
  BY <1>1, GoesOn, RoutineGoesOn DEF Calm
<1>3. Setup!Fine(fm_todo[1]) /\ fm_todo[1] \in Setup!SetOf(fm_todo)
  BY <1>1, FirstIsFine DEF Calm
<1>4. /\ Setup!DeviceLeftover \subseteq Setup!DeviceLeftover'
      /\ Setup!EnvLeftover \subseteq Setup!EnvLeftover'
      /\ (Setup!Excuse => Setup!Excuse')
  BY <1>1, LeftoverGrows, EnvLeftoverGrows DEF Calm, Setup!Types, Setup!Excuse, Setup!Any
<1>5. \A p : p # "lna" => (p \in live' <=> p \in live) /\ (p \in held' <=> p \in held)
  BY DEF Calm
<1>6. fm_todo[1][1] \in Setup!Makers \union Setup!Undoers
  <2>1. phase \in {"setup", "probing", "unbinding", "leaving"}
    BY <1>1 DEF Calm, Setup!Types, Setup!Routine
  <2> QED BY <1>1, <1>3, <2>1 DEF Setup!Routine, Setup!IsAbout
<1> QED BY <1>1, <1>2, <1>3, <1>4, <1>5, <1>6

LEMMA CalmPointers ==
  ASSUME Calm
  PROVE  Setup!Types' /\ Setup!Made' /\ Setup!Pointers' /\ Setup!Misuse' /\ Setup!Known' /\ Setup!ResetInv'
<1> DEFINE x == fm_todo[1]
           T == Setup!SetOf(fm_todo')
<1>1. /\ Setup!Types /\ Setup!Made /\ Setup!Pointers /\ Setup!Misuse /\ Setup!Known /\ Setup!ResetInv /\
           Setup!Routine
      /\ Went /\ fm_todo' \in Seq(Setup!SetOf(fm_todo'))
      /\ Setup!DeviceLeftover \subseteq Setup!DeviceLeftover' /\ (Setup!Excuse => Setup!Excuse')
      /\ \A p : p # "lna" => (p \in live' <=> p \in live) /\ (p \in held' <=> p \in held)
  BY CalmBasics
<1>2. /\ broken = "no" /\ fm_todo # <<>> /\ fm_todo' = Tail(fm_todo) /\ failed \subseteq failed'
      /\ UNCHANGED <<phase, fm_build, binds, rst_queued, broken>>
  BY DEF Calm
<1>3. "lna" \notin Setup!Env \union Setup!Platform \union Setup!Device \union {"rst_wk", "fm", "timer_wkthd"}
  BY ObjectSets DEF Setup!Platform
<1>4. \A y \in T : y \in Setup!SetOf(fm_todo)
  BY <1>1 DEF Went
<1>5. Setup!Types'
  <2>1. ref' \in [Setup!Counted -> Int]
    BY DEF Calm
  <2>2. probed' \in BOOLEAN /\ published' \in BOOLEAN
    BY <1>1 DEF Setup!Types, Calm
  <2> QED BY <1>1, <1>2, <2>1, <2>2 DEF Setup!Types
<1>6. Setup!Made'
  <2>1. ASSUME NEW p \in (live' \ Setup!DeviceLeftover') \union (held' \intersect Setup!Fm), NEW y \in T
        PROVE  Setup!OkAfter(p, y)
    <3>1. CASE p # "lna"
      <4>1. p \in (live \ Setup!DeviceLeftover) \union (held \intersect Setup!Fm)
        BY <1>1, <2>1, <3>1
      <4> QED BY <1>1, <1>4, <4>1 DEF Setup!Made
    <3>2. CASE p = "lna"
      <4>1. Setup!Fine(y)
        BY <1>1, <1>4 DEF Setup!Routine
      <4>2. y[1] = "new" => y[2] # p /\ y[3] \in Setup!Ways \union {"go"}
        BY <1>3, <3>2, <4>1 DEF Setup!Fine
      <4>3. p \notin Setup!Scope(y[3]) /\ p \notin Setup!Locks
        BY <3>2, ObjectSets DEF Setup!Scope, Setup!Platform
      <4> QED BY <4>2, <4>3 DEF Setup!OkAfter
    <3> QED BY <3>1, <3>2
  <2> QED BY <2>1 DEF Setup!Made
<1>7. Setup!Pointers'
  <2>1. /\ live' \intersect (Setup!Env \union Setup!Platform) \subseteq held'
        /\ live' \intersect Setup!Device \subseteq held' \union Setup!DeviceLeftover'
    BY <1>1, <1>3 DEF Setup!Pointers
  <2>2. /\ held' \intersect (Setup!Fm \union {"fm"}) \subseteq live'
        /\ held' \intersect Setup!Fm # {} => "fm" \in held'
    <3>1. Setup!Fm \union {"fm"} \subseteq Setup!Device
      BY ObjectSets
    <3> QED BY <1>1, <1>3, <3>1 DEF Setup!Pointers
  <2>3. phase' \notin {"leaving", "gone"} => held' \intersect Setup!Env \subseteq live'
    BY <1>1, <1>2, <1>3 DEF Setup!Pointers
  <2> QED BY <2>1, <2>2, <2>3 DEF Setup!Pointers
<1>8. Setup!Misuse'
  <2>1. held' \ live' \subseteq held \ live
    BY <1>1 DEF Calm
  <2>2. ~Setup!Excuse => Setup!FreedOnce(fm_todo)'
    BY <1>1, <1>2, FreedOnceGoesOn DEF Setup!Misuse
  <2> QED BY <1>1, <1>2, <1>4, <2>1, <2>2 DEF Setup!Misuse
<1>9. Setup!Known'
  BY <1>1 DEF Setup!Known
<1>10. Setup!ResetInv'
  BY <1>1, <1>2, <1>3 DEF Setup!ResetInv, Setup!ResetFindsAll
<1> QED BY <1>5, <1>6, <1>7, <1>8, <1>9, <1>10

LEMMA CalmReferences == ASSUME Calm PROVE Setup!References'
<1> DEFINE x == fm_todo[1]
           T == Setup!SetOf(fm_todo')
<1>1. /\ Setup!Types /\ Setup!Routine /\ Setup!References /\ Went /\ Setup!Fine(x) /\ x \in Setup!SetOf(fm_todo)
      /\ \A p : p # "lna" => (p \in held' <=> p \in held)
  BY CalmBasics
<1>2. fm_todo # <<>> /\ fm_todo' = Tail(fm_todo)
  BY DEF Calm
<1>3. \A y \in T : y \in Setup!SetOf(fm_todo) /\ Setup!Follows(x, y)
  BY <1>1 DEF Went
<1>4. \A verb, p : (Setup!Ahead(verb, p)' => Setup!Ahead(verb, p)) /\
    (Setup!Ahead(verb, p) => Setup!Ahead(verb, p)' \/ Setup!Is(x, verb, p))
  BY <1>1, StaysAhead
<1>5. Setup!Any(Setup!Locks \ {"fm_rtc_mutex"}) => Setup!Any(Setup!Locks \ {"fm_rtc_mutex"})'
  BY DEF Calm, Setup!Any
<1>6. ASSUME NEW p \in held' \intersect (Setup!Counted \ {"rds_data"})
      PROVE  (p \in Setup!Locks /\ Setup!Any(Setup!Locks \ {"fm_rtc_mutex"})') \/
          ref'[p] = IF Setup!Ahead("get", p)' THEN 0 ELSE 1
  <2>1. p \in held
    BY <1>1, <1>6, ObjectSets
  <2>2. (p \in Setup!Locks /\ Setup!Any(Setup!Locks \ {"fm_rtc_mutex"})) \/
      ref[p] = IF Setup!Ahead("get", p) THEN 0 ELSE 1
    BY <1>1, <1>6, <2>1 DEF Setup!References
  <2>3. CASE x[1] = "get" /\ x[2] = p
    <3>1. Setup!Ahead("get", p)
      BY <1>1, <2>3 DEF Setup!Ahead, Setup!Is
    <3>2. ~Setup!Ahead("get", p)'
      BY <1>3, <2>3 DEF Setup!Ahead, Setup!Is, Setup!Follows
    <3>3. ref'[p] = ref[p] + 1
      BY <2>1, <2>3 DEF Calm
    <3> QED BY <1>5, <2>2, <3>1, <3>2, <3>3
  <2>4. CASE x[1] = "put" /\ x[2] = p
    BY <1>5, <2>1, <2>4 DEF Calm
  <2>5. CASE ~(x[1] \in {"get", "put"} /\ x[2] = p)
    <3>1. ref'[p] = ref[p]
      BY <1>6, <2>5 DEF Calm
    <3>2. Setup!Ahead("get", p) <=> Setup!Ahead("get", p)'
      BY <1>4, <2>5 DEF Setup!Is
    <3> QED BY <1>5, <2>2, <3>1, <3>2
  <2> QED BY <2>3, <2>4, <2>5
<1>7. ASSUME NEW y \in T, y[1] = "get" PROVE y[2] \in Setup!Locks \/ Setup!Ahead("new", y[2])' \/
    y = fm_todo'[1]
  <2>1. y # x
    BY <1>3, <1>7 DEF Setup!Follows, Setup!Is
  <2>2. y[2] \in Setup!Locks \/ Setup!Ahead("new", y[2])
    BY <1>1, <1>3, <1>7, <2>1 DEF Setup!References
  <2>3. ASSUME y[2] \notin Setup!Locks, ~Setup!Ahead("new", y[2])' PROVE y = fm_todo'[1]
    <3>1. Setup!Is(x, "new", y[2])
      BY <1>4, <2>2, <2>3
    <3>2. y[2] \in Setup!Counted \ {"rds_data"}
      BY <1>1, <1>3, <1>7 DEF Setup!Routine, Setup!Fine
    <3>3. x[1] = "new" /\ x[2] \in Setup!Counted \ (Setup!Locks \union {"rds_data"}) /\ Setup!Is(y, "get", x[2])
      BY <1>7, <2>3, <3>1, <3>2 DEF Setup!Is
    <3> QED BY <1>1, <1>2, <3>3, NextTakes
  <2> QED BY <2>2, <2>3
<1> QED BY <1>6, <1>7 DEF Setup!References

LEMMA CalmDevice == ASSUME Calm PROVE Setup!DeviceInv'
<1> DEFINE x == fm_todo[1]
           T == Setup!SetOf(fm_todo')
<1>1. /\ Setup!Pointers /\ Setup!DeviceInv /\ Setup!Routine /\ Went /\ Setup!Fine(x) /\
           x \in Setup!SetOf(fm_todo)
      /\ Setup!DeviceLeftover \subseteq Setup!DeviceLeftover'
      /\ \A p : p # "lna" => (p \in held' <=> p \in held) /\ (p \in live' <=> p \in live)
      /\ x[1] \in Setup!Makers \union Setup!Undoers
  BY CalmBasics
<1>2. Setup!IInv /\ fm_todo # <<>> /\ fm_todo' = Tail(fm_todo) /\ phase' = phase
  BY DEF Calm
<1>3. "lna" \notin Setup!Device
  BY ObjectSets
<1>4. /\ \A verb, p : (Setup!Ahead(verb, p)' => Setup!Ahead(verb, p)) /\
           (Setup!Ahead(verb, p) => Setup!Ahead(verb, p)' \/ Setup!Is(x, verb, p))
      /\ \A p : Setup!UndoneAhead(p) => Setup!UndoneAhead(p)' \/ Setup!Undoes(x, p)
  BY <1>1, StaysAhead
<1>5. CASE x[1] \in Setup!Undoers
  <2>1. /\ ~Setup!Making
        /\ \A o \in (live \intersect Setup!Device) \ Setup!DeviceLeftover : Setup!UndoneAhead(o)
        /\ probed => Setup!Ahead("unbind", "g_fm")
        /\ published => Setup!Ahead("unpublish", "fm")
    BY <1>2, <1>5, InUndoing
  <2>2. probed' => Setup!Ahead("unbind", "g_fm")'
    BY <1>4, <1>5, <2>1 DEF Calm, Setup!Is, Setup!Undoers
  <2>3. published' => Setup!Ahead("unpublish", "fm")'
    BY <1>4, <1>5, <2>1 DEF Calm, Setup!Is, Setup!Undoers
  <2>4. ~Setup!Complete'
    <3>1. ~Setup!Making'
      BY <1>4, <2>1 DEF Setup!Making
    <3>2. fm_todo' = <<>> => ~Setup!Ahead("unbind", "g_fm")'
      BY DEF Setup!Ahead, Setup!SetOf
    <3> QED BY <2>2, <3>1, <3>2 DEF Setup!Complete
  <2>5. \A o \in (live' \intersect Setup!Device) \ Setup!DeviceLeftover' : Setup!UndoneAhead(o)'
    <3> SUFFICES ASSUME NEW o \in (live' \intersect Setup!Device) \ Setup!DeviceLeftover'
           PROVE Setup!UndoneAhead(o)'
      OBVIOUS
    <3>1. o \in (live \intersect Setup!Device) \ Setup!DeviceLeftover
      BY <1>1, <1>3
    <3>2. o \in held /\ o \notin Setup!Locks
      BY <1>1, <3>1, ObjectSets DEF Setup!Pointers
    <3>3. ~Setup!Undoes(x, o)
      BY <3>2 DEF Calm, Setup!Undoes
    <3> QED BY <1>4, <2>1, <3>1, <3>3
  <2> QED BY <2>2, <2>3, <2>4, <2>5 DEF Setup!DeviceInv
<1>6. CASE x[1] \in Setup!Makers /\ phase = "setup"
  <2>1. /\ ~probed /\ ~published /\ ~Setup!Making /\ live \intersect Setup!Device \subseteq Setup!DeviceLeftover
        /\ \A y \in Setup!SetOf(fm_todo) : y[2] \in Setup!SetupObjects
    BY <1>2, <1>6, InSetup
  <2>2. x[1] \notin {"bind", "unbind", "publish", "unpublish"}
    BY <1>1, <2>1, ObjectSets DEF Setup!Fine, Setup!SetupObjects, Setup!Platform
  <2>3. ~probed' /\ ~published'
    BY <2>1, <2>2 DEF Calm
  <2>4. ~Setup!Complete'
    BY <1>4, <2>1, <2>3 DEF Setup!Complete, Setup!Making
  <2>5. live' \intersect Setup!Device \subseteq Setup!DeviceLeftover'
    BY <1>1, <1>3, <2>1
  <2> QED BY <2>3, <2>4, <2>5 DEF Setup!DeviceInv
<1>7. CASE x[1] \in Setup!Makers /\ phase = "probing"
  <2>1. ~probed /\ Setup!Making /\ Setup!Complete /\ (\A y \in Setup!SetOf(fm_todo) : y[1] \in Setup!Makers)
    BY <1>2, <1>7, InProbe
  <2>2. x[1] = "bind" => fm_todo' = <<>>
    <3> SUFFICES ASSUME x[1] = "bind" PROVE fm_todo' = <<>>
      OBVIOUS
    <3>1. T = {}
      BY <1>1 DEF Went, Setup!Follows
    <3>2. fm_todo' \in Seq(T)
      BY CalmBasics
    <3>3. \A i \in 1 .. Len(fm_todo') : fm_todo'[i] \in T
      BY <3>2
    <3>4. Len(fm_todo') \in Nat /\ (Len(fm_todo') = 0 => fm_todo' = <<>>)
      BY <3>2
    <3> QED BY <3>1, <3>3, <3>4
  <2>3. Setup!Complete'
    <3>1. CASE x[1] = "bind"
      BY <2>2, <3>1 DEF Setup!Complete, Calm
    <3>2. CASE x[1] # "bind"
      BY <1>4, <2>1, <3>2 DEF Setup!Complete, Setup!Making, Setup!Is
    <3> QED BY <3>1, <3>2
  <2>4. \A o \in Setup!Device : o \in live' \/ Setup!Ahead("new", o)' \/ (o = "device" /\ o \in failed')
    <3> SUFFICES ASSUME NEW o \in Setup!Device
           PROVE o \in live' \/ Setup!Ahead("new", o)' \/ (o = "device" /\ o \in failed')
      OBVIOUS
    <3>1. o \in live' \/ Setup!Ahead("new", o) \/ (o = "device" /\ o \in failed')
      BY <1>1, <1>3, <2>1 DEF Setup!DeviceInv, Calm
    <3>2. Setup!Is(x, "new", o) => o = "device" /\ o \in failed'
      BY <1>1, ObjectSets DEF Calm, Setup!Is, Setup!Fine
    <3> QED BY <1>4, <3>1, <3>2
  <2>5. probed' => phase' = "probing" /\ fm_todo' = <<>>
    BY <1>7, <2>1, <2>2 DEF Calm, Setup!Makers
  <2>6. published' => ~Setup!Ahead("new", "fm")'
    <3>1. CASE x[1] = "publish"
      BY <1>1, <3>1 DEF Went, Setup!Follows, Setup!Ahead
    <3>2. CASE x[1] # "publish"
      <4>1. published' => published /\ ~Setup!Ahead("unpublish", "fm")
        BY <2>1, <3>2 DEF Calm, Setup!Ahead, Setup!Is, Setup!Makers
      <4> QED BY <1>1, <1>4, <4>1 DEF Setup!DeviceInv
    <3> QED BY <3>1, <3>2
  <2> QED BY <2>3, <2>4, <2>5, <2>6 DEF Setup!DeviceInv
<1> QED BY <1>1, <1>2, <1>5, <1>6, <1>7, InMaking

LEMMA CalmEnv == ASSUME Calm PROVE Setup!EnvInv'
<1> DEFINE x == fm_todo[1]
<1>1. /\ Setup!Pointers /\ Setup!EnvInv /\ Setup!Routine /\ Went /\ Setup!Fine(x) /\ x \in Setup!SetOf(fm_todo)
      /\ Setup!EnvLeftover \subseteq Setup!EnvLeftover'
      /\ \A p : p # "lna" => (p \in held' <=> p \in held) /\ (p \in live' <=> p \in live)
      /\ x[1] \in Setup!Makers \union Setup!Undoers
  BY CalmBasics
<1>2. Setup!IInv /\ fm_todo # <<>> /\ fm_todo' = Tail(fm_todo) /\ phase' = phase /\ fm_build' = fm_build /\
    failed \subseteq failed'
  BY DEF Calm
<1>3. /\ \A verb, p : (Setup!Ahead(verb, p)' => Setup!Ahead(verb, p)) /\
           (Setup!Ahead(verb, p) => Setup!Ahead(verb, p)' \/ Setup!Is(x, verb, p))
      /\ \A p : Setup!UndoneAhead(p) => Setup!UndoneAhead(p)' \/ Setup!Undoes(x, p)
  BY <1>1, StaysAhead
<1>4. "lna" \notin Setup!Env \union Setup!Platform \union {"library", "low_ops_unregister", "cmd_buf_lock",
    "regs", "irq"}
      /\ "cmd_buf_lock" \in Setup!Env
  BY ObjectSets DEF Setup!Platform
<1>5. live' \intersect (Setup!Env \union Setup!Platform) = live \intersect (Setup!Env \union Setup!Platform)
  BY <1>1, <1>4
<1>6. phase \notin {"leaving", "gone"} =>
        /\ \A o \in Setup!Env : o \in live' \/ Setup!Ahead("new", o)' \/ o \in {"regs", "cmd_buf_lock"}
                                 \/ (o = "fm_rtc_mutex" /\ o \in failed')
        /\ "cmd_buf_lock" \in live' \/ Setup!Ahead("need", "cmd_buf_lock")'
  <2> SUFFICES ASSUME phase \notin {"leaving", "gone"}
               PROVE  /\ \A o \in Setup!Env : o \in live' \/ Setup!Ahead("new", o)' \/
                           o \in {"regs", "cmd_buf_lock"}
                                               \/ (o = "fm_rtc_mutex" /\ o \in failed')
                      /\ "cmd_buf_lock" \in live' \/ Setup!Ahead("need", "cmd_buf_lock")'
    OBVIOUS
  <2>1. ASSUME NEW o \in Setup!Env
        PROVE  o \in live' \/ Setup!Ahead("new", o)' \/ o \in {"regs", "cmd_buf_lock"} \/
            (o = "fm_rtc_mutex" /\ o \in failed')
    <3>1. o \in live' \/ Setup!Ahead("new", o) \/ o \in {"regs", "cmd_buf_lock"} \/
        (o = "fm_rtc_mutex" /\ o \in failed')
      BY <1>1, <1>2, <1>4 DEF Setup!EnvInv
    <3>2. Setup!Is(x, "new", o) => o \in {"regs", "cmd_buf_lock"} \/ (o = "fm_rtc_mutex" /\ o \in failed')
      BY <1>1, ObjectSets DEF Calm, Setup!Is, Setup!Fine
    <3> QED BY <1>3, <3>1, <3>2
  <2>2. "cmd_buf_lock" \in live' \/ Setup!Ahead("need", "cmd_buf_lock")'
    <3>1. "cmd_buf_lock" \in live \/ Setup!Ahead("need", "cmd_buf_lock")
      BY <1>1 DEF Setup!EnvInv
    <3>2. Setup!Is(x, "need", "cmd_buf_lock") => "cmd_buf_lock" \in live
      BY <1>1, <1>4 DEF Calm, Setup!Is, Setup!Pointers
    <3> QED BY <1>1, <1>3, <1>4, <3>1, <3>2
  <2> QED BY <2>1, <2>2
<1>7. phase \in {"leaving", "gone"} => \A o \in live' \intersect (Setup!Env \union Setup!Platform) :
    o \in Setup!EnvLeftover' \/ Setup!UndoneAhead(o)'
  <2> SUFFICES ASSUME phase \in {"leaving", "gone"},
      NEW o \in live' \intersect (Setup!Env \union Setup!Platform)
               PROVE  o \in Setup!EnvLeftover' \/ Setup!UndoneAhead(o)'
    OBVIOUS
  <2>1. o \in Setup!EnvLeftover \/ Setup!UndoneAhead(o)
    BY <1>1, <1>5 DEF Setup!EnvInv
  <2>2. o \in held
    BY <1>1, <1>5 DEF Setup!Pointers
  <2>3. Setup!Undoes(x, o) => o \in Setup!EnvLeftover
    BY <2>2 DEF Calm, Setup!Undoes, Setup!EnvLeftover
  <2> QED BY <1>1, <1>3, <2>1, <2>3
<1>8. "library" \notin held' =>
        /\ live' \intersect (Setup!Env \union Setup!Platform) \subseteq {"regs"}
        /\ phase \in {"leaving", "gone"} \/ (phase = "setup" /\ Setup!Ahead("need", "library")')
  <2> SUFFICES ASSUME "library" \notin held
               PROVE  /\ live \intersect (Setup!Env \union Setup!Platform) \subseteq {"regs"}
                      /\ phase \in {"leaving", "gone"} \/ (phase = "setup" /\ Setup!Ahead("need", "library")')
    BY <1>1, <1>4, <1>5
  <2>1. ~Setup!Is(x, "need", "library")
    BY DEF Calm, Setup!Is
  <2> QED BY <1>1, <1>3, <2>1 DEF Setup!EnvInv
<1>9. "cmd_buf_lock" \notin held' =>
        \/ /\ live' \intersect (Setup!Env \union Setup!Platform) \subseteq {"regs", "cmd_buf"}
           /\ phase = "setup" /\ Setup!Ahead("need", "cmd_buf_lock")'
        \/ /\ phase \in {"leaving", "gone"}
           /\ Setup!Ahead("orstop", "cmd_buf_lock")' =>
                live' \intersect (Setup!Env \union Setup!Platform) \subseteq {"regs", "cmd_buf"}
  <2> SUFFICES ASSUME "cmd_buf_lock" \notin held
               PROVE  \/ /\ live \intersect (Setup!Env \union Setup!Platform) \subseteq {"regs", "cmd_buf"}
                         /\ phase = "setup" /\ Setup!Ahead("need", "cmd_buf_lock")'
                      \/ /\ phase \in {"leaving", "gone"}
                         /\ Setup!Ahead("orstop", "cmd_buf_lock")' =>
                              live \intersect (Setup!Env \union Setup!Platform) \subseteq {"regs", "cmd_buf"}
    BY <1>1, <1>4, <1>5
  <2>1. ~Setup!Is(x, "need", "cmd_buf_lock")
    BY DEF Calm, Setup!Is
  <2> QED BY <1>1, <1>3, <2>1 DEF Setup!EnvInv
<1>10. /\ ("low_ops_unregister" \in held' <=> fm_build'[1] = "wmt")
       /\ (live' \intersect {"regs", "irq"} # {} => fm_build'[1] = "conninfra")
  BY <1>1, <1>2, <1>4 DEF Setup!EnvInv
<1> QED BY <1>2, <1>6, <1>7, <1>8, <1>9, <1>10 DEF Setup!EnvInv

LEMMA CalmKeeps == ASSUME Calm PROVE Setup!IInv'
<1> DEFINE x == fm_todo[1]
<1>1. Setup!LnaInv /\ Setup!Routine /\ Went /\ Setup!Fine(x) /\ x \in Setup!SetOf(fm_todo) /\ Setup!Routine'
  BY CalmBasics
<1>2. Setup!IInv /\ fm_todo # <<>> /\ phase' = phase /\ binds' = binds
  BY DEF Calm
<1>3. /\ \A verb, p : Setup!Ahead(verb, p)' => Setup!Ahead(verb, p)
      /\ \A p : Setup!UndoneAhead(p) => Setup!UndoneAhead(p)' \/ Setup!Undoes(x, p)
  BY <1>1, StaysAhead
<1>4. Setup!LnaInv'
  <2>1. CASE x[1] = "request"
    <3>1. x[2] = "lna" /\ Setup!Ahead("request", "lna")
      BY <1>1, <2>1 DEF Setup!Fine, Setup!Ahead, Setup!Is
    <3>2. ~Setup!Ahead("request", "lna")'
      BY <1>1, <2>1, <3>1 DEF Went, Setup!Follows, Setup!Ahead, Setup!Is
    <3>3. phase = "probing"
      <4>1. x[1] \in Setup!Makers /\ x[2] \notin Setup!SetupObjects
        BY <2>1, <3>1, ObjectSets DEF Setup!Makers, Setup!SetupObjects, Setup!Platform
      <4> QED BY <1>1, <1>2, <4>1, InMaking DEF Setup!Routine, Setup!IsAbout
    <3>4. binds' <= 1 /\ "lna" \in live' => "lna" \in held'
      BY <1>1, <1>2, <2>1, <3>1 DEF Setup!LnaInv, Calm
    <3> QED BY <1>1, <1>2, <3>2, <3>3, <3>4 DEF Setup!LnaInv
  <2>2. CASE x[1] # "request"
    <3>1. live' = live /\ held' = held
      BY <2>2 DEF Calm
    <3>2. "lna" \in held => ~Setup!Undoes(x, "lna")
      BY ObjectSets DEF Calm, Setup!Undoes
    <3> QED BY <1>1, <1>2, <1>3, <3>1, <3>2 DEF Setup!LnaInv
  <2> QED BY <2>1, <2>2
<1> QED BY <1>1, <1>4, CalmPointers, CalmReferences, CalmDevice, CalmEnv DEF Setup!IInv

\* A pointer's object is destroyed.
Removal ==
  /\ Setup!IInv /\ broken = "no" /\ fm_todo # <<>> /\ fm_todo' = Tail(fm_todo)
  /\ UNCHANGED <<phase, fm_build, binds, failed, probed, published, rst_queued, broken>>
  /\ fm_todo[1][1] \in {"put", "free", "drop"} /\ fm_todo[1][2] \in held /\ fm_todo[1][2] \in live
  /\ fm_todo[1][2] = "timer_wkthd" => ~rst_queued
  /\ live' = live \ {fm_todo[1][2]}
  /\ held' = CASE fm_todo[1][1] = "put"  -> held \ {fm_todo[1][2]}
               [] fm_todo[1][1] = "drop" -> Setup!Reached(fm_todo[1][2])
               [] OTHER               -> held
  /\ ref' \in [Setup!Counted -> Int] /\ \A p \in Setup!Counted : p # fm_todo[1][2] \/ fm_todo[1][1] # "put" =>
       ref'[p] = ref[p]

LEMMA RemovalBasics ==
  ASSUME Removal
  PROVE  /\ Setup!Types /\ Setup!Routine /\ Setup!Made /\ Setup!Pointers /\ Setup!Misuse /\ Setup!References /\
              Setup!DeviceInv /\ Setup!EnvInv /\ Setup!LnaInv /\ Setup!Known /\ Setup!ResetInv
         /\ Went /\ Setup!Routine' /\ fm_todo' \in Seq(Setup!SetOf(fm_todo')) /\ Setup!Fine(fm_todo[1]) /\
              fm_todo[1] \in Setup!SetOf(fm_todo)
         /\ Setup!DeviceLeftover' = Setup!DeviceLeftover /\ Setup!EnvLeftover' = Setup!EnvLeftover /\
              (Setup!Excuse <=> Setup!Excuse')
         /\ fm_todo[1][1] \in Setup!Undoers
         /\ held' \subseteq held
         /\ \A p \in held : p \in held' \/ p = fm_todo[1][2] \/
              (Setup!Is(fm_todo[1], "drop", "fm") /\ p \in Setup!Fm)
         /\ \A y \in Setup!SetOf(fm_todo') : y \in Setup!SetOf(fm_todo) /\ y[1] \in Setup!Undoers /\
              Setup!Follows(fm_todo[1], y) /\ Setup!Fine(y)
         /\ \A verb, p : (Setup!Ahead(verb, p)' => Setup!Ahead(verb, p)) /\
              (Setup!Ahead(verb, p) => Setup!Ahead(verb, p)' \/ Setup!Is(fm_todo[1], verb, p))
         /\ \A p : Setup!UndoneAhead(p) => Setup!UndoneAhead(p)' \/ p = fm_todo[1][2]
<1>1. Setup!Types /\ Setup!Routine /\ Setup!Made /\ Setup!Pointers /\ Setup!Misuse /\ Setup!References /\
    Setup!DeviceInv /\ Setup!EnvInv /\ Setup!LnaInv /\ Setup!Known /\ Setup!ResetInv
  BY DEF Removal, Setup!IInv
<1>2. Went /\ Setup!Routine' /\ fm_todo' \in Seq(Setup!SetOf(fm_todo'))
  BY <1>1, GoesOn, RoutineGoesOn DEF Removal
<1>3. Setup!Fine(fm_todo[1]) /\ fm_todo[1] \in Setup!SetOf(fm_todo)
  BY <1>1, FirstIsFine DEF Removal
<1>4. /\ Setup!DeviceLeftover' = Setup!DeviceLeftover
      /\ Setup!EnvLeftover' = Setup!EnvLeftover
      /\ (Setup!Excuse <=> Setup!Excuse')
  BY DEF Removal, Setup!DeviceLeftover, Setup!EnvLeftover, Setup!Excuse, Setup!Any
<1>5. fm_todo[1][1] \in Setup!Undoers
  BY DEF Removal, Setup!Undoers
<1>6. /\ held' \subseteq held
      /\ \A p \in held : p \in held' \/ p = fm_todo[1][2] \/
           (Setup!Is(fm_todo[1], "drop", "fm") /\ p \in Setup!Fm)
  <2>1. fm_todo[1][1] = "put" \/ fm_todo[1][1] = "drop" \/ fm_todo[1][1] = "free"
    BY DEF Removal
  <2>2. CASE fm_todo[1][1] = "put"
    BY <2>2 DEF Removal
  <2>3. CASE fm_todo[1][1] = "drop"
    BY <2>3 DEF Removal, Setup!Reached, Setup!Is
  <2>4. CASE fm_todo[1][1] = "free"
    BY <2>4 DEF Removal
  <2> QED BY <2>1, <2>2, <2>3, <2>4
<1>7. \A y \in Setup!SetOf(fm_todo) : y[1] \in Setup!Undoers /\ Setup!Fine(y)
  BY <1>1, <1>5, InUndoing DEF Removal, Setup!Routine
<1>8. \A y \in Setup!SetOf(fm_todo') : y \in Setup!SetOf(fm_todo) /\ y[1] \in Setup!Undoers /\
    Setup!Follows(fm_todo[1], y) /\ Setup!Fine(y)
  BY <1>2, <1>7 DEF Went
<1>9. /\ \A verb, p : (Setup!Ahead(verb, p)' => Setup!Ahead(verb, p)) /\
           (Setup!Ahead(verb, p) => Setup!Ahead(verb, p)' \/ Setup!Is(fm_todo[1], verb, p))
      /\ \A p : Setup!UndoneAhead(p) => Setup!UndoneAhead(p)' \/ p = fm_todo[1][2]
  BY <1>2, StaysAhead DEF Setup!Undoes
<1> QED BY <1>1, <1>2, <1>3, <1>4, <1>5, <1>6, <1>8, <1>9

\* A device's object that is left is destroyed later.
LEMMA RemovalOfDevice ==
  ASSUME Removal
  PROVE  /\ \A p \in (live' \intersect Setup!Device) \ Setup!DeviceLeftover :
              Setup!UndoneAhead(p)' /\ ~(Setup!Is(fm_todo[1], "drop", "fm") /\ p \in Setup!Fm)
         /\ fm_todo[1][2] \in Setup!Env \/ fm_todo[1][1] = "free" => phase = "leaving"
         /\ ~Setup!Making'
         /\ ~Setup!Complete'
         /\ (probed => Setup!Ahead("unbind", "g_fm")')
         /\ (published => Setup!Ahead("unpublish", "fm")')
<1> DEFINE x == fm_todo[1]
<1>1. /\ \A y \in Setup!SetOf(fm_todo') : y \in Setup!SetOf(fm_todo) /\ y[1] \in Setup!Undoers /\
           Setup!Follows(x, y) /\ Setup!Fine(y)
      /\ \A verb, p : (Setup!Ahead(verb, p)' => Setup!Ahead(verb, p)) /\
           (Setup!Ahead(verb, p) => Setup!Ahead(verb, p)' \/ Setup!Is(x, verb, p))
      /\ \A p : Setup!UndoneAhead(p) => Setup!UndoneAhead(p)' \/ p = x[2]
      /\ x[1] \in Setup!Undoers /\ Setup!Fine(x) /\ x \in Setup!SetOf(fm_todo)
  BY RemovalBasics
<1>2. Setup!IInv /\ fm_todo # <<>>
  BY DEF Removal
<1>3. /\ ~Setup!Making
      /\ \A y \in Setup!SetOf(fm_todo) : y[1] \in Setup!Undoers /\
           (phase # "leaving" => y[2] \in Setup!DeviceObjects)
      /\ \A o \in (live \intersect Setup!Device) \ Setup!DeviceLeftover : Setup!UndoneAhead(o)
      /\ probed => Setup!Ahead("unbind", "g_fm")
      /\ published => Setup!Ahead("unpublish", "fm")
  BY <1>1, <1>2, InUndoing
<1>4. \A p \in (live' \intersect Setup!Device) \ Setup!DeviceLeftover : Setup!UndoneAhead(p)' /\
    ~(Setup!Is(x, "drop", "fm") /\ p \in Setup!Fm)
  <2> SUFFICES ASSUME NEW p \in (live' \intersect Setup!Device) \ Setup!DeviceLeftover
               PROVE  Setup!UndoneAhead(p)' /\ ~(Setup!Is(x, "drop", "fm") /\ p \in Setup!Fm)
    OBVIOUS
  <2>1. Setup!UndoneAhead(p) /\ p # x[2]
    BY <1>3 DEF Removal
  <2>2. Setup!UndoneAhead(p)'
    BY <1>1, <2>1
  <2>3. PICK y \in Setup!SetOf(fm_todo') : y[2] = p
    BY <2>2 DEF Setup!UndoneAhead, Setup!Undoes
  <2> QED BY <1>1, <2>2, <2>3 DEF Setup!Follows
<1>5. x[2] \in Setup!Env \/ x[1] = "free" => phase = "leaving"
  <2>1. x[1] = "free" => x[2] \in Setup!Env
    BY <1>1, ObjectSets DEF Setup!Fine, Setup!Link
  <2>2. Setup!Env \intersect Setup!DeviceObjects = {}
    BY ObjectSets DEF Setup!DeviceObjects
  <2> QED BY <1>1, <1>3, <2>1, <2>2
<1>6. /\ ~Setup!Making'
      /\ (probed => Setup!Ahead("unbind", "g_fm")')
      /\ (published => Setup!Ahead("unpublish", "fm")')
  <2>1. x[1] \notin {"unbind", "unpublish"}
    BY DEF Removal
  <2> QED BY <1>1, <1>3, <2>1 DEF Setup!Making, Setup!Is
<1>7. ~Setup!Complete'
  <2>1. fm_todo' = <<>> => ~Setup!Ahead("unbind", "g_fm")'
    BY DEF Setup!Ahead, Setup!SetOf
  <2> QED BY <1>6, <2>1 DEF Setup!Complete, Removal
<1> QED BY <1>4, <1>5, <1>6, <1>7

LEMMA RemovalKeeps == ASSUME Removal PROVE Setup!IInv'
<1> DEFINE x == fm_todo[1]
           o == fm_todo[1][2]
           T == Setup!SetOf(fm_todo')
<1>1. /\ Setup!Types /\ Setup!Routine /\ Setup!Made /\ Setup!Pointers /\ Setup!Misuse /\ Setup!References /\
           Setup!DeviceInv /\ Setup!EnvInv /\ Setup!LnaInv /\ Setup!Known /\ Setup!ResetInv
      /\ Went /\ Setup!Routine' /\ fm_todo' \in Seq(T) /\ Setup!Fine(x) /\ x \in Setup!SetOf(fm_todo)
      /\ Setup!DeviceLeftover' = Setup!DeviceLeftover /\ Setup!EnvLeftover' = Setup!EnvLeftover /\
           (Setup!Excuse <=> Setup!Excuse')
      /\ x[1] \in Setup!Undoers
      /\ held' \subseteq held
      /\ \A p \in held : p \in held' \/ p = o \/ (Setup!Is(x, "drop", "fm") /\ p \in Setup!Fm)
  BY RemovalBasics
<1>2. /\ \A y \in T : y \in Setup!SetOf(fm_todo) /\ y[1] \in Setup!Undoers /\ Setup!Follows(x, y) /\
           Setup!Fine(y)
      /\ \A verb, p : (Setup!Ahead(verb, p)' => Setup!Ahead(verb, p)) /\
           (Setup!Ahead(verb, p) => Setup!Ahead(verb, p)' \/ Setup!Is(x, verb, p))
      /\ \A p : Setup!UndoneAhead(p) => Setup!UndoneAhead(p)' \/ p = o
  BY RemovalBasics
<1>3. /\ \A p \in (live' \intersect Setup!Device) \ Setup!DeviceLeftover : Setup!UndoneAhead(p)' /\
           ~(Setup!Is(x, "drop", "fm") /\ p \in Setup!Fm)
      /\ o \in Setup!Env \/ x[1] = "free" => phase = "leaving"
      /\ ~Setup!Making'
      /\ ~Setup!Complete'
      /\ (probed => Setup!Ahead("unbind", "g_fm")')
      /\ (published => Setup!Ahead("unpublish", "fm")')
  BY RemovalOfDevice
<1>4. /\ broken = "no" /\ fm_todo # <<>> /\ fm_todo' = Tail(fm_todo) /\ Setup!IInv
      /\ UNCHANGED <<phase, fm_build, binds, failed, probed, published, rst_queued, broken>>
      /\ x[1] \in {"put", "free", "drop"} /\ o \in held /\ o \in live /\ live' = live \ {o}
  BY DEF Removal
<1>5. phase \in {"probing", "unbinding", "leaving"}
  BY <1>1, <1>4, InUndoing
<1>6. Setup!Types'
  <2>1. ref' \in [Setup!Counted -> Int]
    BY DEF Removal
  <2> QED BY <1>1, <1>4, <2>1 DEF Setup!Types
<1>7. Setup!Made'
  BY <1>1, <1>2, <1>4 DEF Setup!Made
<1>8. Setup!Pointers'
  <2>1. ASSUME NEW p \in live' \intersect (Setup!Env \union Setup!Platform) PROVE p \in held'
    <3>1. p \in held /\ p # o /\ p \notin Setup!Fm
      BY <1>1, <1>4, <2>1, ObjectSets DEF Setup!Pointers, Setup!Platform
    <3> QED BY <1>1, <3>1
  <2>2. ASSUME NEW p \in live' \intersect Setup!Device, p \notin Setup!DeviceLeftover PROVE p \in held'
    <3>1. p \in held /\ p # o /\ ~(Setup!Is(x, "drop", "fm") /\ p \in Setup!Fm)
      BY <1>1, <1>3, <1>4, <2>2 DEF Setup!Pointers
    <3> QED BY <1>1, <3>1
  <2>3. o \in Setup!Fm \union {"fm"} => o \notin held'
    <3>1. o \in Setup!Fm \union {"fm"} => x[1] # "free"
      BY <1>1, ObjectSets DEF Setup!Fine, Setup!Link
    <3> QED BY <3>1 DEF Removal, Setup!Reached
  <2>4. held' \intersect (Setup!Fm \union {"fm"}) \subseteq live'
    BY <1>1, <1>4, <2>3 DEF Setup!Pointers
  <2>5. held' \intersect Setup!Fm # {} => "fm" \in held'
    <3>1. CASE o = "fm"
      <4>1. x[1] = "drop"
        BY <1>1, <1>4, <3>1, ObjectSets DEF Setup!Fine, Setup!Link
      <4> QED BY <3>1, <4>1 DEF Removal, Setup!Reached
    <3>2. CASE o # "fm"
      BY <1>1, <3>2 DEF Setup!Pointers, Setup!Is
    <3> QED BY <3>1, <3>2
  <2>6. phase' \notin {"leaving", "gone"} => held' \intersect Setup!Env \subseteq live'
    BY <1>1, <1>3, <1>4 DEF Setup!Pointers
  <2> QED BY <1>1, <2>1, <2>2, <2>4, <2>5, <2>6 DEF Setup!Pointers
<1>9. Setup!Misuse'
  <2> SUFFICES ASSUME ~Setup!Excuse
               PROVE  /\ Setup!FreedOnce(fm_todo)'
                      /\ \A p \in held' \ live' :
                           \/ p \in {"library", "low_ops_unregister"}
                           \/ /\ p \in {"evt_fifo", "cmd_fifo", "link_event"} /\ phase \in {"leaving", "gone"}
                              /\ \A y \in T : Setup!Untouched(p, y)
    BY <1>1, <1>4 DEF Setup!Misuse
  <2>1. Setup!FreedOnce(fm_todo)' /\ \A y \in T : x[1] = "free" => Setup!Untouched(o, y)
    BY <1>1, <1>4, FreedOnceGoesOn DEF Setup!Misuse
  <2>2. ASSUME NEW p \in held' \ live', p # o
        PROVE  \/ p \in {"library", "low_ops_unregister"}
               \/ /\ p \in {"evt_fifo", "cmd_fifo", "link_event"} /\ phase \in {"leaving", "gone"}
                  /\ \A y \in T : Setup!Untouched(p, y)
    <3>1. p \in held \ live
      BY <1>1, <1>4, <2>2
    <3> QED BY <1>1, <1>2, <3>1 DEF Setup!Misuse
  <2>3. ASSUME o \in held' \ live'
        PROVE  o \in {"evt_fifo", "cmd_fifo", "link_event"} /\ phase = "leaving" /\
            \A y \in T : Setup!Untouched(o, y)
    <3>1. x[1] = "free"
      BY <1>4, <2>3 DEF Removal, Setup!Reached
    <3> QED BY <1>1, <1>3, <2>1, <3>1, ObjectSets DEF Setup!Fine, Setup!Link
  <2> QED BY <2>1, <2>2, <2>3
<1>10. Setup!References'
  <2>1. ASSUME NEW p \in held' \intersect (Setup!Counted \ {"rds_data"})
        PROVE  (p \in Setup!Locks /\ Setup!Any(Setup!Locks \ {"fm_rtc_mutex"})') \/
            ref'[p] = IF Setup!Ahead("get", p)' THEN 0 ELSE 1
    <3>1. (p \in Setup!Locks /\ Setup!Any(Setup!Locks \ {"fm_rtc_mutex"})) \/
        ref[p] = IF Setup!Ahead("get", p) THEN 0 ELSE 1
      BY <1>1, <2>1 DEF Setup!References
    <3>2. ref'[p] = ref[p]
      <4>1. p = o => x[1] # "put"
        BY <2>1 DEF Removal
      <4> QED BY <2>1, <4>1 DEF Removal
    <3>3. Setup!Ahead("get", p) <=> Setup!Ahead("get", p)'
      BY <1>2, <1>4 DEF Setup!Is
    <3> QED BY <1>4, <3>1, <3>2, <3>3 DEF Setup!Any
  <2>2. \A y \in T : y[1] # "get"
    BY <1>2 DEF Setup!Undoers
  <2> QED BY <2>1, <2>2 DEF Setup!References
<1>11. Setup!DeviceInv'
  BY <1>1, <1>3, <1>4 DEF Setup!DeviceInv
<1>12. Setup!EnvInv'
  <2>2. /\ o \notin {"library", "low_ops_unregister"}
        /\ {"library", "low_ops_unregister", "cmd_buf_lock"} \intersect Setup!Fm = {}
    BY <1>1, <1>4, ObjectSets DEF Setup!Fine, Setup!Link, Setup!Platform
  <2>3. /\ ("library" \in held' <=> "library" \in held)
        /\ ("low_ops_unregister" \in held' <=> "low_ops_unregister" \in held)
    BY <1>1, <2>2
  <2>4. phase \notin {"leaving", "gone"} =>
          /\ \A p \in Setup!Env : p \in live' \/ Setup!Ahead("new", p)' \/ p \in {"regs", "cmd_buf_lock"}
                                   \/ (p = "fm_rtc_mutex" /\ p \in failed')
          /\ "cmd_buf_lock" \in live' \/ Setup!Ahead("need", "cmd_buf_lock")'
    <3> SUFFICES ASSUME phase \notin {"leaving", "gone"}
                 PROVE  /\ \A p \in Setup!Env : p \in live' \/ Setup!Ahead("new", p)' \/
                             p \in {"regs", "cmd_buf_lock"}
                                                 \/ (p = "fm_rtc_mutex" /\ p \in failed')
                        /\ "cmd_buf_lock" \in live' \/ Setup!Ahead("need", "cmd_buf_lock")'
      OBVIOUS
    <3>1. o \notin Setup!Env /\ "cmd_buf_lock" \in Setup!Env
      BY <1>3, ObjectSets
    <3>2. \A p : ~Setup!Is(x, "new", p) /\ ~Setup!Is(x, "need", p)
      BY <1>4 DEF Setup!Is
    <3> QED BY <1>1, <1>2, <1>4, <3>1, <3>2 DEF Setup!EnvInv
  <2>5. phase \in {"leaving", "gone"} => \A p \in live' \intersect (Setup!Env \union Setup!Platform) :
      p \in Setup!EnvLeftover' \/ Setup!UndoneAhead(p)'
    BY <1>1, <1>2, <1>4 DEF Setup!EnvInv
  <2>6. "library" \notin held' =>
          /\ live' \intersect (Setup!Env \union Setup!Platform) \subseteq {"regs"}
          /\ phase \in {"leaving", "gone"}
    BY <1>1, <1>4, <1>5, <2>3 DEF Setup!EnvInv
  <2>7. "cmd_buf_lock" \notin held' =>
          /\ phase \in {"leaving", "gone"}
          /\ Setup!Ahead("orstop", "cmd_buf_lock")' =>
               live' \intersect (Setup!Env \union Setup!Platform) \subseteq {"regs", "cmd_buf"}
    <3>1. CASE "cmd_buf_lock" \notin held
      BY <1>1, <1>2, <1>4, <1>5, <3>1 DEF Setup!EnvInv
    <3>2. CASE "cmd_buf_lock" \in held /\ "cmd_buf_lock" \notin held'
      <4>1. o = "cmd_buf_lock"
        BY <1>1, <2>2, <3>2
      <4>2. phase = "leaving" /\ x[1] = "put"
        BY <1>1, <1>3, <1>4, <4>1, ObjectSets DEF Setup!Fine, Setup!Link, Setup!Platform
      <4>3. ~Setup!Ahead("orstop", "cmd_buf_lock")'
        BY <1>2, <4>1, <4>2 DEF Setup!Ahead, Setup!Is, Setup!Follows
      <4> QED BY <4>2, <4>3
    <3> QED BY <3>1, <3>2
  <2>8. /\ ("low_ops_unregister" \in held' <=> fm_build'[1] = "wmt")
        /\ (live' \intersect {"regs", "irq"} # {} => fm_build'[1] = "conninfra")
    BY <1>1, <1>4, <2>3 DEF Setup!EnvInv
  <2> QED BY <1>4, <2>4, <2>5, <2>6, <2>7, <2>8 DEF Setup!EnvInv
<1>13. Setup!LnaInv'
  <2>1. "lna" \in live' => "lna" # o /\ "lna" \in live /\ "lna" \notin Setup!Fm
    BY <1>4, ObjectSets
  <2> QED BY <1>1, <1>2, <1>4, <2>1 DEF Setup!LnaInv
<1>14. Setup!Known'
  BY <1>1, <1>4 DEF Setup!Known
<1>15. Setup!ResetInv'
  <2>1. rst_queued => {"fm", "timer_wkthd", "rst_wk"} \subseteq live'
    <3> SUFFICES ASSUME rst_queued PROVE o \notin {"fm", "timer_wkthd", "rst_wk"}
      BY <1>1, <1>4 DEF Setup!ResetInv
    <3>1. o # "timer_wkthd"
      BY DEF Removal
    <3>2. "timer_wkthd" \in (live' \intersect Setup!Device) \ Setup!DeviceLeftover /\ "timer_wkthd" \in Setup!Fm
      BY <1>1, <1>4, <3>1, ObjectSets DEF Setup!ResetInv, Setup!DeviceLeftover
    <3>3. PICK y \in T : Setup!Undoes(y, "timer_wkthd")
      BY <1>3, <3>2 DEF Setup!UndoneAhead
    <3>4. Setup!Is(y, "put", "timer_wkthd")
      BY <1>2, <3>3, ObjectSets DEF Setup!Fine, Setup!Undoes, Setup!Is, Setup!Link, Setup!Platform
    <3>5. ~Setup!Is(x, "drop", "fm") /\ ~Setup!Is(x, "put", "rst_wk")
      BY <1>2, <1>3, <3>2, <3>4 DEF Setup!Follows
    <3>6. o = "fm" => x[1] = "drop"
      BY <1>1, <1>4, ObjectSets DEF Setup!Fine, Setup!Link
    <3>7. o = "rst_wk" => x[1] = "put"
      BY <1>1, <1>4, ObjectSets DEF Setup!Fine, Setup!Link, Setup!Platform
    <3> QED BY <3>1, <3>5, <3>6, <3>7 DEF Setup!Is
  <2> QED BY <1>1, <1>4, <2>1 DEF Setup!ResetInv, Setup!ResetFindsAll
<1> QED BY <1>1, <1>6, <1>7, <1>8, <1>9, <1>10, <1>11, <1>12, <1>13, <1>14, <1>15 DEF Setup!IInv

\* fm_ops_unregister returns early.
LEMMA StopsKeeps ==
  ASSUME Setup!IInv, broken = "no", fm_todo # <<>>, fm_todo[1][1] = "orstop", fm_todo[1][2] \notin held,
      fm_todo' = <<>>,
         UNCHANGED <<phase, fm_build, live, held, ref, failed, probed, published, rst_queued, binds, broken>>
  PROVE  Setup!IInv'
<1> DEFINE x == fm_todo[1]
           R == Setup!SetOf(Tail(fm_todo))
<1>1. Setup!Types /\ Setup!Routine /\ Setup!Made /\ Setup!Pointers /\ Setup!Misuse /\ Setup!References /\
    Setup!DeviceInv /\ Setup!EnvInv /\ Setup!LnaInv /\ Setup!Known /\ Setup!ResetInv
  BY DEF Setup!IInv
<1>2. /\ Setup!SetOf(fm_todo) = {x} \union R /\ Setup!SetOf(fm_todo') = {} /\ Setup!Fine(x)
      /\ \A y \in R : /\ y[1] \in {"orstop", "put", "drop"}
                      /\ y[2] \in Setup!Locks \union {"cmd_buf_lock", "cmd_buf", "fm_timer_sys", "library",
                           "low_ops_unregister"}
                      /\ x[2] = "cmd_buf_lock" => y[2] # "cmd_buf"
  <2>1. Setup!SetOf(fm_todo) = {x} \union R /\ \A y \in R : Setup!Follows(x, y)
    BY <1>1, Tails DEF Setup!Types, Setup!Routine, IsSeq
  <2>2. Setup!SetOf(fm_todo') = {}
    BY DEF Setup!SetOf
  <2> QED BY <1>1, <2>1, <2>2, FirstIsFine DEF Setup!Follows, Setup!Is
<1>3. /\ \A o : Setup!UndoneAhead(o) =>
             /\ o \in Setup!Locks \union {"cmd_buf_lock", "cmd_buf", "fm_timer_sys", "library",
                  "low_ops_unregister"}
             /\ x[2] = "cmd_buf_lock" => o # "cmd_buf"
      /\ ~Setup!Ahead("unbind", "g_fm") /\ ~Setup!Ahead("unpublish", "fm")
  BY <1>2 DEF Setup!UndoneAhead, Setup!Undoes, Setup!Ahead, Setup!Is
<1>4. /\ ~Setup!Making /\ phase = "leaving" /\ \A y \in Setup!SetOf(fm_todo) : y[1] \in Setup!Undoers
      /\ \A o \in (live \intersect Setup!Device) \ Setup!DeviceLeftover : Setup!UndoneAhead(o)
      /\ ~probed /\ ~published
  <2>1. x[1] \in Setup!Undoers /\ x[2] \notin Setup!DeviceObjects /\ x \in Setup!SetOf(fm_todo)
    BY <1>2, ObjectSets DEF Setup!Undoers, Setup!DeviceObjects, Setup!Fine
  <2> QED BY <1>3, <2>1, InUndoing
<1>5. live \intersect Setup!Device \subseteq Setup!DeviceLeftover
  BY <1>3, <1>4, ObjectSets
<1>6. /\ \A verb, o : ~Setup!Ahead(verb, o)' /\ (verb \in {"get", "new", "need"} => ~Setup!Ahead(verb, o))
      /\ \A o : ~Setup!UndoneAhead(o)'
  BY <1>2, <1>4 DEF Setup!Ahead, Setup!UndoneAhead, Setup!Is, Setup!Undoers
<1>7. /\ Setup!DeviceLeftover' = Setup!DeviceLeftover
      /\ Setup!EnvLeftover' = Setup!EnvLeftover
      /\ (Setup!Excuse <=> Setup!Excuse')
  BY DEF Setup!DeviceLeftover, Setup!EnvLeftover, Setup!Excuse, Setup!Any
<1>8. Setup!Types'
  <2>1. fm_todo' \in Seq(Setup!SetOf(fm_todo'))
    OBVIOUS
  <2> QED BY <1>1, <2>1 DEF Setup!Types
<1>9. Setup!Routine'
  BY <1>2, <1>4 DEF Setup!Routine, Setup!InOrder, Setup!TakenAtOnce
<1>10. Setup!Made' /\ Setup!Pointers'
  BY <1>1, <1>2, <1>7 DEF Setup!Made, Setup!Pointers
<1>11. Setup!Misuse'
  <2>1. Setup!FreedOnce(fm_todo)'
    BY DEF Setup!FreedOnce
  <2> QED BY <1>1, <1>2, <1>4, <1>7, <2>1 DEF Setup!Misuse
<1>12. Setup!References'
  BY <1>1, <1>2, <1>6 DEF Setup!References, Setup!Any
<1>13. Setup!DeviceInv'
  BY <1>4, <1>5, <1>6, <1>7 DEF Setup!DeviceInv, Setup!Complete, Setup!Making
<1>14. Setup!EnvInv'
  <2>1. ASSUME NEW o \in live \intersect (Setup!Env \union Setup!Platform), o \notin Setup!EnvLeftover
         PROVE FALSE
    <3>1. Setup!UndoneAhead(o)
      BY <1>1, <1>4, <2>1 DEF Setup!EnvInv
    <3>2. o \in Setup!Env \ Setup!Link
      BY <1>3, <2>1, <3>1, ObjectSets DEF Setup!Platform, Setup!Link
    <3>3. o # "regs"
      BY <1>3, <3>1, ObjectSets
    <3>4. fm_build[1] = "wmt"
      <4>1. fm_build[1] # "conninfra"
        BY <2>1, <3>2 DEF Setup!EnvLeftover
      <4> QED BY <1>1, <4>1, KnownBuild DEF Setup!Types
    <3>5. CASE x[2] = "library"
      BY <1>1, <2>1, <3>3, <3>5 DEF Setup!EnvInv
    <3>6. CASE x[2] = "low_ops_unregister"
      BY <1>1, <3>4, <3>6 DEF Setup!EnvInv
    <3>7. CASE x[2] = "cmd_buf_lock"
      <4>1. Setup!Ahead("orstop", "cmd_buf_lock")
        BY <1>2, <3>7 DEF Setup!Ahead, Setup!Is
      <4>2. o \in {"regs", "cmd_buf"}
        BY <1>1, <1>4, <2>1, <3>7, <4>1 DEF Setup!EnvInv
      <4> QED BY <1>3, <3>1, <3>3, <3>7, <4>2
    <3> QED BY <1>2, <3>5, <3>6, <3>7 DEF Setup!Fine
  <2>2. \A o \in live' \intersect (Setup!Env \union Setup!Platform) : o \in Setup!EnvLeftover'
    BY <1>7, <2>1
  <2>3. "library" \notin held => live \intersect (Setup!Env \union Setup!Platform) \subseteq {"regs"}
    BY <1>1 DEF Setup!EnvInv
  <2>4. /\ ("low_ops_unregister" \in held' <=> fm_build'[1] = "wmt")
        /\ (live' \intersect {"regs", "irq"} # {} => fm_build'[1] = "conninfra")
    BY <1>1 DEF Setup!EnvInv
  <2> QED BY <1>4, <1>6, <2>2, <2>3, <2>4 DEF Setup!EnvInv
<1>15. Setup!LnaInv'
  <2>1. ~Setup!UndoneAhead("lna")
    BY <1>3, ObjectSets
  <2> QED BY <1>1, <1>4, <1>6, <2>1 DEF Setup!LnaInv
<1>16. Setup!Known' /\ Setup!ResetInv'
  BY <1>1 DEF Setup!Known, Setup!ResetInv, Setup!ResetFindsAll
<1> QED BY <1>8, <1>9, <1>10, <1>11, <1>12, <1>13, <1>14, <1>15, <1>16 DEF Setup!IInv

\* Nothing but what "broken" and the reset's work say is changed.
LEMMA SameKeeps ==
  ASSUME Setup!IInv, UNCHANGED <<fm_build, phase, fm_todo, live, held, ref, failed, probed, published, binds>>,
         broken' = "misuse" => Setup!Excuse, broken' \in {"no", "misuse", "reset", "work"},
         rst_queued' \in BOOLEAN, Setup!ResetInv'
  PROVE  Setup!IInv'
<1>1. Setup!Types /\ Setup!Routine /\ Setup!Made /\ Setup!Pointers /\ Setup!Misuse /\ Setup!References /\
    Setup!DeviceInv /\ Setup!EnvInv /\ Setup!LnaInv /\ Setup!Known /\ Setup!ResetInv
  BY DEF Setup!IInv
<1>2. /\ \A verb, o : Setup!Ahead(verb, o)' <=> Setup!Ahead(verb, o)
      /\ \A o : Setup!UndoneAhead(o)' <=> Setup!UndoneAhead(o)
      /\ \A y : Setup!Fine(y)' <=> Setup!Fine(y)
      /\ Setup!DeviceLeftover' = Setup!DeviceLeftover /\ Setup!EnvLeftover' = Setup!EnvLeftover /\
           (Setup!Excuse <=> Setup!Excuse')
      /\ (Setup!Making' <=> Setup!Making) /\ (Setup!Complete' <=> Setup!Complete)
      /\ (Setup!Any(Setup!Locks \ {"fm_rtc_mutex"})' <=> Setup!Any(Setup!Locks \ {"fm_rtc_mutex"}))
  BY DEF Setup!Ahead, Setup!UndoneAhead, Setup!Fine, Setup!DeviceLeftover, Setup!EnvLeftover, Setup!Excuse,
      Setup!Any, Setup!Making, Setup!Complete
<1>3. Setup!Types'
  BY <1>1 DEF Setup!Types
<1>4. Setup!Routine'
  BY <1>1, <1>2 DEF Setup!Routine, Setup!IsAbout
<1>5. Setup!Made' /\ Setup!Pointers' /\ Setup!References' /\ Setup!Known' /\ Setup!LnaInv'
  BY <1>1, <1>2 DEF Setup!Made, Setup!Pointers, Setup!References, Setup!Known, Setup!LnaInv
<1>6. Setup!Misuse'
  BY <1>1, <1>2 DEF Setup!Misuse
<1>7. Setup!DeviceInv'
  BY <1>1, <1>2 DEF Setup!DeviceInv
<1>8. Setup!EnvInv'
  BY <1>1, <1>2 DEF Setup!EnvInv
<1> QED BY <1>3, <1>4, <1>5, <1>6, <1>7, <1>8 DEF Setup!IInv

LEMMA MisusesKeeps == ASSUME Setup!IInv, NEW o, Setup!Misuses(o), UNCHANGED Setup!kept_vars PROVE Setup!IInv'
<1>1. /\ fm_todo # <<>> /\ fm_todo[1][1] \in {"put", "free", "drop"} /\ fm_todo[1][2] = o /\ broken' = "misuse"
      /\ UNCHANGED <<fm_build, phase, fm_todo, live, held, ref, failed, probed, published, rst_queued, binds>>
  BY DEF Setup!Misuses, Setup!At, Setup!kept_vars
<1>2. Setup!Types /\ Setup!Routine /\ Setup!Misuse /\ Setup!ResetInv
  BY DEF Setup!IInv
<1>3. Setup!Fine(fm_todo[1]) /\ fm_todo[1] \in Setup!SetOf(fm_todo)
  BY <1>1, <1>2, FirstIsFine
<1>4. Setup!Excuse
  <2> SUFFICES ASSUME ~Setup!Excuse PROVE FALSE
    OBVIOUS
  <2>1. PICK p \in {o, Setup!Holder(o)} : p \in held \ live
    BY DEF Setup!Misuses, Setup!Misused
  <2>2. p \notin {"library", "low_ops_unregister"}
    BY <1>1, <1>3, <2>1, ObjectSets DEF Setup!Fine, Setup!Holder, Setup!Link, Setup!Platform
  <2>3. Setup!Untouched(p, fm_todo[1])
    BY <1>2, <1>3, <2>1, <2>2 DEF Setup!Misuse
  <2> QED BY <1>1, <2>1, <2>3 DEF Setup!Untouched
<1>5. Setup!ResetInv'
  BY <1>1, <1>2 DEF Setup!ResetInv, Setup!ResetFindsAll
<1> QED BY <1>1, <1>2, <1>4, <1>5, SameKeeps DEF Setup!Types

\* Every step of a routine keeps the invariant.
LEMMA MakesOrFails ==
  ASSUME Setup!IInv, NEW o, Setup!Fails(o), UNCHANGED Setup!kept_vars
  PROVE  Setup!IInv'
<1> DEFINE x == fm_todo[1]
<1>1. /\ broken = "no" /\ fm_todo # <<>> /\ x[1] = "new" /\ x[2] = o /\ failed' = failed \union {o}
      /\ UNCHANGED <<fm_build, binds, live, ref, probed, published, rst_queued, broken>>
      /\ held' = IF o = "class" THEN held \union {o} ELSE held
  BY DEF Setup!Fails, Setup!At, Setup!kept_vars
<1>2. Setup!Types /\ Setup!Routine /\ Setup!Fine(x) /\ phase \in {"setup", "probing"}
  <2>1. Setup!Types /\ Setup!Routine
    BY DEF Setup!IInv
  <2>2. x[1] \in Setup!Makers
    BY <1>1 DEF Setup!Makers
  <2> QED BY <1>1, <2>1, <2>2, FirstIsFine, InMaking
<1>3. CASE x[3] = "go"
  <2>1. o # "class" /\ fm_todo' = Tail(fm_todo) /\ phase' = phase
    BY <1>1, <1>2, <1>3, ObjectSets DEF Setup!Fine, Setup!Fails, Setup!GoesAnotherWay
  <2>2. ref \in [Setup!Counted -> Int] /\ failed \subseteq failed'
    BY <1>1, <1>2 DEF Setup!Types
  <2>3. Calm
    BY <1>1, <1>3, <2>1, <2>2 DEF Calm
  <2> QED BY <2>3, CalmKeeps
<1>4. CASE x[3] # "go"
  <2>1. x[3] \in Setup!Ways
    BY <1>1, <1>2, <1>4 DEF Setup!Fine
  <2>2. fm_todo' = Setup!Way[x[3]] /\ phase' = IF phase = "probing" THEN phase ELSE "leaving"
    BY <1>4 DEF Setup!Fails, Setup!GoesAnotherWay
  <2>3. held' = held \/ (held' = held \union {"class"} /\ "class" \in failed')
    BY <1>1
  <2> QED BY <1>1, <2>1, <2>2, <2>3, GivesUpKeeps
<1> QED BY <1>3, <1>4

LEMMA NeedsKeeps == ASSUME Setup!IInv, NEW o, Setup!Needs(o), UNCHANGED Setup!kept_vars PROVE Setup!IInv'
<1> DEFINE x == fm_todo[1]
<1>1. /\ broken = "no" /\ fm_todo # <<>> /\ x[1] = "need" /\ x[2] = o
      /\ UNCHANGED <<fm_build, binds, live, held, ref, failed, probed, published, rst_queued, broken>>
  BY DEF Setup!Needs, Setup!At, Setup!kept_vars
<1>2. Setup!Types /\ Setup!Routine /\ Setup!Fine(x)
  BY <1>1, FirstIsFine DEF Setup!IInv
<1>3. CASE o \in held
  <2>1. fm_todo' = Tail(fm_todo) /\ phase' = phase
    BY <1>3 DEF Setup!Needs
  <2>2. Calm
    BY <1>1, <1>2, <1>3, <2>1 DEF Calm, Setup!Types
  <2> QED BY <2>2, CalmKeeps
<1>4. CASE o \notin held
  <2>1. x[3] = "env" /\ "env" \in Setup!Ways
    BY <1>1, <1>2 DEF Setup!Fine, Setup!Ways
  <2>2. fm_todo' = Setup!Way[x[3]] /\ phase' = IF phase = "probing" THEN phase ELSE "leaving"
    BY <1>4, <2>1 DEF Setup!Needs, Setup!GoesAnotherWay
  <2> QED BY <1>1, <1>4, <2>1, <2>2, GivesUpKeeps
<1> QED BY <1>3, <1>4

LEMMA StopsWithoutKeeps == ASSUME Setup!IInv, NEW o, Setup!StopsWithout(o), UNCHANGED Setup!kept_vars
  PROVE Setup!IInv'
<1> DEFINE x == fm_todo[1]
<1>1. /\ broken = "no" /\ fm_todo # <<>> /\ x[1] = "orstop" /\ x[2] = o
      /\ UNCHANGED <<fm_build, binds, phase, live, held, ref, failed, probed, published, rst_queued, broken>>
  BY DEF Setup!StopsWithout, Setup!At, Setup!kept_vars
<1>2. CASE o \in held
  <2>1. fm_todo' = Tail(fm_todo) /\ Setup!Types
    BY <1>2 DEF Setup!StopsWithout, Setup!IInv
  <2>2. Calm
    BY <1>1, <1>2, <2>1 DEF Calm, Setup!Types
  <2> QED BY <2>2, CalmKeeps
<1>3. CASE o \notin held
  BY <1>1, <1>3, StopsKeeps DEF Setup!StopsWithout
<1> QED BY <1>2, <1>3

LEMMA GetsKeeps == ASSUME Setup!IInv, NEW o, Setup!Gets(o), UNCHANGED Setup!kept_vars PROVE Setup!IInv'
<1> DEFINE x == fm_todo[1]
<1>1. /\ broken = "no" /\ fm_todo # <<>> /\ x[1] = "get" /\ x[2] = o /\ fm_todo' = Tail(fm_todo)
      /\ UNCHANGED <<fm_build, binds, phase, live, held, failed, probed, published, rst_queued, broken>>
      /\ ref' = IF o \in held THEN [ref EXCEPT ![o] = @ + 1] ELSE ref
  BY DEF Setup!Gets, Setup!At, Setup!kept_vars
<1>2. Setup!Types /\ o \in Setup!Counted
  BY <1>1, FirstIsFine DEF Setup!IInv, Setup!Fine
<1>3. /\ ref' \in [Setup!Counted -> Int] /\ \A p \in Setup!Counted : p # o => ref'[p] = ref[p]
      /\ o \in held => ref'[o] = ref[o] + 1
  BY <1>1, <1>2 DEF Setup!Types
<1>4. Calm
  BY <1>1, <1>3 DEF Calm
<1> QED BY <1>4, CalmKeeps

LEMMA PutsKeeps == ASSUME Setup!IInv, NEW o, Setup!Puts(o), UNCHANGED Setup!kept_vars PROVE Setup!IInv'
<1> DEFINE x == fm_todo[1]
<1>1. /\ broken = "no" /\ fm_todo # <<>> /\ x[1] = "put" /\ x[2] = o /\ fm_todo' = Tail(fm_todo)
      /\ UNCHANGED <<fm_build, binds, phase, failed, probed, published, rst_queued, broken>>
      /\ ~Setup!Misused(o) /\ (o = "timer_wkthd" => ~rst_queued)
      /\ IF o \notin held THEN UNCHANGED <<live, held, ref>>
         ELSE /\ ref' = [ref EXCEPT ![o] = @ - 1]
              /\ IF ref[o] = 1 THEN live' = live \ {o} /\ held' = held \ {o} ELSE UNCHANGED <<live, held>>
  BY DEF Setup!Puts, Setup!At, Setup!kept_vars
<1>2. Setup!Types /\ Setup!References /\ o \in Setup!Counted \ {"rds_data"}
  BY <1>1, FirstIsFine DEF Setup!IInv, Setup!Fine
<1>3. ref' \in [Setup!Counted -> Int] /\ \A p \in Setup!Counted : p # o => ref'[p] = ref[p]
  BY <1>1, <1>2 DEF Setup!Types
<1>4. CASE o \in held /\ ref[o] = 1
  <2>1. o \in live
    BY <1>1, <1>4 DEF Setup!Misused
  <2>2. live' = live \ {o} /\ held' = held \ {o}
    BY <1>1, <1>4
  <2>3. Removal
    BY <1>1, <1>3, <1>4, <2>1, <2>2 DEF Removal
  <2> QED BY <2>3, RemovalKeeps
<1>5. CASE ~(o \in held /\ ref[o] = 1)
  <2>1. o \notin held \/ (o \in Setup!Locks /\ Setup!Any(Setup!Locks \ {"fm_rtc_mutex"}))
    <3>1. ~Setup!Ahead("get", o)
      <4>1. \A y \in Setup!SetOf(fm_todo) : y[1] \in Setup!Undoers
        BY <1>1, InUndoing DEF Setup!Undoers
      <4> QED BY <4>1 DEF Setup!Ahead, Setup!Is, Setup!Undoers
    <3> QED BY <1>2, <1>5, <3>1 DEF Setup!References
  <2>2. UNCHANGED <<live, held>>
    BY <1>1, <1>5
  <2>3. Calm
    BY <1>1, <1>3, <2>1, <2>2 DEF Calm
  <2> QED BY <2>3, CalmKeeps
<1> QED BY <1>4, <1>5

LEMMA FreesKeeps == ASSUME Setup!IInv, NEW o, Setup!Frees(o), UNCHANGED Setup!kept_vars PROVE Setup!IInv'
<1> DEFINE x == fm_todo[1]
<1>1. /\ broken = "no" /\ fm_todo # <<>> /\ x[1] \in {"free", "drop"} /\ x[2] = o /\ fm_todo' = Tail(fm_todo)
      /\ UNCHANGED <<fm_build, binds, phase, ref, failed, probed, published, rst_queued, broken>>
      /\ ~Setup!Misused(o) /\ live' = live \ (held \intersect {o})
      /\ held' = IF x[1] = "drop" THEN Setup!Reached(o) ELSE held
  BY DEF Setup!Frees, Setup!At, Setup!kept_vars
<1>2. Setup!Types /\ Setup!Pointers /\ Setup!Fine(x)
  BY <1>1, FirstIsFine DEF Setup!IInv
<1>3. CASE o \in held
  <2>1. o \in live /\ live' = live \ {o}
    BY <1>1, <1>3 DEF Setup!Misused
  <2>2. o # "timer_wkthd"
    BY <1>1, <1>2, ObjectSets DEF Setup!Fine, Setup!Link, Setup!Platform
  <2>3. held' = CASE x[1] = "put" -> held \ {o} [] x[1] = "drop" -> Setup!Reached(o) [] OTHER -> held
    <3>1. x[1] = "free" \/ x[1] = "drop"
      BY <1>1
    <3>2. CASE x[1] = "free"
      BY <1>1, <3>2
    <3>3. CASE x[1] = "drop"
      BY <1>1, <3>3
    <3> QED BY <3>1, <3>2, <3>3
  <2>4. Removal
    BY <1>1, <1>2, <1>3, <2>1, <2>2, <2>3 DEF Removal, Setup!Types
  <2> QED BY <2>4, RemovalKeeps
<1>4. CASE o \notin held
  <2>1. Setup!Reached(o) = held
    BY <1>2, <1>4 DEF Setup!Reached, Setup!Pointers
  <2>2. live' = live /\ held' = held
    BY <1>1, <1>4, <2>1
  <2>3. Calm
    BY <1>1, <1>2, <1>4, <2>2 DEF Calm, Setup!Types
  <2> QED BY <2>3, CalmKeeps
<1> QED BY <1>3, <1>4

LEMMA RequestsKeeps == ASSUME Setup!IInv, Setup!RequestsGpio, UNCHANGED Setup!kept_vars PROVE Setup!IInv'
<1>1. Setup!Types /\ fm_todo # <<>> /\ fm_todo[1][1] = "request"
  BY DEF Setup!IInv, Setup!RequestsGpio, Setup!At
<1>2. Calm
  BY <1>1 DEF Setup!RequestsGpio, Setup!At, Setup!kept_vars, Calm, Setup!Types
<1> QED BY <1>2, CalmKeeps

LEMMA SetsKeeps == ASSUME Setup!IInv, Setup!Sets, UNCHANGED Setup!kept_vars PROVE Setup!IInv'
<1> DEFINE x == fm_todo[1]
<1>1. Setup!Types
  BY DEF Setup!IInv
<1>2. /\ broken = "no" /\ fm_todo # <<>> /\ fm_todo' = Tail(fm_todo)
      /\ x[1] \in {"publish", "unpublish", "bind", "unbind", "listen"}
      /\ UNCHANGED <<fm_build, binds, phase, live, held, ref, failed, rst_queued, broken>>
  BY DEF Setup!Sets, Setup!At, Setup!kept_vars
<1>3. /\ probed' = IF x[1] \in {"bind", "unbind"} THEN x[1] = "bind" ELSE probed
      /\ published' = IF x[1] \in {"publish", "unpublish"} THEN x[1] = "publish" ELSE published
  <2>1. CASE Setup!At("publish", "fm")
    BY <2>1 DEF Setup!Sets, Setup!At
  <2>2. CASE Setup!At("unpublish", "fm")
    BY <2>2 DEF Setup!Sets, Setup!At
  <2>3. CASE Setup!At("bind", "g_fm")
    BY <2>3 DEF Setup!Sets, Setup!At
  <2>4. CASE Setup!At("unbind", "g_fm")
    BY <2>4 DEF Setup!Sets, Setup!At
  <2>5. CASE Setup!At("listen", "callback")
    BY <2>5 DEF Setup!Sets, Setup!At
  <2> QED BY <2>1, <2>2, <2>3, <2>4, <2>5 DEF Setup!Sets
<1>4. x[1] \notin {"new", "need", "orstop", "get", "put", "free", "drop", "request"}
  BY <1>2
<1>5. Calm
  BY <1>1, <1>2, <1>3, <1>4 DEF Calm, Setup!Types
<1> QED BY <1>5, CalmKeeps

LEMMA StepKeeps == ASSUME Setup!IInv, Setup!Step PROVE Setup!IInv'
<1>1. UNCHANGED Setup!kept_vars
  BY DEF Setup!Step
<1>2. CASE Setup!Sets
  BY <1>1, <1>2, SetsKeeps
<1>3. CASE Setup!RequestsGpio
  BY <1>1, <1>3, RequestsKeeps
<1>4. ASSUME NEW o, Setup!Makes(o) \/ Setup!Fails(o) \/ Setup!Needs(o) \/ Setup!StopsWithout(o) \/
    Setup!Gets(o) \/ Setup!Puts(o) \/ Setup!Frees(o) \/ Setup!Misuses(o)
      PROVE  Setup!IInv'
  BY <1>1, <1>4, MakesKeeps, MakesOrFails, NeedsKeeps, StopsWithoutKeeps, GetsKeeps, PutsKeeps, FreesKeeps,
      MisusesKeeps
<1> QED BY <1>2, <1>3, <1>4 DEF Setup!Step

-----------------------------------------------------------------------------
(* From one routine to the next. *)

LEMMA AtRestHas ==
  ASSUME Setup!IInv, fm_todo = <<>>
  PROVE  /\ \A verb, o : ~Setup!Ahead(verb, o)
         /\ \A o : ~Setup!UndoneAhead(o)
         /\ ~Setup!Making /\ (Setup!Complete <=> probed) /\ (published => probed)
         /\ probed => phase \in {"loaded", "probing"}
         /\ ~probed => live \intersect Setup!Device \subseteq Setup!DeviceLeftover /\
              held \intersect (Setup!Fm \union {"fm"}) = {}
<1>1. \A verb, o : ~Setup!Ahead(verb, o) /\ ~Setup!UndoneAhead(o)
  BY DEF Setup!Ahead, Setup!UndoneAhead, Setup!SetOf
<1>2. ~Setup!Making /\ (Setup!Complete <=> probed)
  BY <1>1 DEF Setup!Making, Setup!Complete
<1>3. (published => probed) /\ (probed => phase \in {"loaded", "probing"})
  BY <1>1, <1>2 DEF Setup!IInv, Setup!DeviceInv
<1>4. ~probed => live \intersect Setup!Device \subseteq Setup!DeviceLeftover
  BY <1>1, <1>2 DEF Setup!IInv, Setup!DeviceInv
<1>5. ~probed => "fm" \notin held
  <2>1. "fm" \in Setup!Device /\ "fm" \notin Setup!DeviceLeftover
    BY ObjectSets DEF Setup!DeviceLeftover
  <2> QED BY <1>4, <2>1 DEF Setup!IInv, Setup!Pointers
<1>6. ~probed => held \intersect (Setup!Fm \union {"fm"}) = {}
  BY <1>5 DEF Setup!IInv, Setup!Pointers
<1> QED BY <1>1, <1>2, <1>3, <1>4, <1>6

LEMMA BindsKeeps == ASSUME Setup!IInv, Setup!Binds PROVE Setup!IInv'
<1> DEFINE T == Setup!SetOf(fm_todo')
<1>1. /\ broken = "no" /\ fm_todo = <<>> /\ fm_todo' = Setup!mt_fm_probe /\ phase' = "probing" /\
           binds' = binds + 1
      /\ phase = "setup" \/ (phase = "loaded" /\ ~probed)
      /\ UNCHANGED <<fm_build, live, held, ref, failed, probed, published, listening, rst_queued, broken>>
  BY DEF Setup!Binds, Setup!AtRest, Setup!Begin
<1>2. Setup!Types /\ Setup!Routine /\ Setup!Made /\ Setup!Pointers /\ Setup!Misuse /\ Setup!References /\
    Setup!DeviceInv /\ Setup!EnvInv /\ Setup!LnaInv /\ Setup!Known /\ Setup!ResetInv
  BY DEF Setup!IInv
<1>3. /\ \A verb, o : ~Setup!Ahead(verb, o)
      /\ \A o : ~Setup!UndoneAhead(o)
      /\ ~probed /\ ~published
      /\ live \intersect Setup!Device \subseteq Setup!DeviceLeftover
      /\ held \intersect (Setup!Fm \union {"fm"}) = {}
  BY <1>1, AtRestHas
<1>4. /\ IsSeq(fm_todo') /\ Setup!InOrder(fm_todo') /\ Setup!TakenAtOnce(fm_todo') /\ Setup!FreedOnce(fm_todo')
      /\ \A y \in T : Setup!Fine(y) /\ y[1] \in {"new", "get", "publish", "bind", "request"} /\
           y[2] \in Setup!DeviceObjects
      /\ \A y \in T : y[1] \in {"new", "get"} => y[2] \in Setup!Device
      /\ <<"bind", "g_fm">> \in T
      /\ \A o \in Setup!Device : \E y \in T : Setup!Is(y, "new", o)
      /\ \A y \in T : y[1] = "new" /\ y[2] \in Setup!Counted \ {"rds_data"} =>
           \E z \in T : Setup!Is(z, "get", y[2])
  BY <1>1, Probes DEF Keeps
<1>5. Setup!Making' /\ Setup!Complete' /\ \A o \in Setup!Device : Setup!Ahead("new", o)'
  BY <1>4 DEF Setup!Making, Setup!Complete, Setup!Ahead, Setup!Is
<1>6. Setup!DeviceLeftover' = Setup!DeviceLeftover /\ (Setup!Excuse <=> Setup!Excuse')
  BY <1>1 DEF Setup!DeviceLeftover, Setup!Excuse, Setup!Any
<1>7. \A y \in T : Setup!Fine(y)' /\ y[1] \in Setup!Makers
  BY <1>1, <1>4, SameFine DEF Setup!Makers
<1>8. Setup!Types'
  BY <1>1, <1>2, <1>4 DEF Setup!Types, IsSeq
<1>9. Setup!Routine'
  <2>1. \A y \in T : y[1] = "new" /\ y[2] \in Setup!Counted \ {"rds_data"} => Setup!Ahead("get", y[2])'
    BY <1>4 DEF Setup!Ahead
  <2> QED BY <1>1, <1>4, <1>5, <1>7, <2>1 DEF Setup!Routine, Setup!IsAbout
<1>10. Setup!Made'
  <2> SUFFICES ASSUME NEW p \in (live \ Setup!DeviceLeftover) \union (held \intersect Setup!Fm), NEW y \in T,
      y[1] = "new"
               PROVE  Setup!OkAfter(p, y)
    BY <1>1, <1>6 DEF Setup!Made, Setup!OkAfter
  <2>1. p \notin Setup!Device
    BY <1>3
  <2>2. y[2] \in Setup!Device /\ y[3] \in {"no_fm", "dev", "mod", "go"}
    BY <1>4 DEF Setup!Fine
  <2>3. p \notin Setup!Scope(y[3]) /\ y[2] # "cmd_buf"
    BY <2>1, <2>2, ObjectSets DEF Setup!Scope
  <2> QED BY <2>1, <2>2, <2>3 DEF Setup!OkAfter
<1>11. Setup!Pointers'
  BY <1>1, <1>2, <1>6 DEF Setup!Pointers
<1>12. Setup!Misuse'
  BY <1>1, <1>2, <1>4, <1>6 DEF Setup!Misuse
<1>13. Setup!References'
  <2>1. ASSUME NEW p \in held \intersect (Setup!Counted \ {"rds_data"})
        PROVE  (p \in Setup!Locks /\ Setup!Any(Setup!Locks \ {"fm_rtc_mutex"})) \/
            ref[p] = IF Setup!Ahead("get", p)' THEN 0 ELSE 1
    <3>1. p \notin Setup!Device
      BY <1>3, <2>1, ObjectSets
    <3>2. ~Setup!Ahead("get", p)' /\ ~Setup!Ahead("get", p)
      BY <1>3, <1>4, <3>1 DEF Setup!Ahead, Setup!Is
    <3> QED BY <1>2, <2>1, <3>2 DEF Setup!References
  <2>2. \A y \in T : y[1] = "get" => Setup!Ahead("new", y[2])'
    BY <1>4, <1>5
  <2> QED BY <1>1, <2>1, <2>2 DEF Setup!References, Setup!Any
<1>14. Setup!DeviceInv'
  <2>1. ~probed' /\ ~published'
    BY <1>1, <1>3
  <2> QED BY <1>5, <2>1 DEF Setup!DeviceInv
<1>15. Setup!EnvInv'
  <2>1. /\ \A o \in Setup!Env : o \in live \/ o \in {"regs", "cmd_buf_lock"} \/
             (o = "fm_rtc_mutex" /\ o \in failed)
        /\ "cmd_buf_lock" \in live /\ "library" \in held /\ "cmd_buf_lock" \in held
    BY <1>1, <1>2, <1>3 DEF Setup!EnvInv
  <2>2. /\ ("low_ops_unregister" \in held' <=> fm_build'[1] = "wmt")
        /\ (live' \intersect {"regs", "irq"} # {} => fm_build'[1] = "conninfra")
    BY <1>1, <1>2 DEF Setup!EnvInv
  <2> QED BY <1>1, <2>1, <2>2 DEF Setup!EnvInv
<1>16. Setup!LnaInv'
  <2>1. binds \in Nat
    BY <1>2 DEF Setup!Types
  <2>2. binds' <= 1 => "lna" \notin live
    BY <1>1, <1>2, <2>1 DEF Setup!LnaInv
  <2>3. binds' # 0
    BY <1>1, <2>1
  <2> QED BY <1>1, <2>2, <2>3 DEF Setup!LnaInv
<1>17. Setup!Known' /\ Setup!ResetInv'
  BY <1>1, <1>2 DEF Setup!Known, Setup!ResetInv, Setup!ResetFindsAll
<1> QED BY <1>8, <1>9, <1>10, <1>11, <1>12, <1>13, <1>14, <1>15, <1>16, <1>17 DEF Setup!IInv

\* A routine that undoes is begun.
LEMMA UndoesKeeps ==
  ASSUME Setup!IInv, phase = "loaded", fm_todo = <<>>, broken = "no", Undoing(fm_todo'),
      Setup!FreedOnce(fm_todo'),
         phase' \in {"unbinding", "leaving"},
         UNCHANGED <<fm_build, live, held, ref, failed, probed, published, rst_queued, binds, broken>>,
         phase' = "unbinding" => probed /\ \A y \in Setup!SetOf(fm_todo') : y[2] \in Setup!DeviceObjects,
         phase' = "leaving" => Covers(fm_todo', (Setup!Env \union Setup!Platform \union {"lna"}) \ {"regs"}),
         probed => Setup!SetOf(Setup!mt_fm_remove) \subseteq Setup!SetOf(fm_todo')
  PROVE  Setup!IInv'
<1> DEFINE T == Setup!SetOf(fm_todo')
<1>1. Setup!Types /\ Setup!Routine /\ Setup!Made /\ Setup!Pointers /\ Setup!Misuse /\ Setup!References /\
    Setup!DeviceInv /\ Setup!EnvInv /\ Setup!LnaInv /\ Setup!Known /\ Setup!ResetInv
  BY DEF Setup!IInv
<1>2. /\ \A verb, o : ~Setup!Ahead(verb, o)
      /\ \A o : ~Setup!UndoneAhead(o)
      /\ published => probed
      /\ ~probed => live \intersect Setup!Device \subseteq Setup!DeviceLeftover /\
           held \intersect (Setup!Fm \union {"fm"}) = {}
  BY AtRestHas
<1>3. /\ IsSeq(fm_todo') /\ Setup!InOrder(fm_todo') /\ Setup!TakenAtOnce(fm_todo')
      /\ \A y \in T : Setup!Fine(y) /\ y[1] \in Setup!Undoers
  BY NothingTaken DEF Undoing
<1>4. /\ \A verb \in {"new", "get", "need", "request", "bind"} : \A o : ~Setup!Ahead(verb, o)'
      /\ ~Setup!Making'
  BY <1>3 DEF Setup!Ahead, Setup!Is, Setup!Undoers, Setup!Making
<1>5. /\ Setup!DeviceLeftover' = Setup!DeviceLeftover
      /\ Setup!EnvLeftover' = Setup!EnvLeftover
      /\ (Setup!Excuse <=> Setup!Excuse')
  BY DEF Setup!DeviceLeftover, Setup!EnvLeftover, Setup!Excuse, Setup!Any
<1>6. probed =>
        /\ \A o \in Setup!Device \ {"tx_power_wk", "tx_desense_wk"} : Setup!UndoneAhead(o)'
        /\ Setup!Ahead("unpublish", "fm")' /\ Setup!Ahead("unbind", "g_fm")' /\ fm_todo' # <<>>
  <2> SUFFICES ASSUME probed
               PROVE  /\ \A o \in Setup!Device \ {"tx_power_wk", "tx_desense_wk"} : Setup!UndoneAhead(o)'
                      /\ Setup!Ahead("unpublish", "fm")' /\ Setup!Ahead("unbind", "g_fm")' /\ fm_todo' # <<>>
    OBVIOUS
  <2>1. /\ \A o \in Setup!Device \ {"tx_power_wk", "tx_desense_wk"} : \E y \in T : Setup!Undoes(y, o)
        /\ <<"unpublish", "fm">> \in T /\ <<"unbind", "g_fm">> \in T
    BY Removes DEF RemovesDevice
  <2>2. fm_todo' # <<>>
    BY <2>1 DEF Setup!SetOf
  <2> QED BY <2>1, <2>2 DEF Setup!UndoneAhead, Setup!Ahead, Setup!Is
<1>7. ~Setup!Complete'
  BY <1>4, <1>6 DEF Setup!Complete
<1>8. Setup!Types'
  BY <1>1, <1>3 DEF Setup!Types, IsSeq
<1>9. Setup!Routine'
  <2>1. \A y \in T : Setup!Fine(y)'
    BY <1>3, SameFine
  <2>2. \A y \in T : y[1] # "new"
    BY <1>3 DEF Setup!Undoers
  <2> QED BY <1>3, <2>1, <2>2 DEF Setup!Routine, Setup!IsAbout
<1>10. Setup!Made'
  BY <1>3 DEF Setup!Made, Setup!OkAfter, Setup!Undoers
<1>11. Setup!Pointers'
  BY <1>1, <1>5 DEF Setup!Pointers
<1>12. Setup!Misuse'
  BY <1>1, <1>5 DEF Setup!Misuse
<1>13. Setup!References'
  BY <1>1, <1>2, <1>3, <1>4 DEF Setup!References, Setup!Any, Setup!Undoers
<1>14. Setup!DeviceInv'
  <2>1. \A o \in (live \intersect Setup!Device) \ Setup!DeviceLeftover : Setup!UndoneAhead(o)'
    BY <1>2, <1>6 DEF Setup!DeviceLeftover
  <2> QED BY <1>2, <1>5, <1>6, <1>7, <2>1 DEF Setup!DeviceInv
<1>15. Setup!EnvInv'
  <2>1. "library" \in held /\ "cmd_buf_lock" \in held /\ "cmd_buf_lock" \in live
        /\ \A o \in Setup!Env : o \in live \/ o \in {"regs", "cmd_buf_lock"} \/
             (o = "fm_rtc_mutex" /\ o \in failed)
    BY <1>1, <1>2 DEF Setup!EnvInv
  <2>2. phase' = "leaving" => \A o \in live \intersect (Setup!Env \union Setup!Platform) :
      o \in Setup!EnvLeftover \/ Setup!UndoneAhead(o)'
    <3>1. "regs" \in live => "regs" \in Setup!EnvLeftover
      BY <1>1, ObjectSets DEF Setup!EnvInv, Setup!EnvLeftover, Setup!Link
    <3> QED BY <3>1 DEF Covers, Setup!UndoneAhead
  <2>3. /\ ("low_ops_unregister" \in held' <=> fm_build'[1] = "wmt")
        /\ (live' \intersect {"regs", "irq"} # {} => fm_build'[1] = "conninfra")
    BY <1>1 DEF Setup!EnvInv
  <2> QED BY <1>5, <2>1, <2>2, <2>3 DEF Setup!EnvInv
<1>16. Setup!LnaInv'
  <2>1. phase' = "leaving" => Setup!UndoneAhead("lna")'
    BY ObjectSets DEF Covers, Setup!UndoneAhead
  <2>2. "lna" \in live /\ binds <= 1 => "lna" \in held
    BY <1>1 DEF Setup!LnaInv
  <2> QED BY <1>1, <1>4, <2>1, <2>2 DEF Setup!LnaInv
<1>17. Setup!Known' /\ Setup!ResetInv'
  BY <1>1 DEF Setup!Known, Setup!ResetInv, Setup!ResetFindsAll
<1> QED BY <1>8, <1>9, <1>10, <1>11, <1>12, <1>13, <1>14, <1>15, <1>16, <1>17 DEF Setup!IInv

LEMMA UnbindsKeeps == ASSUME Setup!IInv, Setup!Unbinds PROVE Setup!IInv'
BY UndoesKeeps, Removes DEF Setup!Unbinds, Setup!AtRest, Setup!Begin, RemovesDevice

LEMMA ExitsKeeps == ASSUME Setup!IInv, Setup!Exits PROVE Setup!IInv'
BY UndoesKeeps, Leaves DEF Setup!Exits, Setup!AtRest, Setup!Begin

\* A routine has ended.
LEMMA EndsKeeps == ASSUME Setup!IInv, Setup!Ends \/ Setup!Probed PROVE Setup!IInv'
<1>1. /\ broken = "no" /\ fm_todo = <<>> /\ fm_todo' = <<>>
      /\ UNCHANGED <<fm_build, held, ref, failed, probed, published, rst_queued, binds, broken>>
      /\ \/ phase = "probing" /\ phase' = "loaded"
         \/ phase = "unbinding" /\ phase' = "loaded"
         \/ phase = "leaving" /\ phase' = "gone"
      /\ live' = live \/ (live' = live \union {"irq"} /\ fm_build[1] = "conninfra")
  BY DEF Setup!Ends, Setup!Probed, Setup!AtRest
<1>2. Setup!Types /\ Setup!Routine /\ Setup!Made /\ Setup!Pointers /\ Setup!Misuse /\ Setup!References /\
    Setup!DeviceInv /\ Setup!EnvInv /\ Setup!LnaInv /\ Setup!Known /\ Setup!ResetInv
  BY DEF Setup!IInv
<1>3. /\ \A verb, o : ~Setup!Ahead(verb, o)
      /\ \A o : ~Setup!UndoneAhead(o)
      /\ ~Setup!Making /\ (Setup!Complete <=> probed) /\ (published => probed)
      /\ probed => phase = "probing"
  BY <1>1, AtRestHas
<1>4. /\ \A verb, o : ~Setup!Ahead(verb, o)'
      /\ \A o : ~Setup!UndoneAhead(o)'
      /\ ~Setup!Making' /\ (Setup!Complete' <=> probed')
  BY <1>1, <1>3 DEF Setup!Ahead, Setup!UndoneAhead, Setup!Making, Setup!Complete
<1>5. /\ Setup!SetOf(fm_todo') = {}
      /\ Setup!SetOf(fm_todo) = {}
      /\ "irq" \notin Setup!Env \union Setup!Platform \union Setup!Device \union {"lna"}
  BY <1>1, ObjectSets DEF Setup!SetOf, Setup!Platform
<1>6. /\ Setup!DeviceLeftover' = Setup!DeviceLeftover
      /\ Setup!EnvLeftover' = Setup!EnvLeftover
      /\ (Setup!Excuse <=> Setup!Excuse')
  BY <1>1 DEF Setup!DeviceLeftover, Setup!EnvLeftover, Setup!Excuse, Setup!Any
<1>7. Setup!Types'
  BY <1>1, <1>2 DEF Setup!Types
<1>8. Setup!Routine'
  BY <1>1, <1>5 DEF Setup!Routine, Setup!IsAbout, Setup!InOrder, Setup!TakenAtOnce
<1>9. Setup!Made'
  BY <1>5 DEF Setup!Made
<1>10. Setup!Pointers'
  BY <1>1, <1>2, <1>5, <1>6 DEF Setup!Pointers
<1>11. Setup!Misuse'
  BY <1>1, <1>2, <1>6 DEF Setup!Misuse
<1>12. Setup!References'
  BY <1>1, <1>2, <1>3, <1>4, <1>5 DEF Setup!References, Setup!Any
<1>13. Setup!DeviceInv'
  BY <1>1, <1>2, <1>3, <1>4, <1>5, <1>6 DEF Setup!DeviceInv
<1>14. Setup!EnvInv'
  <2>1. /\ live' \intersect (Setup!Env \union Setup!Platform) =
             live \intersect (Setup!Env \union Setup!Platform)
        /\ "cmd_buf_lock" \in Setup!Env
    BY <1>1, <1>5, ObjectSets
  <2>2. phase' \notin {"leaving", "gone"} =>
          /\ \A o \in Setup!Env : o \in live' \/ o \in {"regs", "cmd_buf_lock"} \/
               (o = "fm_rtc_mutex" /\ o \in failed')
          /\ "cmd_buf_lock" \in live'
    BY <1>1, <1>2, <1>3 DEF Setup!EnvInv
  <2>3. phase' \in {"leaving", "gone"} => \A o \in live' \intersect (Setup!Env \union Setup!Platform) :
      o \in Setup!EnvLeftover'
    BY <1>1, <1>2, <1>3, <1>6, <2>1 DEF Setup!EnvInv
  <2>4. "library" \notin held' => live' \intersect (Setup!Env \union Setup!Platform) \subseteq {"regs"} /\
      phase' = "gone"
    BY <1>1, <1>2, <1>3, <2>1 DEF Setup!EnvInv
  <2>5. "cmd_buf_lock" \notin held' => phase' = "gone"
    BY <1>1, <1>2, <1>3, <2>1 DEF Setup!EnvInv
  <2>6. /\ ("low_ops_unregister" \in held' <=> fm_build'[1] = "wmt")
        /\ (live' \intersect {"regs", "irq"} # {} => fm_build'[1] = "conninfra")
    BY <1>1, <1>2 DEF Setup!EnvInv
  <2> QED BY <1>4, <2>2, <2>3, <2>4, <2>5, <2>6 DEF Setup!EnvInv
<1>15. Setup!LnaInv'
  BY <1>1, <1>2, <1>3, <1>4, <1>5 DEF Setup!LnaInv
<1>16. Setup!Known' /\ Setup!ResetInv'
  BY <1>1, <1>2 DEF Setup!Known, Setup!ResetInv, Setup!ResetFindsAll
<1> QED BY <1>7, <1>8, <1>9, <1>10, <1>11, <1>12, <1>13, <1>14, <1>15, <1>16 DEF Setup!IInv

LEMMA ResetEndsKeeps == ASSUME Setup!IInv, Setup!ResetEnds PROVE Setup!IInv'
<1>1. /\ broken = "no" /\ published
      /\ UNCHANGED <<fm_build, phase, fm_todo, live, held, ref, failed, probed, published, binds>>
  BY DEF Setup!ResetEnds
<1>2. Setup!Types /\ Setup!Routine /\ Setup!Pointers /\ Setup!DeviceInv /\ Setup!ResetInv
  BY DEF Setup!IInv
<1>3. CASE {"fm", "timer_wkthd"} \subseteq held
  <2>1. rst_queued' = (rst_queued \/ "rst_wk" \in held) /\ broken' = broken
    BY <1>3 DEF Setup!ResetEnds
  <2>2. "rst_wk" \in held => {"fm", "timer_wkthd", "rst_wk"} \subseteq live
    BY <1>2, <1>3, ObjectSets DEF Setup!Pointers
  <2>3. rst_queued' \in BOOLEAN
    BY <1>2, <2>1 DEF Setup!Types
  <2>4. Setup!ResetInv'
    BY <1>1, <1>2, <2>1, <2>2 DEF Setup!ResetInv, Setup!ResetFindsAll
  <2> QED BY <1>1, <2>1, <2>3, <2>4, SameKeeps
<1>4. CASE ~({"fm", "timer_wkthd"} \subseteq held)
  <2>1. broken' = "reset" /\ rst_queued' = rst_queued
    BY <1>4 DEF Setup!ResetEnds
  <2>2. phase \in {"probing", "unbinding", "leaving"}
    <3>1. phase # "setup"
      BY <1>1, InSetup
    <3>2. ASSUME phase \in {"loaded", "gone"} PROVE FALSE
      <4>1. fm_todo = <<>>
        BY <1>2, <3>2 DEF Setup!Routine
      <4>2. Setup!Complete /\ \A verb, o : ~Setup!Ahead(verb, o)
        BY <1>1, <4>1, AtRestHas
      <4>3. {"fm", "timer_wkthd"} \subseteq live /\ {"fm", "timer_wkthd"} \subseteq Setup!Device
        BY <1>2, <4>2, ObjectSets DEF Setup!DeviceInv
      <4>4. {"fm", "timer_wkthd"} \intersect Setup!DeviceLeftover = {}
        BY DEF Setup!DeviceLeftover
      <4> QED BY <1>2, <1>4, <4>3, <4>4 DEF Setup!Pointers
    <3> QED BY <1>2, <3>1, <3>2 DEF Setup!Types
  <2>3. Setup!ResetInv' /\ rst_queued' \in BOOLEAN
    BY <1>1, <1>2, <2>1, <2>2 DEF Setup!ResetInv, Setup!ResetFindsAll, Setup!Types
  <2> QED BY <1>1, <2>1, <2>3, SameKeeps
<1> QED BY <1>3, <1>4

LEMMA WorkRunsKeeps == ASSUME Setup!IInv, Setup!WorkRuns PROVE Setup!IInv'
<1>1. /\ broken = "no" /\ rst_queued /\ rst_queued' = FALSE
      /\ UNCHANGED <<fm_build, phase, fm_todo, live, held, ref, failed, probed, published, binds>>
  BY DEF Setup!WorkRuns
<1>2. Setup!Types /\ Setup!ResetInv
  BY DEF Setup!IInv
<1>3. broken' = broken
  BY <1>1, <1>2 DEF Setup!WorkRuns, Setup!ResetInv
<1>4. Setup!ResetInv'
  BY <1>1, <1>2, <1>3 DEF Setup!ResetInv, Setup!ResetFindsAll
<1> QED BY <1>1, <1>2, <1>3, <1>4, SameKeeps

LEMMA NextKeeps == ASSUME Setup!IInv, [Setup!Next]_setup_vars PROVE Setup!IInv'
<1>1. CASE Setup!Next
  BY <1>1, StepKeeps, BindsKeeps, EndsKeeps, UnbindsKeeps, ExitsKeeps, ResetEndsKeeps, WorkRunsKeeps
     DEF Setup!Next
<1>2. CASE UNCHANGED setup_vars
  <2>1. UNCHANGED <<fm_build, phase, fm_todo, live, held, ref, failed, probed, published, binds, broken,
      rst_queued>>
    BY <1>2 DEF setup_vars
  <2>2. Setup!Types /\ Setup!Misuse /\ Setup!ResetInv
    BY DEF Setup!IInv
  <2>3. Setup!ResetInv'
    BY <2>1, <2>2 DEF Setup!ResetInv, Setup!ResetFindsAll
  <2> QED BY <2>1, <2>2, <2>3, SameKeeps DEF Setup!Types, Setup!Misuse
<1> QED BY <1>1, <1>2

LEMMA SetupInitHolds == ASSUME Setup!Init PROVE Setup!IInv
<1> DEFINE T == Setup!SetOf(fm_todo)
<1>1. /\ fm_build \in FmBuilds /\ phase = "setup" /\ fm_todo = Setup!mt_fm_init /\ live = {} /\
           ref = [o \in Setup!Counted |-> 0]
      /\ held \subseteq {"low_ops_unregister", "library"}
      /\ "low_ops_unregister" \in held <=> fm_build[1] = "wmt"
      /\ failed = {} /\ binds = 0 /\ broken = "no" /\ ~probed /\ ~published /\ ~rst_queued
      /\ probed \in BOOLEAN /\ published \in BOOLEAN /\ rst_queued \in BOOLEAN
  BY DEF Setup!Init
<1>2. /\ IsSeq(fm_todo) /\ Setup!InOrder(fm_todo) /\ Setup!TakenAtOnce(fm_todo)
      /\ \A y \in T : Setup!Fine(y) /\ y[1] \in {"new", "get", "need", "listen"} /\ y[2] \in Setup!SetupObjects
      /\ \A y \in T : y[1] = "get" => y[2] \in Setup!Counted \intersect Setup!Env
      /\ \A o \in EnvMade \union Setup!Platform : Setup!Ahead("new", o)
      /\ \A o \in Setup!Counted \intersect Setup!Env : Setup!Ahead("get", o)
      /\ <<"need", "library", "env">> \in T /\ <<"need", "cmd_buf_lock", "env">> \in T
  BY <1>1, Inits DEF SetsUp, Keeps, Setup!Ahead
<1>3. /\ Setup!Ahead("need", "library") /\ Setup!Ahead("need", "cmd_buf_lock")
      /\ ~Setup!Ahead("request", "lna") /\ ~Setup!Making /\ \A o : ~Setup!UndoneAhead(o)
      /\ \A y \in T : y[1] \in Setup!Makers
  BY <1>2 DEF Setup!Ahead, Setup!Is, Setup!Making, Setup!UndoneAhead, Setup!Undoes, Setup!Makers
<1>4. ~Setup!Complete
  BY <1>1, <1>3 DEF Setup!Complete
<1>5. held \intersect (Setup!Env \union Setup!Device \union Setup!Counted) = {}
  BY <1>1, ObjectSets
<1>6. Setup!Types
  <2>1. ref \in [Setup!Counted -> Int]
    BY <1>1
  <2> QED BY <1>1, <1>2, <2>1 DEF Setup!Types, IsSeq
<1>7. Setup!Routine
  <2>1. \A y \in T : y[1] = "new" /\ y[2] \in Setup!Counted \ {"rds_data"} => Setup!Ahead("get", y[2])
    <3> SUFFICES ASSUME NEW y \in T, y[1] = "new", y[2] \in Setup!Counted \ {"rds_data"}
           PROVE Setup!Ahead("get", y[2])
      OBVIOUS
    <3>1. y[2] \in Setup!Counted \intersect Setup!Env
      BY <1>2, ObjectSets DEF Setup!SetupObjects, Setup!Platform
    <3> QED BY <1>2, <3>1
  <2> QED BY <1>1, <1>2, <1>3, <2>1 DEF Setup!Routine, Setup!IsAbout
<1>8. Setup!Made /\ Setup!Pointers
  BY <1>1, <1>5, ObjectSets DEF Setup!Made, Setup!Pointers
<1>9. Setup!Misuse
  <2>1. Setup!FreedOnce(fm_todo)
    <3>1. \A y \in T : y[1] # "free"
      BY <1>2
    <3> QED BY <1>2, <3>1, NothingFreed
  <2> QED BY <1>1, <2>1 DEF Setup!Misuse
<1>10. Setup!References
  <2>1. held \intersect (Setup!Counted \ {"rds_data"}) = {}
    BY <1>5
  <2>2. \A y \in T : y[1] = "get" => Setup!Ahead("new", y[2]) 
    <3>1. Setup!Counted \intersect Setup!Env \subseteq EnvMade
      BY ObjectSets DEF EnvMade
    <3> QED BY <1>2, <3>1
  <2> QED BY <2>1, <2>2 DEF Setup!References
<1>11. Setup!DeviceInv
  BY <1>1, <1>4 DEF Setup!DeviceInv
<1>12. Setup!EnvInv
  <2>1. \A o \in Setup!Env : Setup!Ahead("new", o) \/ o = "regs"
    BY <1>2 DEF EnvMade
  <2> QED BY <1>1, <1>3, <2>1 DEF Setup!EnvInv
<1>13. Setup!LnaInv /\ Setup!Known /\ Setup!ResetInv
  BY <1>1, <1>3 DEF Setup!LnaInv, Setup!Known, Setup!ResetInv, Setup!ResetFindsAll
<1> QED BY <1>6, <1>7, <1>8, <1>9, <1>10, <1>11, <1>12, <1>13 DEF Setup!IInv

LEMMA UndoneThen == ASSUME Setup!IInv PROVE Setup!SetupIsUndone
<1>1. Setup!Types /\ Setup!Pointers /\ Setup!Misuse /\ Setup!DeviceInv /\ Setup!EnvInv /\ Setup!LnaInv /\
    Setup!Known /\ Setup!ResetInv
  BY DEF Setup!IInv
<1>2. Setup!UndoneOnce
  BY <1>1 DEF Setup!Misuse, Setup!Excuse, Setup!UndoneOnce
<1>3. Setup!DeviceIsUndone
  BY AtRestHas DEF Setup!DeviceIsUndone, Setup!AtRest
<1>4. Setup!EnvIsUndone
  <2> SUFFICES ASSUME broken = "no", fm_todo = <<>>, phase = "gone", NEW o \in live
               PROVE  o \in Setup!DeviceLeftover \union Setup!EnvLeftover
    BY DEF Setup!EnvIsUndone, Setup!AtRest
  <2>1. (\A p : ~Setup!UndoneAhead(p)) /\ live \intersect Setup!Device \subseteq Setup!DeviceLeftover
    BY AtRestHas
  <2>2. CASE o \in Setup!Device
    BY <2>1, <2>2
  <2>3. CASE o \in Setup!Env \union Setup!Platform
    BY <1>1, <2>1, <2>3 DEF Setup!EnvInv
  <2>4. CASE o = "lna"
    <3>1. binds > 1
      BY <1>1, <2>1, <2>4 DEF Setup!LnaInv, Setup!Types
    <3> QED BY <2>4, <3>1 DEF Setup!EnvLeftover
  <2>5. CASE o = "irq"
    <3>1. fm_build[1] = "conninfra"
      BY <1>1, <2>5 DEF Setup!EnvInv
    <3> QED BY <2>5, <3>1 DEF Setup!EnvLeftover
  <2> QED BY <1>1, <2>2, <2>3, <2>4, <2>5 DEF Setup!Known
<1>5. Setup!BoundIsComplete
  <2> SUFFICES ASSUME broken = "no", fm_todo = <<>>, phase = "loaded", probed,
                      NEW o \in (Setup!Env \union Setup!Device) \ live
               PROVE  o \in {"regs"} \union (failed \intersect {"fm_rtc_mutex", "device"})
    BY DEF Setup!BoundIsComplete, Setup!AtRest
  <2>1. Setup!Complete /\ \A verb, p : ~Setup!Ahead(verb, p)
    BY AtRestHas
  <2>2. CASE o \in Setup!Device
    BY <1>1, <2>1, <2>2 DEF Setup!DeviceInv
  <2>3. CASE o \in Setup!Env
    BY <1>1, <2>1, <2>3 DEF Setup!EnvInv
  <2> QED BY <2>2, <2>3
<1>6. Setup!ResetFindsAll
  BY <1>1 DEF Setup!ResetInv
<1> QED BY <1>2, <1>3, <1>4, <1>5, <1>6 DEF Setup!SetupIsUndone

-----------------------------------------------------------------------------
(* The subject's other parts stay as they are. *)

LEMMA SetupMoves == [MCNext]_mc_vars => [Setup!Next]_setup_vars
BY DEF MCNext, PanelNext, TouchNext, SensorNext, OldNext, AdapterNext, SetupNext, Still, mc_vars

\* Whatever fails, in whatever order the driver is bound, unbound and unloaded, and however
\* often: nothing is used once it was freed (but where the link or the class fails), nothing
\* stays but what is named, a bound driver lacks nothing, and a reset finds its thread, but
\* while a probe or a removal is under way (fm_dev_init, fm_env_setup and what undoes them,
\* against fm_wholechip_rst_cb), for any number of steps that fail.
THEOREM SetupIsAlwaysUndone == MCSpec => []SetupIsUndone
<1>1. MCInit => Setup!IInv
  BY SetupInitHolds DEF MCInit
<1>2. Setup!IInv /\ [Setup!Next]_setup_vars => Setup!IInv'
  BY NextKeeps
<1>3. Setup!IInv => SetupIsUndone
  BY UndoneThen DEF SetupIsUndone
<1> QED BY <1>1, <1>2, <1>3, SetupMoves, PTL DEF MCSpec
================================================================================
