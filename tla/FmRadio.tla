------------------------------- MODULE FmRadio -------------------------------
(***************************************************************************)
(* The FM radio's character device, ports/connectivity/fm-mt6631-aether.c. *)
(* Every ioctl and every close runs under p->lock from its first to its    *)
(* last statement, so each is one step.  The chip behind it is a skeleton: *)
(* what the driver would write to it is what struct fm_priv holds.         *)
(*                                                                         *)
(* Frequencies are the u32 of the interface, arithmetic on them modulo     *)
(* Wrap.  The module loader removes the driver only when no file is open.  *)
(***************************************************************************)
EXTENDS Integers

CONSTANTS
  Users,        \* open files, at most one each
  Wrap,         \* 2^32
  Low, High,    \* the limits of band 0 and of band 1 (JP), as functions on Bands
  Spaces,       \* the spacings that users ask for
  Volumes       \* and the volumes

Bands == {0, 1}

ASSUME WrapAssumption == Wrap \in Nat \ {0}
ASSUME BandAssumption ==
  \A b \in Bands : Low[b] \in Nat /\ High[b] \in Nat /\ Low[b] <= High[b] /\ High[b] < Wrap
ASSUME VolumesAssumption == Volumes # {}
ASSUME SpaceAssumption == Spaces \subseteq 0 .. Wrap - 1

VARIABLES
  bound, files,                  \* is the device registered, and who has it open
  powered, cur_freq, cur_vol, muted  \* struct fm_priv

vars == <<bound, files, powered, cur_freq, cur_vol, muted>>

Freqs == 0 .. Wrap - 1

DefaultVol == CHOOSE v \in Volumes : TRUE

TypeOK ==
  /\ bound \in BOOLEAN /\ files \in SUBSET Users
  /\ powered \in BOOLEAN /\ cur_freq \in Freqs
  /\ cur_vol \in Volumes /\ muted \in BOOLEAN

Fresh == powered' = FALSE /\ cur_freq' = Low[0] /\ cur_vol' = DefaultVol /\ muted' = FALSE

Init ==
  /\ bound = FALSE /\ files = {}
  /\ powered = FALSE /\ cur_freq = Low[0] /\ cur_vol = DefaultVol /\ muted = FALSE

-----------------------------------------------------------------------------
(* fm_chip_seek: one step from where the caller says, then round the band. *)

\* Plausible bug: the step is taken without the limits.
StepFromUnlimited(start, band, space, up) ==
  (IF up THEN start + space ELSE start - space) % Wrap

StepFrom(start, band, space, up) ==
  LET next == (IF up THEN start + space ELSE start - space) % Wrap
      cur  == IF next > High[band] THEN Low[band] ELSE next
  IN  IF cur < Low[band] THEN High[band] ELSE cur

\* -EAGAIN leaves the chip where it was.
Seek(u) ==
  /\ u \in files
  /\ \E start \in Freqs, band \in Bands, space \in Spaces, up \in BOOLEAN :
       LET cur == StepFrom(start, band, space, up)
       IN  cur_freq' = IF cur = start THEN cur_freq ELSE cur
  /\ UNCHANGED <<bound, files, powered, cur_vol, muted>>

-----------------------------------------------------------------------------
PowerUp(u) ==
  /\ u \in files
  /\ powered' = TRUE
  /\ cur_freq' \in Freqs
  /\ UNCHANGED <<bound, files, cur_vol, muted>>

PowerDown(u) ==
  /\ u \in files
  /\ powered' = FALSE
  /\ UNCHANGED <<bound, files, cur_freq, cur_vol, muted>>

\* Powered or not.
Tune(u) ==
  /\ u \in files
  /\ cur_freq' \in Freqs
  /\ UNCHANGED <<bound, files, powered, cur_vol, muted>>

SetVol(u) ==
  /\ u \in files
  /\ cur_vol' \in Volumes
  /\ UNCHANGED <<bound, files, powered, cur_freq, muted>>

Mute(u) ==
  /\ u \in files
  /\ muted' \in BOOLEAN
  /\ UNCHANGED <<bound, files, powered, cur_freq, cur_vol>>

-----------------------------------------------------------------------------
FmOpen(u) ==
  /\ bound /\ u \notin files
  /\ files' = files \union {u}
  /\ UNCHANGED <<bound, powered, cur_freq, cur_vol, muted>>

\* Whoever closes, and whoever else is listening.
FmRelease(u) ==
  /\ u \in files
  /\ files' = files \ {u}
  /\ powered' = FALSE
  /\ UNCHANGED <<bound, cur_freq, cur_vol, muted>>

FmProbe ==
  /\ ~bound
  /\ bound' = TRUE /\ Fresh
  /\ UNCHANGED files

\* fm_remove looks at powered without the lock: there is nobody left to take it.
FmRemove ==
  /\ bound /\ files = {}
  /\ bound' = FALSE /\ powered' = FALSE
  /\ UNCHANGED <<files, cur_freq, cur_vol, muted>>

Ioctl(u) == Seek(u) \/ PowerUp(u) \/ PowerDown(u) \/ Tune(u) \/ SetVol(u) \/ Mute(u)

Next == FmProbe \/ FmRemove \/ (\E u \in Users : Ioctl(u) \/ FmOpen(u) \/ FmRelease(u))

Spec == Init /\ [][Next]_vars

-----------------------------------------------------------------------------
\* The radio is never left running with nobody to hear it: however several
\* users power it up and down, close and reopen it.
PoweredHasUser == powered => files # {}

\* A seek that moves the chip leaves it inside the band, whatever 32-bit
\* frequency and spacing the caller passed and however the sum wrapped.
SeekStaysInBand ==
  [][\A u \in Users : Seek(u) /\ cur_freq' # cur_freq
       => \E b \in Bands : Low[b] <= cur_freq' /\ cur_freq' <= High[b]]_vars
==============================================================================
