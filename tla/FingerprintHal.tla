---------------------------- MODULE FingerprintHal ----------------------------
(***************************************************************************)
(* The fingerprint HAL adapter, device/realme/RMX3171/fingerprint: it      *)
(* serves the framework's fingerprint interface on top of the vendor's,    *)
(* forwards the vendor's callbacks, and makes up the answers the vendor    *)
(* leaves out: the error that ends a cancel and the list that ends an      *)
(* enumerate.                                                              *)
(*                                                                         *)
(* The process has one binder thread, so nothing else runs while a request *)
(* waits for the vendor; the vendor's callbacks are oneway and queue.      *)
(* External: init, the framework (a client that sets its callback before   *)
(* it asks for anything, and may be replaced by a new one at any time),    *)
(* and the vendor service with its templates, which may die and come back. *)
(***************************************************************************)
EXTENDS Naturals, Sequences, FiniteSets

CONSTANTS
  Clients,     \* the framework's successive callbacks
  None,        \* no callback was set yet
  Fingers,     \* fingerprint ids
  MaxTries,    \* how often the constructor looks for the vendor
  MaxInbox     \* bound: vendor callbacks in flight

VARIABLES
  adapter, tries,        \* the process, and where its constructor is
  mOppoBiometricsFingerprint,   \* is the vendor the constructor found still there
  pc, asker,             \* the request its thread is in, and whose it is
  mOppoClientCallback,   \* the client behind the callback given to the vendor
  receivedCancel, receivedEnumerate, knownFingers,   \* the statics
  nFingers, todo,        \* the loop of enumerate
  inbox,                 \* callbacks queued for the thread
  vendor, templates,     \* is the vendor up, and what has it enrolled
  synced,                \* has it told this process of those templates
  heard                  \* history: the last cancel was answered with an error

process == <<adapter, tries, mOppoBiometricsFingerprint>>
request == <<pc, asker>>
flags   == <<receivedCancel, receivedEnumerate>>
loop    == <<nFingers, todo>>
world   == <<vendor, templates>>
vars == <<process, request, mOppoClientCallback, flags, knownFingers, loop, inbox, world, synced, heard>>

\* Whom a callback goes to matters for the answer to a cancel only.
Callbacks == [kind : {"canceled"}, to : Clients] \union [kind : {"enumerate", "other"}]
                \union [kind : {"sync"}, fingers : SUBSET Fingers]

TypeOK ==
  /\ adapter \in {"down", "looking", "serving"} /\ tries \in 0 .. MaxTries
  /\ mOppoBiometricsFingerprint \in BOOLEAN
  /\ pc \in {"idle", "cancel", "enumerate", "listing"}
  /\ asker \in Clients \union {None}
  /\ mOppoClientCallback \in Clients \union {None}
  /\ receivedCancel \in BOOLEAN /\ receivedEnumerate \in BOOLEAN
  /\ knownFingers \in SUBSET Fingers
  /\ nFingers \in 0 .. Cardinality(Fingers) /\ todo \in SUBSET Fingers
  /\ inbox \in Seq(Callbacks) /\ Len(inbox) <= MaxInbox
  /\ vendor \in BOOLEAN /\ templates \in SUBSET Fingers
  /\ synced \in BOOLEAN /\ heard \in BOOLEAN

Init ==
  /\ adapter = "down" /\ tries = 0 /\ mOppoBiometricsFingerprint = FALSE
  /\ pc = "idle" /\ asker = None /\ mOppoClientCallback = None
  /\ receivedCancel = FALSE /\ receivedEnumerate = FALSE /\ knownFingers = {}
  /\ nFingers = 0 /\ todo = {} /\ inbox = <<>>
  /\ vendor \in BOOLEAN /\ templates \in SUBSET Fingers
  /\ synced = FALSE /\ heard = TRUE

-----------------------------------------------------------------------------
(* The process: main, the constructor, and how it ends. *)

ProcessEnds ==
  /\ adapter' = "down" /\ tries' = 0 /\ mOppoBiometricsFingerprint' = FALSE
  /\ pc' = "idle" /\ asker' = None /\ mOppoClientCallback' = None
  /\ receivedCancel' = FALSE /\ receivedEnumerate' = FALSE /\ knownFingers' = {}
  /\ nFingers' = 0 /\ todo' = {} /\ inbox' = <<>>
  /\ synced' = FALSE /\ heard' = TRUE
  /\ UNCHANGED world

InitStarts ==
  /\ adapter = "down"
  /\ adapter' = "looking"
  /\ UNCHANGED <<tries, mOppoBiometricsFingerprint, request, mOppoClientCallback, flags, knownFingers, loop, inbox, world, synced, heard>>

FindsVendor ==
  /\ adapter = "looking" /\ vendor
  /\ adapter' = "serving" /\ mOppoBiometricsFingerprint' = TRUE
  /\ UNCHANGED <<tries, request, mOppoClientCallback, flags, knownFingers, loop, inbox, world, synced, heard>>

TriesAgain ==
  /\ adapter = "looking" /\ ~vendor /\ tries + 1 < MaxTries
  /\ tries' = tries + 1
  /\ UNCHANGED <<adapter, mOppoBiometricsFingerprint, request, mOppoClientCallback, flags, knownFingers, loop, inbox, world, synced, heard>>

GivesUp ==
  /\ adapter = "looking" /\ ~vendor /\ tries + 1 >= MaxTries
  /\ ProcessEnds

Serving == adapter = "serving"

Linked == Serving /\ mOppoBiometricsFingerprint

\* Plausible bug: the transport error is checked and passed on.
ReturnsError ==
  /\ Serving /\ ~mOppoBiometricsFingerprint /\ pc \in {"idle", "cancel", "enumerate"}
  /\ pc' = "idle" /\ heard' = TRUE
  /\ UNCHANGED <<process, asker, mOppoClientCallback, flags, knownFingers, loop, inbox, world, synced>>

\* The answer of a vendor that has died, before or during any request, is
\* converted without a look at the transport error: that ends the process.
Aborts ==
  /\ Serving /\ ~mOppoBiometricsFingerprint /\ pc \in {"idle", "cancel", "enumerate"}
  /\ ProcessEnds

-----------------------------------------------------------------------------
(* Requests *)

\* configureRpcThreadpool(1, true)
ThreadFree == Serving /\ pc = "idle"

setNotify(c) ==
  /\ ThreadFree /\ Linked
  /\ mOppoClientCallback' = c
  /\ UNCHANGED <<process, request, flags, knownFingers, loop, inbox, world, synced, heard>>

\* Plausible bug: the flag is not reset.
CancelKeepsFlag(c) ==
  /\ ThreadFree /\ mOppoClientCallback = c /\ Linked
  /\ pc' = "cancel" /\ asker' = c
  /\ heard' = FALSE
  /\ UNCHANGED <<process, mOppoClientCallback, flags, knownFingers, loop, inbox, world, synced>>

CancelBegins(c) ==
  /\ ThreadFree /\ mOppoClientCallback = c /\ Linked
  /\ pc' = "cancel" /\ asker' = c
  /\ receivedCancel' = FALSE
  /\ heard' = FALSE
  /\ UNCHANGED <<process, mOppoClientCallback, receivedEnumerate, knownFingers, loop, inbox, world, synced>>

\* The vendor's answer; an error of our own unless one was forwarded meanwhile.
CancelReturns ==
  /\ pc = "cancel" /\ Linked
  /\ pc' = "idle"
  /\ heard' = (heard \/ (~receivedCancel /\ mOppoClientCallback = asker))
  /\ UNCHANGED <<process, asker, mOppoClientCallback, flags, knownFingers, loop, inbox, world, synced>>

EnumerateBegins(c) ==
  /\ ThreadFree /\ mOppoClientCallback = c /\ Linked
  /\ pc' = "enumerate" /\ asker' = c
  /\ receivedEnumerate' = FALSE
  /\ UNCHANGED <<process, mOppoClientCallback, receivedCancel, knownFingers, loop, inbox, world, synced, heard>>

\* An error, or a list of the vendor's own, or an empty one of ours.
EnumerateReturns ==
  /\ pc = "enumerate" /\ Linked
  /\ pc' = "idle"
  /\ UNCHANGED <<process, asker, mOppoClientCallback, flags, knownFingers, loop, inbox, world, synced, heard>>

EnumerateLists ==
  /\ pc = "enumerate" /\ Linked /\ ~receivedEnumerate /\ knownFingers # {}
  /\ pc' = "listing"
  /\ nFingers' = Cardinality(knownFingers) /\ todo' = knownFingers
  /\ UNCHANGED <<process, asker, mOppoClientCallback, flags, knownFingers, inbox, world, synced, heard>>

ListsFinger ==
  /\ pc = "listing"
  /\ \E f \in todo : todo' = todo \ {f}
  /\ nFingers' = nFingers - 1
  /\ pc' = IF todo' = {} THEN "idle" ELSE "listing"
  /\ UNCHANGED <<process, asker, mOppoClientCallback, flags, knownFingers, inbox, world, synced, heard>>

-----------------------------------------------------------------------------
(* OppoClientCallback: the oldest callback, once the thread is free *)

onError ==
  /\ ThreadFree /\ inbox # <<>> /\ Head(inbox).kind = "canceled"
  /\ receivedCancel' = TRUE
  /\ heard' = (heard \/ Head(inbox).to = asker)
  /\ inbox' = Tail(inbox)
  /\ UNCHANGED <<process, request, mOppoClientCallback, receivedEnumerate, knownFingers, loop, world, synced>>

onEnumerate ==
  /\ ThreadFree /\ inbox # <<>> /\ Head(inbox).kind = "enumerate"
  /\ receivedEnumerate' = TRUE
  /\ inbox' = Tail(inbox)
  /\ UNCHANGED <<process, request, mOppoClientCallback, receivedCancel, knownFingers, loop, world, synced, heard>>

onSyncTemplates ==
  /\ ThreadFree /\ inbox # <<>> /\ Head(inbox).kind = "sync"
  /\ knownFingers' = Head(inbox).fingers
  /\ inbox' = Tail(inbox)
  /\ UNCHANGED <<process, request, mOppoClientCallback, flags, loop, world, synced, heard>>

\* onEnrollResult, onAcquired, onAuthenticated, onRemoved, and the ignored ones.
onOther ==
  /\ ThreadFree /\ inbox # <<>> /\ Head(inbox).kind = "other"
  /\ inbox' = Tail(inbox)
  /\ UNCHANGED <<process, request, mOppoClientCallback, flags, knownFingers, loop, world, synced, heard>>

-----------------------------------------------------------------------------
(* The vendor, whose callbacks go to the client it was last given. *)

Post(cb) ==
  /\ Linked /\ mOppoClientCallback # None /\ Len(inbox) < MaxInbox
  /\ inbox' = Append(inbox, cb)

VendorReports ==
  /\ \/ Post([kind |-> "canceled", to |-> mOppoClientCallback])
     \/ \E k \in {"enumerate", "other"} : Post([kind |-> k])
  /\ UNCHANGED <<process, request, mOppoClientCallback, flags, knownFingers, loop, world, synced, heard>>

VendorSyncs ==
  /\ Post([kind |-> "sync", fingers |-> templates])
  /\ synced' = TRUE
  /\ UNCHANGED <<process, request, mOppoClientCallback, flags, knownFingers, loop, world, heard>>

TemplatesChange ==
  /\ vendor
  /\ templates' \in SUBSET Fingers \ {templates}
  /\ synced' = FALSE
  /\ UNCHANGED <<process, request, mOppoClientCallback, flags, knownFingers, loop, inbox, vendor, heard>>

VendorChanges ==
  /\ vendor' = ~vendor
  /\ mOppoBiometricsFingerprint' = FALSE
  /\ UNCHANGED <<adapter, tries, request, mOppoClientCallback, flags, knownFingers, loop, inbox, templates, synced, heard>>

Process == InitStarts \/ FindsVendor \/ TriesAgain \/ GivesUp \/ Aborts
Answer  == CancelReturns \/ EnumerateReturns \/ EnumerateLists \/ ListsFinger
Forward == onError \/ onEnumerate \/ onSyncTemplates \/ onOther
Vendor  == VendorReports \/ VendorSyncs \/ TemplatesChange \/ VendorChanges

Next ==
  \/ Process \/ Answer \/ Forward \/ Vendor
  \/ \E c \in Clients : setNotify(c) \/ CancelBegins(c) \/ EnumerateBegins(c)

\* init restarts the service, the constructor's loop and a request go on, a
\* living vendor answers, and the framework asks again sooner or later: that is
\* how a dead vendor is noticed.
Spec == Init /\ [][Next]_vars /\ WF_vars(Process) /\ WF_vars(Answer)

-----------------------------------------------------------------------------
\* A client whose cancel has returned has been sent an ERROR_CANCELED since it
\* asked: neither an echo of an earlier cancel nor one meant for an earlier
\* client passes for the answer.
CancelAnswered == pc # "cancel" => heard

\* What enumerate lists is one state of the vendor's templates, and its
\* countdown ends at zero: no callback changes the list under the loop.
ListConsistent ==
  pc = "listing" => nFingers = Cardinality(todo) /\ todo \subseteq knownFingers

\* Once the vendor has told its templates and no news of them is queued, they
\* are what enumerate would list; enrolments, removals, restarts of either
\* side and reports in between do not matter.
KnownIsCurrent ==
  synced /\ (\A i \in DOMAIN inbox : inbox[i].kind # "sync") => knownFingers = templates

\* What the adapter tells its clients is so.
ToldIsTrue == CancelAnswered /\ ListConsistent /\ KnownIsCurrent

\* Why it is so.  The callbacks wait for the thread that a cancel or a list occupies;
\* and of the lists on their way the last says what the vendor has.
CancelWaits == pc = "cancel" => ~receivedCancel /\ mOppoClientCallback = asker

LastSyncIsTrue ==
  synced => \/ knownFingers = templates /\ \A i \in DOMAIN inbox : inbox[i].kind # "sync"
            \/ \E i \in DOMAIN inbox :
                 /\ inbox[i].kind = "sync" /\ inbox[i].fingers = templates
                 /\ \A j \in DOMAIN inbox : j > i => inbox[j].kind # "sync"

\* Of the types, those that matter here.
Types ==
  /\ knownFingers \in SUBSET Fingers /\ templates \in SUBSET Fingers
  /\ inbox \in Seq(Callbacks) /\ mOppoClientCallback \in Clients \union {None}

IInv == Types /\ CancelWaits /\ LastSyncIsTrue /\ CancelAnswered /\ ListConsistent

\* When the vendor is up for good, the adapter ends up connected to it for good,
\* although it looks for it only MaxTries times and only in its constructor, and
\* never asks to be told of its death: it takes the abort, and init, for that.
ComesBack == <>[]vendor => <>[]Linked
===============================================================================
