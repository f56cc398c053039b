----------------------------- MODULE LiveView -----------------------------
(***************************************************************************)
(* How a client follows the live view of a session.  The view is a         *)
(* document with an epoch and a sequence number; every update is committed *)
(* first and published as a delta afterwards.  A subscription forwards     *)
(* consecutive deltas and answers everything else (a gap, another epoch,   *)
(* an overflown buffer, a tick) by reading the document again, and the     *)
(* ledger after it when the document has no run.                           *)
(*   internal/agent/runtime/session/manager.go (Subscribe,                 *)
(*   subscriberSnapshot, hydrateSnapshotFromLedger, updateAndPublish),     *)
(*   state.go, redis.go, memory.go                                         *)
(*                                                                         *)
(* Abstractions.  The content of the view is what was applied to it, so a  *)
(* client shows the content of cursor <<epoch, ledger, seq>> unless a      *)
(* delta reached it out of turn.  The run shown from the ledger while the  *)
(* view has none is a version number.                                      *)
(***************************************************************************)
EXTENDS Naturals, Sequences, FiniteSets

CONSTANTS Watchers,     \* subscriptions
          ViewBuffer,   \* capacity of the backend's channel
          ViewOut,      \* capacity of the subscription's channel
          ViewMaxSeq,   \* bound: updates of one epoch
          ViewMaxEpoch, \* bound: epochs of the document
          ViewMaxLedger,\* bound: versions of the run in the ledger
          ViewFaults    \* which happen: "lost" publications, "unreadable" documents or "ledger"

ASSUME ViewAssumption ==
    /\ ViewBuffer \in Nat \ {0} /\ ViewOut \in Nat \ {0}
    /\ ViewMaxSeq \in Nat /\ ViewMaxEpoch \in Nat \ {0} /\ ViewMaxLedger \in Nat

VARIABLES
    vdoc,    \* the document: epoch, seq, whether it has a run
    vled,    \* version of the run in the ledger, 0 if there is none
    vpub,    \* deltas committed and not yet published
    vlost,   \* vlost[w]: the publication of the last update, or the reading it led to, failed
    vbuf,    \* vbuf[w]: the backend's channel
    vfull,   \* vfull[w]: the event whose sender found the channel full
    vsub,    \* vsub[w]: the subscription: pc, lastEpoch and lastSeq, event to send
    vread,   \* vread[w]: the reading under way: the document, and the event it is compared with
    vout,    \* vout[w]: the subscription's channel
    vcli,    \* vcli[w]: what the client shows
    vsync    \* vsync[w]: what w has read since the last change: "whole", "part" (not the ledger), "no"

vvars == <<vdoc, vled, vpub, vlost, vbuf, vfull, vsub, vread, vout, vcli, vsync>>

NoEvent == [kind |-> "none", at |-> <<0, 0, 0>>]
Cursors == (0..ViewMaxEpoch) \X (0..ViewMaxLedger) \X (0..ViewMaxSeq)
Events == [kind: {"none", "delta", "dropped", "snapshot"}, at: Cursors]
Docs == [e: 1..ViewMaxEpoch, s: 0..ViewMaxSeq, run: BOOLEAN]
NoReading == [doc |-> [e |-> 0, s |-> 0, run |-> FALSE], observed |-> <<0, 0, 0>>]

ViewTypeOK ==
    /\ vdoc \in Docs
    /\ vled \in 0..ViewMaxLedger
    /\ vpub \subseteq Events
    /\ \A w \in Watchers :
         /\ Len(vbuf[w]) <= ViewBuffer /\ Len(vout[w]) <= ViewOut
         /\ vfull[w] \in Events
         /\ vsub[w] \in [pc: {"off", "base", "on", "closed"}, at: Cursors, send: Events]
         /\ vread[w] = NoReading \/ vread[w] \in [doc: Docs, observed: Cursors]

ViewInit ==
    /\ vdoc = [e |-> 1, s |-> 0, run |-> FALSE]
    /\ vled = 0
    /\ vpub = {}
    /\ vlost = [w \in Watchers |-> FALSE]
    /\ vbuf = [w \in Watchers |-> <<>>]
    /\ vfull = [w \in Watchers |-> NoEvent]
    /\ vsub = [w \in Watchers |-> [pc |-> "off", at |-> <<0, 0, 0>>, send |-> NoEvent]]
    /\ vread = [w \in Watchers |-> NoReading]
    /\ vout = [w \in Watchers |-> <<>>]
    /\ vcli = [w \in Watchers |-> [at |-> <<0, 0, 0>>, torn |-> FALSE]]
    /\ vsync = [w \in Watchers |-> "no"]
-----------------------------------------------------------------------------
(* The document *)

Delta == [kind |-> "delta", at |-> <<vdoc'.e, 0, vdoc'.s>>]
Changed == vsync' = [w \in Watchers |-> "no"]
Updated == Changed /\ vlost' = [w \in Watchers |-> FALSE]

\* updateAndPublish: the update ...
UpdateView ==
    /\ vdoc.s < ViewMaxSeq
    /\ \E run \in BOOLEAN : vdoc' = [vdoc EXCEPT !.s = @ + 1, !.run = run]
    /\ vpub' = vpub \cup {Delta}
    /\ Updated
    /\ UNCHANGED <<vled, vbuf, vfull, vsub, vread, vout, vcli>>

\* Mutant: a document that is created again goes by the name of the old one.
NewViewSameEpoch == [e |-> vdoc.e, s |-> 0, run |-> FALSE]

\* liveSnapshot, startRun: every document has an epoch of its own.
NewView == [e |-> vdoc.e + 1, s |-> 0, run |-> FALSE]

\* The document expired or was lost; the next start or snapshot creates another.
RecreateView ==
    /\ vdoc.e < ViewMaxEpoch
    /\ vdoc' = NewView
    /\ Updated
    /\ UNCHANGED <<vled, vpub, vbuf, vfull, vsub, vread, vout, vcli>>

\* The run that the ledger offers changes: a new outcome, or a history reset.
LedgerChanges ==
    /\ vled < ViewMaxLedger
    /\ vled' = vled + 1
    /\ Changed
    /\ UNCHANGED <<vdoc, vpub, vlost, vbuf, vfull, vsub, vread, vout, vcli>>

Subscribed == {w \in Watchers : vsub[w].pc \in {"base", "on"}}

\* enqueueRuntimeEvent: a sender that finds the channel full ...
Enqueue(w, ev) == IF Len(vbuf[w]) < ViewBuffer THEN Append(vbuf[w], ev) ELSE vbuf[w]

\* ... and the publication of its delta, by any of the writers in any order.
PublishDelta(ev) ==
    /\ ev \in vpub /\ \A w \in Watchers : vfull[w] = NoEvent
    /\ vpub' = vpub \ {ev}
    /\ vbuf' = [w \in Watchers |-> IF w \in Subscribed THEN Enqueue(w, ev) ELSE vbuf[w]]
    /\ vfull' = [w \in Watchers |-> IF w \in Subscribed /\ Len(vbuf[w]) = ViewBuffer THEN ev ELSE NoEvent]
    /\ UNCHANGED <<vdoc, vled, vlost, vsub, vread, vout, vcli, vsync>>

\* Mutant: the marker is left out.
OverflownSilent(w) == IF vbuf[w] = <<>> THEN vbuf[w] ELSE Tail(vbuf[w])

\* Mutant: the oldest event stays in the full channel.
OverflownKept(w) == Append(vbuf[w], [vfull[w] EXCEPT !.kind = "dropped"])

\* ... takes out the oldest event, if the reader has not emptied it meanwhile, and puts
\* a marker in.
Overflown(w) ==
    Append(IF vbuf[w] = <<>> THEN vbuf[w] ELSE Tail(vbuf[w]), [vfull[w] EXCEPT !.kind = "dropped"])

Overflow(w) ==
    /\ vfull[w] # NoEvent
    /\ vbuf' = [vbuf EXCEPT ![w] = Overflown(w)]
    /\ vfull' = [vfull EXCEPT ![w] = NoEvent]
    /\ UNCHANGED <<vdoc, vled, vpub, vlost, vsub, vread, vout, vcli, vsync>>

\* A publication fails, or Pub/Sub loses it.
LosePublication(ev) ==
    /\ "lost" \in ViewFaults /\ ev \in vpub
    /\ vpub' = vpub \ {ev}
    /\ vlost' = [w \in Watchers |-> vlost[w] \/ ev.at = <<vdoc.e, 0, vdoc.s>>]
    /\ UNCHANGED <<vdoc, vled, vbuf, vfull, vsub, vread, vout, vcli, vsync>>
-----------------------------------------------------------------------------
(* The subscription *)

\* Mutant: a run from the ledger is shown under the cursor of the live view.
SnapshotPlain(doc, led) == <<doc.e, 0, doc.s>>

\* subscriberSnapshot: a run from the ledger has an epoch of its own.  Without one (led = 0)
\* the epoch is the document's, which then says that there is no run.
SnapshotAt(doc, led) == <<doc.e, IF doc.run THEN 0 ELSE led, doc.s>>

SnapshotEvent(at) == [kind |-> "snapshot", at |-> at]

\* What a client shows that was sent a snapshot of the stores as they are.
Shown == <<vdoc.e, IF vdoc.run THEN 0 ELSE vled, vdoc.s>>

\* Subscribe: the backend's channel first, then the baseline.
SubscribeView(w) ==
    /\ vsub[w].pc = "off"
    /\ vsub' = [vsub EXCEPT ![w].pc = "base"]
    /\ UNCHANGED <<vdoc, vled, vpub, vlost, vbuf, vfull, vread, vout, vcli, vsync>>

Idle(w) == vread[w] = NoReading

\* liveSnapshot: a reading begins with the document; observed is what it is compared with.
ReadDocument(w, observed) ==
    /\ vread' = [vread EXCEPT ![w] = [doc |-> vdoc, observed |-> observed]]
    /\ vsync' = [vsync EXCEPT ![w] = "part"]

BaselineDocument(w) ==
    /\ vsub[w].pc = "base" /\ Idle(w)
    /\ ReadDocument(w, <<0, 0, 0>>)
    /\ UNCHANGED <<vdoc, vled, vpub, vlost, vbuf, vfull, vsub, vout, vcli>>

EpochOf(at) == <<at[1], at[2]>>

\* reconcile(observed), when it has read a snapshot: the subscription after it.
Reconciled(w, now) ==
    LET last == vsub[w].at  observed == vread[w].observed IN
    CASE EpochOf(now) = EpochOf(observed) /\ now[3] < observed[3] -> [vsub[w] EXCEPT !.pc = "closed"]
      [] EpochOf(now) = EpochOf(last) /\ now[3] < last[3] -> [vsub[w] EXCEPT !.pc = "closed"]
      [] now = last -> vsub[w]
      [] OTHER -> [vsub[w] EXCEPT !.at = now, !.send = SnapshotEvent(now)]

\* hydrateSnapshotFromLedger: the reading ends with the ledger, if the document has no run.
\* A ledger that cannot be read is taken for one without a run.
LedgerAnswers == {vled} \cup (IF "ledger" \in ViewFaults THEN {0} ELSE {})

ReadLedger(w, led) ==
    LET doc == vread[w].doc  now == SnapshotAt(doc, led) IN
    /\ ~Idle(w)
    /\ IF vsub[w].pc = "base"
       THEN /\ vsub' = [vsub EXCEPT ![w] = [pc |-> "on", at |-> now, send |-> NoEvent]]
            /\ vout' = [vout EXCEPT ![w] = <<SnapshotEvent(now)>>]
       ELSE vsub' = [vsub EXCEPT ![w] = Reconciled(w, now)] /\ UNCHANGED vout
    /\ vread' = [vread EXCEPT ![w] = NoReading]
    /\ vsync' = [vsync EXCEPT ![w] = IF @ = "part" /\ (doc.run \/ led = vled) THEN "whole" ELSE @]
    /\ UNCHANGED <<vdoc, vled, vpub, vlost, vbuf, vfull, vcli>>

\* Mutant: a delta that leaves one out is forwarded.
InTurnAny(last, at) == EpochOf(at) = EpochOf(last) /\ at[3] > last[3]

InTurn(last, at) == EpochOf(at) = EpochOf(last) /\ at[3] = last[3] + 1
OldNews(last, at) == EpochOf(at) = EpochOf(last) /\ at[3] <= last[3]
Ready(w) == vsub[w].pc = "on" /\ vsub[w].send = NoEvent /\ Idle(w)

\* A delta in turn is forwarded and an old one is skipped ...
HandleDelta(w) ==
    LET ev == Head(vbuf[w])  last == vsub[w].at IN
    /\ Ready(w) /\ vbuf[w] # <<>> /\ ev.kind = "delta"
    /\ InTurn(last, ev.at) \/ OldNews(last, ev.at)
    /\ vsub' = [vsub EXCEPT ![w] = IF OldNews(last, ev.at) THEN @
                                   ELSE [@ EXCEPT !.at = ev.at, !.send = ev]]
    /\ vbuf' = [vbuf EXCEPT ![w] = Tail(@)]
    /\ UNCHANGED <<vdoc, vled, vpub, vlost, vfull, vread, vout, vcli, vsync>>

\* ... a marker, a gap or another epoch is answered with the document ...
HandleOther(w) ==
    LET ev == Head(vbuf[w])  last == vsub[w].at IN
    /\ Ready(w) /\ vbuf[w] # <<>>
    /\ ev.kind = "delta" => ~InTurn(last, ev.at) /\ ~OldNews(last, ev.at)
    /\ ReadDocument(w, ev.at)
    /\ vbuf' = [vbuf EXCEPT ![w] = Tail(@)]
    /\ UNCHANGED <<vdoc, vled, vpub, vlost, vfull, vsub, vout, vcli>>

\* ... unless the document cannot be read now: the next occasion reads it again.
ReadFailsFor(w) ==
    LET ev == Head(vbuf[w])  last == vsub[w].at IN
    /\ "unreadable" \in ViewFaults
    /\ Ready(w) /\ vbuf[w] # <<>>
    /\ ev.kind = "delta" => ~InTurn(last, ev.at) /\ ~OldNews(last, ev.at)
    /\ vbuf' = [vbuf EXCEPT ![w] = Tail(@)]
    /\ vlost' = [vlost EXCEPT ![w] = TRUE]
    /\ UNCHANGED <<vdoc, vled, vpub, vfull, vsub, vread, vout, vcli, vsync>>

\* The reconciliation tick.
TickView(w) ==
    /\ Ready(w)
    /\ ReadDocument(w, <<0, 0, 0>>)
    /\ UNCHANGED <<vdoc, vled, vpub, vlost, vbuf, vfull, vsub, vout, vcli>>

SendEvent(w) ==
    /\ vsub[w].send # NoEvent /\ Len(vout[w]) < ViewOut
    /\ vout' = [vout EXCEPT ![w] = Append(@, vsub[w].send)]
    /\ vsub' = [vsub EXCEPT ![w].send = NoEvent]
    /\ UNCHANGED <<vdoc, vled, vpub, vlost, vbuf, vfull, vread, vcli, vsync>>

\* The client applies what it is sent.
ApplyEvent(w) ==
    LET ev == Head(vout[w]) IN
    /\ vout[w] # <<>>
    /\ vout' = [vout EXCEPT ![w] = Tail(@)]
    /\ vcli' = [vcli EXCEPT ![w] =
         IF ev.kind = "snapshot" THEN [at |-> ev.at, torn |-> FALSE]
         ELSE [at |-> ev.at, torn |-> @.torn \/ EpochOf(ev.at) # EpochOf(@.at) \/ ev.at[3] # @.at[3] + 1]]
    /\ UNCHANGED <<vdoc, vled, vpub, vlost, vbuf, vfull, vsub, vread, vsync>>

ViewNext ==
    \/ UpdateView \/ RecreateView \/ LedgerChanges
    \/ \E ev \in vpub : PublishDelta(ev) \/ LosePublication(ev)
    \/ \E w \in Watchers :
         \/ Overflow(w) \/ SubscribeView(w) \/ BaselineDocument(w) \/ HandleDelta(w) \/ HandleOther(w)
         \/ \E led \in LedgerAnswers : ReadLedger(w, led)
         \/ ReadFailsFor(w) \/ TickView(w) \/ SendEvent(w) \/ ApplyEvent(w)

ViewSpec == ViewInit /\ [][ViewNext]_vvars
-----------------------------------------------------------------------------
(* Properties *)

\* manager.go, Subscribe ("runtime delta sequence gap"): a client never applies a delta
\* to a view it was not made for, though publications are lost, overtake each other and
\* overflow the channel.
NeverTorn == \A w \in Watchers : ~vcli[w].torn

\* manager.go, updateAndPublish commits before it publishes, so no subscription sees a
\* document older than a delta it has received and is closed for it.
NeverSentAway == \A w \in Watchers : vsub[w].pc # "closed"

Still(w) == Ready(w) /\ vbuf[w] = <<>> /\ vout[w] = <<>> /\ vfull[w] = NoEvent

\* state.go, enqueueRuntimeEvent: an overflown channel costs a client nothing.  When all
\* is published and handled it is at the latest update of this epoch, unless the
\* publication of that very update, or the reading it called for, failed.
OverflowIsHealed ==
    \A w \in Watchers : (Still(w) /\ vpub = {} /\ vdoc.s > 0) =>
        \/ vcli[w].at[1] = vdoc.e /\ vcli[w].at[3] = vdoc.s
        \/ vlost[w]

\* manager.go, subscriberSnapshot ("A client discards a snapshot that does not move its
\* cursor"): a client whose subscription has read both stores since they last changed
\* shows what they hold, even if only the ledger changed.  One whose last reading missed
\* the ledger (hydrateSnapshotFromLedger swallows the error) shows the document alone, and
\* no outdated run, until a reading is whole again.
ReconciledIsCurrent ==
    \A w \in Watchers : Still(w) =>
        /\ vsync[w] = "whole" => vcli[w].at = Shown
        /\ vsync[w] = "part" => vcli[w].at = <<vdoc.e, 0, vdoc.s>>

\* Subscribe, while it streams: what a subscription forwards fits what its client shows.
ViewInv == ViewTypeOK /\ NeverTorn /\ NeverSentAway

\* Subscribe, when it rests: nothing that was lost on the way stays lost.
ViewCatchesUp == OverflowIsHealed /\ ReconciledIsCurrent
=============================================================================
