---------------------------- MODULE StreamProofs ----------------------------
(***************************************************************************)
(* Proofs about what reaches a client: LiveView (how a client follows the  *)
(* live view of a session) and DecisionOutput (what an accepted answer     *)
(* streams back), for any number of subscriptions, readers, updates,       *)
(* events and faults.                                                      *)
(*                                                                         *)
(* LiveView: what is on the way from a subscription to its client is a     *)
(* chain that ends at the subscription's cursor (Chained), no cursor is    *)
(* ahead of the document (Behind) or of a document that is being read      *)
(* (Reads), and of the latest update there is always a trace left          *)
(* (Arriving).                                                             *)
(*                                                                         *)
(* DecisionOutput: the log numbers its events (LogOk), and a reader has    *)
(* the beginning of the log, or the log was emptied and will not grow past *)
(* what the reader has (Follows).                                          *)
(***************************************************************************)
EXTENDS DecisionOutput, LiveView, SequenceTheorems, TLAPS

-----------------------------------------------------------------------------
(* LiveView.                                                               *)

Subs == [pc: {"off", "base", "on", "closed"}, at: Cursors, send: Events]
Clients == [at: Cursors, torn: BOOLEAN]
Readings == [doc: Docs, observed: Cursors] \cup {NoReading}

ViewTyped ==
    /\ vdoc \in Docs /\ vled \in 0..ViewMaxLedger /\ vpub \subseteq Events
    /\ vlost \in [Watchers -> BOOLEAN] /\ vsync \in [Watchers -> {"no", "part", "whole"}]
    /\ vread \in [Watchers -> Readings]
    /\ vbuf \in [Watchers -> Seq(Events)] /\ vout \in [Watchers -> Seq(Events)]
    /\ vfull \in [Watchers -> Events]
    /\ vsub \in [Watchers -> Subs] /\ vcli \in [Watchers -> Clients]

\* A cursor that is not ahead of the document, and one that is at its latest update.
Behind(at) == at[1] < vdoc.e \/ (at[1] = vdoc.e /\ at[3] <= vdoc.s)
Latest(at) == at[1] = vdoc.e /\ at[3] = vdoc.s

NotAhead(w) ==
    /\ Behind(vsub[w].at) /\ Behind(vfull[w].at)
    /\ \A i \in 1..Len(vbuf[w]) : Behind(vbuf[w][i].at)

\* A client at this cursor may apply this event.
Fits(at, ev) == ev.kind = "snapshot" \/ (ev.kind = "delta" /\ InTurn(at, ev.at))

\* The cursor of a client c after it applied all of q.
After(c, q) == IF q = <<>> THEN c.at ELSE q[Len(q)].at

\* Client c may apply the events of q one after the other and then the one its subscription s
\* is about to send, after which it is where s is.
Chained(c, q, s) ==
    /\ ~c.torn
    /\ \A i \in 1..Len(q) : Fits(IF i = 1 THEN c.at ELSE q[i-1].at, q[i])
    /\ s.send = NoEvent => After(c, q) = s.at
    /\ s.send # NoEvent => Fits(After(c, q), s.send) /\ s.send.at = s.at

\* Where a document stands, apart from a run of the ledger, and the cursors up to there.
DocAt(doc) == <<doc.e, 0, doc.s>>
Covers(doc, at) == at[1] < doc.e \/ (at[1] = doc.e /\ at[3] <= doc.s)

\* The document of a reading is not older than what it will be compared with.
Reads(w) ==
    /\ vsub[w].pc \in {"off", "base"} => vsub[w].send = NoEvent
    /\ ~Idle(w) =>
         /\ vsub[w].pc \in {"base", "on"} /\ vsub[w].send = NoEvent
         /\ vread[w].doc \in Docs /\ vread[w].observed \in Cursors
         /\ Covers(vread[w].doc, vread[w].observed) /\ Covers(vread[w].doc, vsub[w].at)
         /\ Behind(DocAt(vread[w].doc))

Attending(w) == vsub[w].pc = "on" \/ ~Idle(w)
Place(w) == IF Idle(w) THEN vsub[w].at ELSE DocAt(vread[w].doc)

\* A subscription has the latest update or is reading it, or something is on its way that leads
\* to it, or it was lost.
Arriving(w) ==
    (Attending(w) /\ vdoc.s > 0) =>
        \/ vlost[w] \/ Latest(Place(w)) \/ vfull[w] # NoEvent
        \/ \E ev \in vpub : Latest(ev.at)
        \/ \E i \in 1..Len(vbuf[w]) : vbuf[w][i].kind = "dropped" \/ Latest(vbuf[w][i].at)

Synced(w) ==
    /\ ~Idle(w) => vsync[w] = "no" \/ (vsync[w] = "part" /\ vread[w].doc = vdoc)
    /\ Idle(w) /\ vsub[w].pc = "on" =>
         /\ vsync[w] = "whole" => vsub[w].at = Shown
         /\ vsync[w] = "part" => vsub[w].at = DocAt(vdoc)

Channels(w) == Len(vbuf[w]) <= ViewBuffer /\ Len(vout[w]) <= ViewOut

Watched(w) ==
    /\ NotAhead(w) /\ Chained(vcli[w], vout[w], vsub[w]) /\ vsub[w].pc # "closed"
    /\ Reads(w) /\ Arriving(w) /\ Synced(w) /\ Channels(w)

\* Only updates are published, and none ahead of the document.
Published == \A ev \in vpub : ev.kind = "delta" /\ ev.at[2] = 0 /\ Behind(ev.at)

ViewIInv == ViewTyped /\ Published /\ \A w \in Watchers : Watched(w)

\* What the head and the tail of a sequence are.
LEMMA Parts ==
    ASSUME NEW S, NEW q \in Seq(S), q # <<>>
    PROVE  /\ Len(q) \in Nat \ {0} /\ Head(q) = q[1] /\ q[1] \in S /\ Tail(q) \in Seq(S)
           /\ Len(Tail(q)) \in Nat /\ Len(Tail(q)) = Len(q) - 1
           /\ \A i \in 1..Len(Tail(q)) : Tail(q)[i] = q[i+1]
           /\ Tail(q) = <<>> <=> Len(Tail(q)) = 0
<1>1. Len(q) \in Nat \ {0}
  BY EmptySeq
<1>2. /\ Tail(q) \in Seq(S) /\ Len(Tail(q)) = Len(q) - 1
      /\ \A i \in 1..Len(Tail(q)) : Tail(q)[i] = q[i+1]
  BY HeadTailProperties
<1>3. Tail(q) = <<>> <=> Len(Tail(q)) = 0
  BY <1>2, EmptySeq
<1>4. Head(q) = q[1] /\ q[1] \in S
  BY <1>1
<1> QED
  BY <1>1, <1>2, <1>3, <1>4

LEMMA CursorFacts ==
    ASSUME NEW at \in Cursors
    PROVE  at[1] \in 0..ViewMaxEpoch /\ at[2] \in 0..ViewMaxLedger /\ at[3] \in 0..ViewMaxSeq
           /\ at = <<at[1], at[2], at[3]>>
BY DEF Cursors

LEMMA EventFacts ==
    ASSUME NEW ev \in Events
    PROVE  /\ ev.at \in Cursors /\ ev.at[1] \in Nat /\ ev.at[2] \in Nat /\ ev.at[3] \in Nat
           /\ ev.kind \in {"none", "delta", "dropped", "snapshot"}
           /\ ev = NoEvent => ev.kind = "none"
BY CursorFacts, ViewAssumption DEF Events, NoEvent

LEMMA NoEventIsEvent == NoEvent \in Events /\ <<0, 0, 0>> \in Cursors
BY ViewAssumption DEF NoEvent, Events, Cursors

LEMMA DocFacts ==
    ASSUME NEW doc \in Docs
    PROVE  /\ doc.e \in 1..ViewMaxEpoch /\ doc.s \in 0..ViewMaxSeq /\ doc.run \in BOOLEAN
           /\ doc.e \in Nat /\ doc.s \in Nat /\ DocAt(doc) \in Cursors
           /\ DocAt(doc)[1] = doc.e /\ DocAt(doc)[3] = doc.s
BY ViewAssumption DEF Docs, DocAt, Cursors

LEMMA SnapshotFacts ==
    ASSUME NEW doc \in Docs, NEW led \in 0..ViewMaxLedger
    PROVE  /\ SnapshotAt(doc, led) \in Cursors
           /\ SnapshotAt(doc, led)[1] = doc.e /\ SnapshotAt(doc, led)[3] = doc.s
<1>1. doc.e \in 1..ViewMaxEpoch /\ doc.s \in 0..ViewMaxSeq /\ doc.run \in BOOLEAN
  BY DocFacts
<1>2. (IF doc.run THEN 0 ELSE led) \in 0..ViewMaxLedger
  BY ViewAssumption
<1> QED
  BY <1>1, <1>2, ViewAssumption DEF SnapshotAt, Cursors

LEMMA SnapshotIsEvent ==
    ASSUME NEW at \in Cursors
    PROVE  /\ SnapshotEvent(at) \in Events /\ SnapshotEvent(at) # NoEvent
           /\ SnapshotEvent(at).kind = "snapshot" /\ SnapshotEvent(at).at = at
BY DEF SnapshotEvent, Events, NoEvent

LEMMA AnswersTyped ==
    ASSUME ViewTyped, NEW led \in LedgerAnswers
    PROVE  led \in 0..ViewMaxLedger /\ (led = vled \/ led = 0)
BY ViewAssumption DEF LedgerAnswers, ViewTyped

LEMMA WatchTyped ==
    ASSUME ViewTyped, NEW w \in Watchers
    PROVE  /\ vbuf[w] \in Seq(Events) /\ vout[w] \in Seq(Events) /\ vfull[w] \in Events
           /\ vsub[w] \in Subs /\ vcli[w] \in Clients /\ vlost[w] \in BOOLEAN
           /\ vsync[w] \in {"no", "part", "whole"} /\ vread[w] \in Readings
           /\ vsub[w].at \in Cursors /\ vsub[w].send \in Events
           /\ vsub[w].pc \in {"off", "base", "on", "closed"}
           /\ vcli[w].at \in Cursors /\ vcli[w].torn \in BOOLEAN
           /\ Len(vbuf[w]) \in Nat /\ Len(vout[w]) \in Nat
           /\ vbuf[w] # <<>> => Head(vbuf[w]) \in Events /\ Tail(vbuf[w]) \in Seq(Events)
           /\ vout[w] # <<>> => Head(vout[w]) \in Events /\ Tail(vout[w]) \in Seq(Events)
<1>1. /\ vbuf[w] \in Seq(Events) /\ vout[w] \in Seq(Events) /\ vfull[w] \in Events
      /\ vsub[w] \in Subs /\ vcli[w] \in Clients /\ vlost[w] \in BOOLEAN
      /\ vsync[w] \in {"no", "part", "whole"} /\ vread[w] \in Readings
  BY DEF ViewTyped
<1>2. /\ vbuf[w] # <<>> => Head(vbuf[w]) \in Events /\ Tail(vbuf[w]) \in Seq(Events)
      /\ vout[w] # <<>> => Head(vout[w]) \in Events /\ Tail(vout[w]) \in Seq(Events)
      /\ Len(vbuf[w]) \in Nat /\ Len(vout[w]) \in Nat
  BY <1>1, HeadTailProperties, LenProperties
<1> QED
  BY <1>1, <1>2 DEF Subs, Clients

LEMMA InitView == ViewInit => ViewIInv
<1> SUFFICES ASSUME ViewInit PROVE ViewIInv
  OBVIOUS
<1>1. NoEvent \in Events /\ NoEvent.at = <<0, 0, 0>> /\ <<0, 0, 0>> \in Cursors
  BY NoEventIsEvent DEF NoEvent
<1>2. ViewTyped
  BY <1>1, ViewAssumption DEF ViewInit, ViewTyped, Docs, Subs, Clients, Readings
<1>3. Published
  BY DEF ViewInit, Published
<1>4. ASSUME NEW w \in Watchers PROVE Watched(w)
  <2>1. /\ vdoc.e = 1 /\ vdoc.s = 0 /\ vbuf[w] = <<>> /\ vout[w] = <<>> /\ vfull[w].at = <<0, 0, 0>>
        /\ vsub[w].at = <<0, 0, 0>> /\ vsub[w].pc = "off" /\ vsub[w].send = NoEvent
        /\ vcli[w].at = <<0, 0, 0>> /\ vcli[w].torn = FALSE /\ Idle(w)
    BY <1>1 DEF ViewInit, Idle
  <2>2. NotAhead(w)
    BY <2>1 DEF NotAhead, Behind
  <2>3. Chained(vcli[w], vout[w], vsub[w])
    BY <2>1 DEF Chained, After
  <2> QED
    BY <2>1, <2>2, <2>3, ViewAssumption DEF Watched, Reads, Arriving, Synced, Channels
<1> QED
  BY <1>2, <1>3, <1>4 DEF ViewIInv

\* A snapshot of the document that was read is never older than what it is compared with.
LEMMA ReconciledFacts ==
    ASSUME ViewTyped, NEW w \in Watchers, Reads(w), ~Idle(w), NEW led \in 0..ViewMaxLedger,
           NEW now, now = SnapshotAt(vread[w].doc, led)
    PROVE  \/ Reconciled(w, now) = vsub[w] /\ vsub[w].at = now
           \/ Reconciled(w, now) = [vsub[w] EXCEPT !.at = now, !.send = SnapshotEvent(now)]
<1> DEFINE doc == vread[w].doc
<1>1. /\ doc \in Docs /\ vread[w].observed \in Cursors /\ vsub[w].at \in Cursors
      /\ Covers(doc, vread[w].observed) /\ Covers(doc, vsub[w].at)
  BY WatchTyped DEF Reads
<1>2. now[1] = doc.e /\ now[3] = doc.s /\ doc.e \in Nat /\ doc.s \in Nat
  BY <1>1, SnapshotFacts, DocFacts
<1> HIDE DEF doc
<1>3. ASSUME NEW at \in Cursors, Covers(doc, at)
      PROVE  ~(EpochOf(now) = EpochOf(at) /\ now[3] < at[3])
  <2>1. at[1] \in Nat /\ at[3] \in Nat
    BY CursorFacts, ViewAssumption
  <2> QED
    BY <1>2, <1>3, <2>1 DEF Covers, EpochOf
<1>4. /\ ~(EpochOf(now) = EpochOf(vread[w].observed) /\ now[3] < vread[w].observed[3])
      /\ ~(EpochOf(now) = EpochOf(vsub[w].at) /\ now[3] < vsub[w].at[3])
  BY <1>1, <1>3
<1> QED
  BY <1>4, Zenon DEF Reconciled

LEMMA OriginBehind ==
    ASSUME ViewTyped
    PROVE  <<0, 0, 0>> \in Cursors /\ Behind(<<0, 0, 0>>)
BY NoEventIsEvent DEF ViewTyped, Docs, Behind

LEMMA DocumentTyped ==
    ASSUME ViewTyped, UpdateView \/ RecreateView \/ LedgerChanges
    PROVE  ViewTyped'
<1>1. vdoc' \in Docs /\ vled' \in 0..ViewMaxLedger
  <2>1. vdoc \in Docs /\ vled \in 0..ViewMaxLedger
    BY DEF ViewTyped
  <2>2. CASE UpdateView
    <3>1. PICK b \in BOOLEAN : vdoc' = [vdoc EXCEPT !.s = @ + 1, !.run = b]
      BY <2>2 DEF UpdateView
    <3>2. vdoc.s + 1 \in 0..ViewMaxSeq
      <4>1. vdoc.s < ViewMaxSeq
        BY <2>2, Zenon DEF UpdateView
      <4> QED
        BY <2>1, <4>1, ViewAssumption DEF Docs
    <3>3. vdoc' \in Docs
      BY <2>1, <3>1, <3>2 DEF Docs
    <3> QED
      BY <2>1, <2>2, <3>3 DEF UpdateView
  <2>3. CASE RecreateView
    BY <2>1, <2>3, ViewAssumption DEF RecreateView, NewView, Docs
  <2>4. CASE LedgerChanges
    BY <2>1, <2>4, ViewAssumption DEF LedgerChanges, Docs
  <2> QED
    BY <2>2, <2>3, <2>4
<1>2. vdoc'.e \in 1..ViewMaxEpoch /\ vdoc'.s \in 0..ViewMaxSeq
  BY <1>1 DEF Docs
<1>3. Delta \in Events
  BY <1>2, ViewAssumption DEF Delta, Events, Cursors
<1>4. /\ vpub' \subseteq Events
      /\ vlost' \in [Watchers -> BOOLEAN] /\ vsync' \in [Watchers -> {"no", "part", "whole"}]
  BY <1>3 DEF ViewTyped, UpdateView, RecreateView, LedgerChanges, Updated, Changed
<1>5. UNCHANGED <<vbuf, vfull, vsub, vread, vout, vcli>>
  BY DEF UpdateView, RecreateView, LedgerChanges
<1> QED
  BY <1>1, <1>4, <1>5 DEF ViewTyped

LEMMA PublishTyped ==
    ASSUME ViewTyped, NEW ev \in vpub, PublishDelta(ev) \/ LosePublication(ev)
    PROVE  ViewTyped'
<1>1. ev \in Events /\ NoEvent \in Events
  BY NoEventIsEvent DEF ViewTyped
<1>2. CASE PublishDelta(ev)
  <2>1. ASSUME NEW w \in Watchers
        PROVE  (IF w \in Subscribed THEN Enqueue(w, ev) ELSE vbuf[w]) \in Seq(Events)
    BY <1>1, WatchTyped, AppendProperties DEF Enqueue
  <2>2. ASSUME NEW w \in Watchers
        PROVE  (IF w \in Subscribed /\ Len(vbuf[w]) = ViewBuffer THEN ev ELSE NoEvent) \in Events
    BY <1>1
  <2>3. vbuf' \in [Watchers -> Seq(Events)] /\ vfull' \in [Watchers -> Events]
    BY <1>2, <2>1, <2>2 DEF PublishDelta
  <2> QED
    BY <1>2, <2>3 DEF PublishDelta, ViewTyped
<1>3. CASE LosePublication(ev)
  <2>1. vlost' \in [Watchers -> BOOLEAN]
    BY <1>3 DEF LosePublication, ViewTyped
  <2> QED
    BY <1>3, <2>1 DEF LosePublication, ViewTyped
<1> QED
  BY <1>2, <1>3

LEMMA WatcherTyped ==
    ASSUME ViewTyped, NEW w \in Watchers, Watched(w),
           \/ Overflow(w) \/ SubscribeView(w) \/ BaselineDocument(w) \/ HandleDelta(w)
           \/ HandleOther(w) \/ (\E led \in LedgerAnswers : ReadLedger(w, led))
           \/ ReadFailsFor(w) \/ TickView(w) \/ SendEvent(w) \/ ApplyEvent(w)
    PROVE  ViewTyped'
<1>1. NoEvent \in Events /\ <<0, 0, 0>> \in Cursors
  BY NoEventIsEvent
<1>2. vsub[w] \in Subs /\ vcli[w] \in Clients /\ vsub[w].send \in Events
  BY WatchTyped
<1>3. CASE Overflow(w)
  <2>1. [vfull[w] EXCEPT !.kind = "dropped"] \in Events
    BY WatchTyped DEF Events
  <2>2. Overflown(w) \in Seq(Events)
    BY <2>1, WatchTyped, AppendProperties, EmptySeq DEF Overflown
  <2> QED
    BY <1>1, <1>3, <2>2 DEF Overflow, ViewTyped
<1>4. CASE SubscribeView(w)
  <2>1. [vsub[w] EXCEPT !.pc = "base"] \in Subs
    BY <1>2 DEF Subs
  <2> QED
    BY <1>4, <2>1 DEF SubscribeView, ViewTyped
<1>5. CASE \E led \in LedgerAnswers : ReadLedger(w, led)
  <2>1. PICK led \in LedgerAnswers : ReadLedger(w, led)
    BY <1>5
  <2> DEFINE now == SnapshotAt(vread[w].doc, led)
             sync == IF vsync[w] = "part" /\ (vread[w].doc.run \/ led = vled) THEN "whole" ELSE vsync[w]
  <2>2. now \in Cursors /\ SnapshotEvent(now) \in Events /\ led \in 0..ViewMaxLedger /\ ~Idle(w)
    BY <2>1, AnswersTyped, SnapshotFacts, SnapshotIsEvent DEF Watched, Reads, ReadLedger
  <2>3. /\ vsub' = [vsub EXCEPT ![w] = [pc |-> "on", at |-> now, send |-> NoEvent]]
           \/ vsub' = [vsub EXCEPT ![w] = Reconciled(w, now)]
        /\ vout' = [vout EXCEPT ![w] = <<SnapshotEvent(now)>>] \/ vout' = vout
        /\ vread' = [vread EXCEPT ![w] = NoReading] /\ vsync' = [vsync EXCEPT ![w] = sync]
        /\ UNCHANGED <<vdoc, vled, vpub, vlost, vbuf, vfull, vcli>>
    BY <2>1 DEF ReadLedger
  <2>4. Reconciled(w, now) = vsub[w]
        \/ Reconciled(w, now) = [vsub[w] EXCEPT !.at = now, !.send = SnapshotEvent(now)]
    BY <2>2, ReconciledFacts DEF Watched
  <2>5. sync \in {"no", "part", "whole"}
    BY WatchTyped
  <2> HIDE DEF now, sync
  <2>6. /\ [pc |-> "on", at |-> now, send |-> NoEvent] \in Subs
        /\ [vsub[w] EXCEPT !.at = now, !.send = SnapshotEvent(now)] \in Subs
    BY <1>1, <1>2, <2>2 DEF Subs
  <2>7. <<SnapshotEvent(now)>> \in Seq(Events) /\ NoReading \in Readings
    BY <2>2 DEF Readings
  <2>8. vsub' \in [Watchers -> Subs] /\ vout' \in [Watchers -> Seq(Events)]
    <3>1. Reconciled(w, now) \in Subs
      BY <1>2, <2>4, <2>6
    <3>2. vsub' \in [Watchers -> Subs]
      BY <2>3, <2>6, <3>1 DEF ViewTyped
    <3>3. vout' \in [Watchers -> Seq(Events)]
      BY <2>3, <2>7 DEF ViewTyped
    <3> QED
      BY <3>2, <3>3
  <2>9. vread' \in [Watchers -> Readings] /\ vsync' \in [Watchers -> {"no", "part", "whole"}]
    BY <2>3, <2>5, <2>7 DEF ViewTyped
  <2> QED
    BY <2>3, <2>8, <2>9 DEF ViewTyped
<1>6. ASSUME NEW at \in Cursors
      PROVE  [doc |-> vdoc, observed |-> at] \in Readings
  BY DEF ViewTyped, Readings
<1>7. ASSUME vbuf[w] # <<>>
      PROVE  /\ Head(vbuf[w]) \in Events /\ Head(vbuf[w]).at \in Cursors
             /\ Tail(vbuf[w]) \in Seq(Events)
  BY <1>7, WatchTyped, EventFacts
<1>8. CASE HandleDelta(w)
  <2>1. [vsub[w] EXCEPT !.at = Head(vbuf[w]).at, !.send = Head(vbuf[w])] \in Subs
    BY <1>2, <1>7, <1>8 DEF HandleDelta, Subs
  <2> QED
    BY <1>2, <1>7, <1>8, <2>1 DEF HandleDelta, ViewTyped
<1>9. CASE HandleOther(w)
  BY <1>6, <1>7, <1>9 DEF HandleOther, ReadDocument, ViewTyped
<1>10. CASE ReadFailsFor(w)
  BY <1>7, <1>10 DEF ReadFailsFor, ViewTyped
<1>11. CASE TickView(w)
  BY <1>1, <1>6, <1>11 DEF TickView, ReadDocument, ViewTyped
<1>12. CASE SendEvent(w)
  <2>1. [vsub[w] EXCEPT !.send = NoEvent] \in Subs
    BY <1>1, <1>2 DEF Subs
  <2>2. Append(vout[w], vsub[w].send) \in Seq(Events)
    BY <1>2, WatchTyped, AppendProperties
  <2> QED
    BY <1>12, <2>1, <2>2 DEF SendEvent, ViewTyped
<1>13. CASE ApplyEvent(w)
  <2>1. Head(vout[w]) \in Events /\ Tail(vout[w]) \in Seq(Events) /\ Head(vout[w]).at \in Cursors
    BY <1>13, WatchTyped, EventFacts DEF ApplyEvent
  <2>2. \E x \in Clients : vcli' = [vcli EXCEPT ![w] = x]
    <3>1. [at |-> Head(vout[w]).at, torn |-> FALSE] \in Clients
      BY <2>1 DEF Clients
    <3>2. \A b \in BOOLEAN : [at |-> Head(vout[w]).at, torn |-> b] \in Clients
      BY <2>1 DEF Clients
    <3> QED
      BY <1>2, <1>13, <3>1, <3>2 DEF ApplyEvent, Clients
  <2> QED
    BY <1>13, <2>1, <2>2 DEF ApplyEvent, ViewTyped
<1>14. CASE BaselineDocument(w)
  BY <1>1, <1>6, <1>14 DEF BaselineDocument, ReadDocument, ViewTyped
<1> QED
  BY <1>3, <1>4, <1>5, <1>8, <1>9, <1>10, <1>11, <1>12, <1>13, <1>14

\* A watcher is not affected by a step that changes nothing of it.
LEMMA ElsewhereKept ==
    ASSUME NEW v \in Watchers, Watched(v), UNCHANGED <<vdoc, vled, vpub>>,
           vlost'[v] = vlost[v], vbuf'[v] = vbuf[v], vfull'[v] = vfull[v], vsub'[v] = vsub[v],
           vread'[v] = vread[v], vout'[v] = vout[v], vcli'[v] = vcli[v], vsync'[v] = vsync[v]
    PROVE  Watched(v)'
<1>1. NotAhead(v)' /\ Arriving(v)' /\ Channels(v)'
  BY DEF Watched, NotAhead, Behind, Arriving, Attending, Place, Idle, DocAt, Latest, Channels
<1>2. Synced(v)' /\ Reads(v)'
  BY DEF Watched, Synced, Shown, Reads, Idle, DocAt, Covers, Behind
<1> QED
  BY <1>1, <1>2 DEF Watched

\* An event in turn is handed over to be sent.
LEMMA ChainGrows ==
    ASSUME NEW c \in Clients, NEW q \in Seq(Events), NEW s \in Subs, Chained(c, q, s),
           s.send = NoEvent, NEW ev \in Events, ev # NoEvent, Fits(s.at, ev)
    PROVE  Chained(c, q, [s EXCEPT !.at = ev.at, !.send = ev])
<1> DEFINE t == [s EXCEPT !.at = ev.at, !.send = ev]
<1>1. t.at = ev.at /\ t.send = ev
  BY DEF Subs
<1> HIDE DEF t
<1> QED
  BY <1>1 DEF Chained

\* The event is sent.
LEMMA ChainSends ==
    ASSUME NEW c \in Clients, NEW q \in Seq(Events), NEW s \in Subs, Chained(c, q, s),
           s.send # NoEvent
    PROVE  Chained(c, Append(q, s.send), [s EXCEPT !.send = NoEvent])
<1> DEFINE t == [s EXCEPT !.send = NoEvent]
           r == Append(q, s.send)
<1>1. t.at = s.at /\ t.send = NoEvent /\ s.send \in Events
  BY DEF Subs
<1>2. /\ r # <<>> /\ Len(r) = Len(q) + 1 /\ r[Len(q) + 1] = s.send
      /\ \A i \in 1..Len(q) : r[i] = q[i]
      /\ Len(q) \in Nat /\ q # <<>> => Len(q) >= 1
  BY <1>1, AppendProperties, LenProperties, EmptySeq
<1> HIDE DEF t, r
<1>3. Fits(After(c, q), s.send) /\ s.send.at = s.at
  BY DEF Chained
<1>4. ASSUME NEW i \in 1..Len(r)
      PROVE  Fits(IF i = 1 THEN c.at ELSE r[i-1].at, r[i])
  <2>1. CASE i = Len(q) + 1
    <3>1. After(c, q) = IF i = 1 THEN c.at ELSE r[i-1].at
      BY <1>2, <2>1 DEF After
    <3> QED
      BY <1>2, <1>3, <2>1, <3>1
  <2>2. CASE i # Len(q) + 1
    <3>1. i \in 1..Len(q) /\ r[i] = q[i] /\ (i # 1 => r[i-1] = q[i-1])
      BY <1>2, <2>2
    <3> QED
      BY <3>1 DEF Chained
  <2> QED
    BY <2>1, <2>2
<1>5. After(c, r) = t.at
  BY <1>1, <1>2, <1>3 DEF After
<1> QED
  BY <1>1, <1>4, <1>5 DEF Chained, r, t

\* The client applies the first event that was sent.
Applied(c, ev) ==
    IF ev.kind = "snapshot" THEN [at |-> ev.at, torn |-> FALSE]
    ELSE [at |-> ev.at, torn |-> c.torn \/ EpochOf(ev.at) # EpochOf(c.at) \/ ev.at[3] # c.at[3] + 1]

LEMMA ChainApplies ==
    ASSUME NEW c \in Clients, NEW q \in Seq(Events), NEW s \in Subs, Chained(c, q, s), q # <<>>
    PROVE  Chained(Applied(c, Head(q)), Tail(q), s)
<1> DEFINE d == Applied(c, Head(q))
           r == Tail(q)
<1>1. /\ Len(q) \in Nat \ {0} /\ Head(q) = q[1] /\ r \in Seq(Events)
      /\ Len(r) = Len(q) - 1 /\ \A i \in 1..Len(r) : r[i] = q[i+1]
      /\ r = <<>> <=> Len(r) = 0
  BY Parts
<1>2. Fits(c.at, q[1]) /\ ~c.torn
  BY <1>1 DEF Chained
<1>3. ~d.torn /\ d.at = q[1].at
  BY <1>1, <1>2 DEF Applied, Fits, InTurn, EpochOf
<1> HIDE DEF d, r
<1>4. ASSUME NEW i \in 1..Len(r)
      PROVE  Fits(IF i = 1 THEN d.at ELSE r[i-1].at, r[i])
  <2>1. i + 1 \in 1..Len(q) /\ i + 1 # 1 /\ r[i] = q[i+1]
    BY <1>1
  <2>2. Fits(q[(i + 1) - 1].at, q[i+1])
    BY <2>1 DEF Chained
  <2>3. (IF i = 1 THEN d.at ELSE r[i-1].at) = q[i].at /\ (i + 1) - 1 = i
    BY <1>1, <1>3
  <2> QED
    BY <2>1, <2>2, <2>3
<1>5. After(d, r) = After(c, q)
  BY <1>1, <1>3 DEF After
<1> QED
  BY <1>3, <1>4, <1>5 DEF Chained, d, r

LEMMA ChainStarts ==
    ASSUME NEW c \in Clients, NEW s \in Subs, NEW ev \in Events, ev.kind = "snapshot",
           ~c.torn, s.send = NoEvent, s.at = ev.at
    PROVE  Chained(c, <<ev>>, s)
BY DEF Chained, After, Fits

-----------------------------------------------------------------------------
(* The steps of the document and of its publishers.                        *)

LEMMA DocumentWatched ==
    ASSUME ViewIInv, UpdateView \/ RecreateView \/ LedgerChanges
    PROVE  Published' /\ \A w \in Watchers : Watched(w)'
<1>1. /\ ViewTyped /\ vdoc.e \in Nat /\ vdoc.s \in Nat
      /\ UNCHANGED <<vbuf, vfull, vsub, vread, vout, vcli>>
      /\ vsync' = [w \in Watchers |-> "no"]
  <2>1. /\ ViewTyped /\ UNCHANGED <<vbuf, vfull, vsub, vread, vout, vcli>>
        /\ vsync' = [w \in Watchers |-> "no"]
    BY Zenon DEF ViewIInv, UpdateView, RecreateView, LedgerChanges, Updated, Changed
  <2> QED
    BY <2>1, DocFacts DEF ViewTyped
<1>2. \/ /\ vdoc'.e = vdoc.e /\ vdoc'.s = vdoc.s + 1 /\ vpub' = vpub \cup {Delta}
      \/ vdoc'.e = vdoc.e + 1 /\ vdoc'.s = 0 /\ vpub' = vpub
      \/ vdoc' = vdoc /\ vpub' = vpub /\ vlost' = vlost
  <2>1. CASE UpdateView
    <3>1. PICK b \in BOOLEAN : vdoc' = [vdoc EXCEPT !.s = @ + 1, !.run = b]
      BY <2>1 DEF UpdateView
    <3>2. vdoc'.e = vdoc.e /\ vdoc'.s = vdoc.s + 1
      BY <1>1, <3>1 DEF ViewTyped, Docs
    <3>3. vpub' = vpub \cup {Delta}
      BY <2>1, Zenon DEF UpdateView
    <3> QED
      BY <3>2, <3>3
  <2>2. CASE RecreateView
    BY <2>2 DEF RecreateView, NewView
  <2>3. CASE LedgerChanges
    BY <2>3 DEF LedgerChanges
  <2> QED
    BY <2>1, <2>2, <2>3
<1>3. ASSUME NEW at \in Cursors, Behind(at) PROVE Behind(at)'
  <2>1. at[1] \in Nat /\ at[3] \in Nat
    BY CursorFacts, ViewAssumption
  <2> QED
    BY <1>1, <1>2, <1>3, <2>1 DEF Behind
<1>4. /\ Delta.kind = "delta" /\ Delta.at[2] = 0
      /\ Delta.at[1] = vdoc'.e /\ Delta.at[3] = vdoc'.s
  BY DEF Delta
<1>5. vdoc'.e \in Nat /\ vdoc'.s \in Nat
  BY <1>1, <1>2
<1>6. Published'
  <2>1. ASSUME NEW ev \in vpub', ev = Delta
        PROVE  ev.kind = "delta" /\ ev.at[2] = 0 /\ Behind(ev.at)'
    <3>1. ev.kind = "delta" /\ ev.at[2] = 0 /\ ev.at[1] = vdoc'.e /\ ev.at[3] = vdoc'.s
      BY <1>4, <2>1
    <3> QED
      BY <1>5, <3>1 DEF Behind
  <2>2. ASSUME NEW ev \in vpub PROVE ev.kind = "delta" /\ ev.at[2] = 0 /\ Behind(ev.at)'
    <3>1. ev.at \in Cursors
      BY <1>1, EventFacts DEF ViewTyped
    <3> QED
      BY <1>3, <3>1 DEF ViewIInv, Published
  <2>3. \A ev \in vpub' : ev \in vpub \/ ev = Delta
    BY <1>2
  <2>4. \A ev \in vpub' : ev.kind = "delta" /\ ev.at[2] = 0 /\ Behind(ev.at)'
    BY <2>1, <2>2, <2>3
  <2> QED
    BY <2>4 DEF Published
<1>7. ASSUME NEW w \in Watchers PROVE Watched(w)'
  <2>1. Watched(w) /\ vsub[w].at \in Cursors /\ vfull[w].at \in Cursors /\ vbuf[w] \in Seq(Events)
    BY <1>1, WatchTyped, EventFacts DEF ViewIInv
  <2>2. NotAhead(w)'
    <3>1. \A i \in 1..Len(vbuf[w]) : vbuf[w][i].at \in Cursors
      BY <2>1, EventFacts
    <3>2. /\ Behind(vsub[w].at)' /\ Behind(vfull[w].at)'
          /\ \A i \in 1..Len(vbuf[w]) : Behind(vbuf[w][i].at)'
      BY <1>1, <1>3, <2>1, <3>1 DEF Watched, NotAhead
    <3> QED
      BY <1>1, <3>2 DEF NotAhead
  <2>3. Chained(vcli[w], vout[w], vsub[w])' /\ vsub'[w].pc # "closed" /\ Channels(w)'
    BY <1>1, <2>1 DEF Watched, Channels
  <2>4. Synced(w)' /\ Reads(w)'
    <3>1. Synced(w)'
      BY <1>1 DEF Synced
    <3>2. vread[w].doc \in Docs /\ Behind(DocAt(vread[w].doc)) => Behind(DocAt(vread[w].doc))'
      BY <1>1, <1>3, DocFacts DEF DocAt
    <3> QED
      BY <1>1, <2>1, <3>1, <3>2 DEF Watched, Reads, Idle, DocAt, Covers
  <2>5. Arriving(w)'
    <3>1. CASE vdoc' = vdoc /\ vpub' = vpub /\ vlost' = vlost
      BY <1>1, <2>1, <3>1 DEF Watched, Arriving, Attending, Place, Idle, DocAt, Latest
    <3>2. CASE vpub' = vpub \cup {Delta}
      <4>1. PICK ev \in vpub' : ev = Delta
        BY <3>2
      <4>2. ev.at[1] = vdoc'.e /\ ev.at[3] = vdoc'.s
        BY <1>4, <4>1
      <4>3. Latest(ev.at)'
        BY <4>2 DEF Latest
      <4> QED
        BY <4>1, <4>3 DEF Arriving
    <3>3. CASE vdoc'.s = 0
      BY <3>3 DEF Arriving
    <3> QED
      BY <1>2, <3>1, <3>2, <3>3
  <2> QED
    BY <2>2, <2>3, <2>4, <2>5 DEF Watched
<1> QED
  BY <1>6, <1>7

LEMMA PublishWatched ==
    ASSUME ViewIInv, NEW ev \in vpub, PublishDelta(ev)
    PROVE  Published' /\ \A w \in Watchers : Watched(w)'
<1>1. /\ ViewTyped /\ Published /\ ev \in Events /\ ev.kind = "delta" /\ ev # NoEvent
      /\ Behind(ev.at) /\ vpub' = vpub \ {ev}
      /\ UNCHANGED <<vdoc, vled, vlost, vsub, vread, vout, vcli, vsync>>
      /\ \A w \in Watchers : vfull[w] = NoEvent
  BY EventFacts DEF ViewIInv, ViewTyped, Published, PublishDelta, NoEvent
<1>2. Published'
  BY <1>1 DEF Published, Behind
<1>3. ASSUME NEW w \in Watchers PROVE Watched(w)'
  <2>1. /\ Watched(w) /\ vbuf[w] \in Seq(Events) /\ Len(vbuf[w]) \in Nat
        /\ Behind(NoEvent.at) /\ NoEvent.at = <<0, 0, 0>>
    BY <1>1, WatchTyped, OriginBehind DEF ViewIInv, NoEvent
  <2>2. vbuf'[w] = IF w \in Subscribed THEN Enqueue(w, ev) ELSE vbuf[w]
    BY DEF PublishDelta
  <2>3. vfull'[w] = IF w \in Subscribed /\ Len(vbuf[w]) = ViewBuffer THEN ev ELSE NoEvent
    BY DEF PublishDelta
  <2>4. \/ vbuf'[w] = vbuf[w]
        \/ /\ Len(vbuf[w]) < ViewBuffer /\ Len(vbuf'[w]) = Len(vbuf[w]) + 1
           /\ vbuf'[w][Len(vbuf[w]) + 1] = ev
           /\ \A i \in 1..Len(vbuf[w]) : vbuf'[w][i] = vbuf[w][i]
    BY <1>1, <2>1, <2>2, AppendProperties DEF Enqueue
  <2>5. Attending(w) => w \in Subscribed
    BY <2>1 DEF Watched, Reads, Attending, Subscribed
  <2>6. Attending(w) =>
           \/ vfull'[w] # NoEvent
           \/ Len(vbuf'[w]) = Len(vbuf[w]) + 1 /\ vbuf'[w][Len(vbuf[w]) + 1] = ev
    <3>1. CASE Len(vbuf[w]) < ViewBuffer
      BY <1>1, <2>1, <2>2, <2>5, <3>1, AppendProperties DEF Enqueue
    <3>2. CASE Len(vbuf[w]) = ViewBuffer
      BY <1>1, <2>3, <2>5, <3>2
    <3> QED
      BY <2>1, <3>1, <3>2, ViewAssumption DEF Watched, Channels
  <2>7. NotAhead(w)'
    <3>1. \A i \in 1..Len(vbuf'[w]) : Behind(vbuf'[w][i].at)
      BY <1>1, <2>1, <2>4 DEF Watched, NotAhead
    <3>2. Behind(vfull'[w].at)
      BY <1>1, <2>1, <2>3
    <3> QED
      BY <1>1, <2>1, <3>1, <3>2 DEF Watched, NotAhead, Behind
  <2>8. Channels(w)'
    BY <1>1, <2>1, <2>4, ViewAssumption DEF Watched, Channels
  <2>9. Chained(vcli[w], vout[w], vsub[w])' /\ vsub'[w].pc # "closed" /\ Synced(w)'
    BY <1>1, <2>1 DEF Watched, Synced, Shown, Idle, DocAt
  <2>11. Reads(w)'
    BY <1>1, <2>1 DEF Watched, Reads, Idle, DocAt, Covers, Behind
  <2>10. Arriving(w)'
    <3> SUFFICES ASSUME Attending(w), vdoc.s > 0, ~vlost[w], ~Latest(Place(w)), vfull'[w] = NoEvent
                 PROVE  \/ \E d \in vpub' : Latest(d.at)
                        \/ \E i \in 1..Len(vbuf'[w]) : vbuf'[w][i].kind = "dropped" \/ Latest(vbuf'[w][i].at)
      BY <1>1 DEF Arriving, Attending, Place, Idle, DocAt, Latest
    <3>1. /\ Len(vbuf'[w]) = Len(vbuf[w]) + 1 /\ vbuf'[w][Len(vbuf[w]) + 1] = ev
          /\ Len(vbuf[w]) + 1 \in 1..Len(vbuf'[w])
      BY <2>1, <2>6
    <3>2. CASE \E i \in 1..Len(vbuf[w]) : vbuf[w][i].kind = "dropped" \/ Latest(vbuf[w][i].at)
      BY <2>1, <2>4, <3>1, <3>2
    <3>3. CASE \E d \in vpub : Latest(d.at)
      <4>1. PICK d \in vpub : Latest(d.at)
        BY <3>3
      <4>2. CASE d = ev
        BY <3>1, <4>1, <4>2
      <4>3. CASE d # ev
        BY <1>1, <4>1, <4>3
      <4> QED
        BY <4>2, <4>3
    <3> QED
      BY <1>1, <2>1, <3>2, <3>3 DEF Watched, Arriving
  <2> QED
    BY <2>7, <2>8, <2>9, <2>10, <2>11 DEF Watched
<1> QED
  BY <1>2, <1>3

LEMMA LoseWatched ==
    ASSUME ViewIInv, NEW ev \in vpub, LosePublication(ev)
    PROVE  Published' /\ \A w \in Watchers : Watched(w)'
<1>1. /\ vpub' = vpub \ {ev} /\ UNCHANGED <<vdoc, vled, vbuf, vfull, vsub, vread, vout, vcli, vsync>>
      /\ \A w \in Watchers : vlost'[w] = (vlost[w] \/ ev.at = <<vdoc.e, 0, vdoc.s>>)
      /\ ev \in Events /\ ev.at \in Cursors /\ ev.at[2] = 0
  BY EventFacts DEF LosePublication, ViewIInv, ViewTyped, Published
<1>2. Published'
  BY <1>1 DEF ViewIInv, Published, Behind
<1>3. ASSUME NEW w \in Watchers PROVE Watched(w)'
  <2>1. NotAhead(w)' /\ Channels(w)' /\ Synced(w)' /\ Chained(vcli[w], vout[w], vsub[w])'
        /\ vsub'[w].pc # "closed" /\ Reads(w)'
    BY <1>1 DEF ViewIInv, Watched, NotAhead, Behind, Channels, Synced, Shown, Reads, Idle, DocAt, Covers
  <2>2. Latest(ev.at) => vlost'[w]
    BY <1>1, CursorFacts DEF Latest
  <2>3. vlost[w] => vlost'[w]
    BY <1>1
  <2>4. \A d \in vpub : d = ev \/ d \in vpub'
    BY <1>1
  <2>5. Arriving(w) /\ UNCHANGED <<vdoc, vsub, vread, vfull, vbuf>>
    BY <1>1 DEF ViewIInv, Watched
  <2>6. Arriving(w)'
    BY <2>2, <2>3, <2>4, <2>5 DEF Arriving, Attending, Place, Idle, DocAt, Latest
  <2> QED
    BY <2>1, <2>6 DEF Watched
<1> QED
  BY <1>2, <1>3

-----------------------------------------------------------------------------
(* The steps of a subscription and its client.                             *)

LEMMA OverflowWatched ==
    ASSUME ViewIInv, NEW w \in Watchers, Overflow(w)
    PROVE  Watched(w)'
<1>1. /\ ViewTyped /\ Watched(w) /\ vfull[w] \in Events /\ vbuf[w] \in Seq(Events)
      /\ UNCHANGED <<vdoc, vled, vpub, vlost, vsub, vread, vout, vcli, vsync>>
      /\ vbuf'[w] = Overflown(w) /\ vfull'[w] = NoEvent
  BY WatchTyped DEF ViewIInv, Overflow, ViewTyped
<1> DEFINE rest == IF vbuf[w] = <<>> THEN vbuf[w] ELSE Tail(vbuf[w])
           mark == [vfull[w] EXCEPT !.kind = "dropped"]
<1>2. mark \in Events /\ mark.kind = "dropped" /\ mark.at = vfull[w].at
  BY <1>1 DEF Events
<1>3. /\ rest \in Seq(Events) /\ Len(rest) \in Nat
      /\ \A i \in 1..Len(rest) : Behind(rest[i].at)
      /\ Len(rest) < ViewBuffer
  <2>1. CASE vbuf[w] = <<>>
    BY <1>1, <2>1, ViewAssumption
  <2>2. CASE vbuf[w] # <<>>
    <3>1. rest = Tail(vbuf[w])
      BY <2>2
    <3>2. /\ Len(vbuf[w]) \in Nat \ {0} /\ rest \in Seq(Events) /\ Len(rest) = Len(vbuf[w]) - 1
          /\ \A i \in 1..Len(rest) : rest[i] = vbuf[w][i+1]
      BY <1>1, <2>2, <3>1, Parts
    <3> HIDE DEF rest
    <3>3. ASSUME NEW i \in 1..Len(rest) PROVE Behind(rest[i].at)
      <4>1. i + 1 \in 1..Len(vbuf[w]) /\ rest[i] = vbuf[w][i+1]
        BY <3>2
      <4> QED
        BY <1>1, <4>1 DEF Watched, NotAhead
    <3>4. Len(vbuf[w]) <= ViewBuffer
      BY <1>1 DEF Watched, Channels
    <3> QED
      BY <3>2, <3>3, <3>4, ViewAssumption
  <2> QED
    BY <2>1, <2>2
<1>4. vbuf'[w] = Append(rest, mark)
  BY <1>1 DEF Overflown
<1> HIDE DEF rest, mark
<1>5. /\ Len(vbuf'[w]) = Len(rest) + 1 /\ vbuf'[w][Len(rest) + 1] = mark
      /\ \A i \in 1..Len(rest) : vbuf'[w][i] = rest[i]
  BY <1>2, <1>3, <1>4, AppendProperties
<1>6. NotAhead(w)'
  <2>1. NoEvent.at = <<0, 0, 0>> /\ Behind(<<0, 0, 0>>)
    BY <1>1, OriginBehind DEF NoEvent
  <2>2. Behind(mark.at)
    BY <1>1, <1>2 DEF Watched, NotAhead
  <2>3. \A i \in 1..Len(vbuf'[w]) : Behind(vbuf'[w][i].at)
    BY <1>3, <1>5, <2>2
  <2> QED
    BY <1>1, <2>1, <2>3 DEF Watched, NotAhead, Behind
<1>7. Arriving(w)'
  BY <1>2, <1>3, <1>5 DEF Arriving
<1>8. Channels(w)'
  BY <1>1, <1>3, <1>5, ViewAssumption DEF Watched, Channels
<1> QED
  BY <1>1, <1>6, <1>7, <1>8 DEF Watched, Synced, Shown, Reads, Idle, DocAt, Covers, Behind

LEMMA SubscribeWatched ==
    ASSUME ViewIInv, NEW w \in Watchers, SubscribeView(w)
    PROVE  Watched(w)'
<1>1. ViewTyped /\ Watched(w) /\ vsub[w] \in Subs /\ vsub[w].pc = "off"
  BY WatchTyped DEF ViewIInv, SubscribeView
<1>2. UNCHANGED <<vdoc, vled, vpub, vlost, vbuf, vfull, vread, vout, vcli, vsync>>
  BY DEF SubscribeView
<1>3. vsub'[w].pc = "base" /\ vsub'[w].at = vsub[w].at /\ vsub'[w].send = vsub[w].send
  BY <1>1 DEF SubscribeView, ViewTyped, Subs
<1>4. Chained(vcli[w], vout[w], vsub[w])'
  BY <1>1, <1>2, <1>3 DEF Watched, Chained
<1>5. Idle(w) /\ Idle(w)'
  BY <1>1, <1>2 DEF Watched, Reads, Idle
<1> QED
  BY <1>1, <1>2, <1>3, <1>4, <1>5
     DEF Watched, NotAhead, Behind, Reads, Arriving, Attending, Synced, Channels

\* What is left in the channel once its first event is handled.
LEMMA TailBehind ==
    ASSUME ViewIInv, NEW w \in Watchers, vbuf[w] # <<>>
    PROVE  /\ Head(vbuf[w]) \in Events /\ Head(vbuf[w]).at \in Cursors /\ Behind(Head(vbuf[w]).at)
           /\ Len(Tail(vbuf[w])) <= ViewBuffer
           /\ \A i \in 1..Len(Tail(vbuf[w])) : Behind(Tail(vbuf[w])[i].at)
           /\ Attending(w) /\ vdoc.s > 0 =>
                \/ vlost[w] \/ Latest(Place(w)) \/ vfull[w] # NoEvent
                \/ \E ev \in vpub : Latest(ev.at)
                \/ Head(vbuf[w]).kind = "dropped" \/ Latest(Head(vbuf[w]).at)
                \/ \E i \in 1..Len(Tail(vbuf[w])) :
                     Tail(vbuf[w])[i].kind = "dropped" \/ Latest(Tail(vbuf[w])[i].at)
<1>1. Watched(w) /\ vbuf[w] \in Seq(Events)
  BY WatchTyped DEF ViewIInv
<1>2. /\ Len(vbuf[w]) \in Nat \ {0} /\ Head(vbuf[w]) = vbuf[w][1] /\ Head(vbuf[w]) \in Events
      /\ Len(Tail(vbuf[w])) = Len(vbuf[w]) - 1
      /\ \A i \in 1..Len(Tail(vbuf[w])) : Tail(vbuf[w])[i] = vbuf[w][i+1]
  BY <1>1, Parts
<1>3. Head(vbuf[w]).at \in Cursors
  BY <1>2, EventFacts
<1>4. /\ Behind(Head(vbuf[w]).at) /\ \A i \in 1..Len(Tail(vbuf[w])) : Behind(Tail(vbuf[w])[i].at)
      /\ Len(Tail(vbuf[w])) <= ViewBuffer
  BY <1>1, <1>2, ViewAssumption DEF Watched, NotAhead, Channels
<1>5. ASSUME NEW i \in 1..Len(vbuf[w])
      PROVE  i = 1 \/ \E j \in 1..Len(Tail(vbuf[w])) : Tail(vbuf[w])[j] = vbuf[w][i]
  <2>1. CASE i = 1
    BY <2>1
  <2>2. CASE i # 1
    <3>1. i - 1 \in 1..Len(Tail(vbuf[w])) /\ (i - 1) + 1 = i
      BY <1>2, <2>2
    <3> QED
      BY <1>2, <3>1
  <2> QED
    BY <2>1, <2>2
<1> QED
  BY <1>1, <1>2, <1>3, <1>4, <1>5 DEF Arriving, Watched

LEMMA DeltaWatched ==
    ASSUME ViewIInv, NEW w \in Watchers, HandleDelta(w)
    PROVE  Watched(w)'
<1> DEFINE ev == Head(vbuf[w])
           last == vsub[w].at
           fwd == [vsub[w] EXCEPT !.at = ev.at, !.send = ev]
<1>1. /\ ViewTyped /\ Watched(w) /\ vbuf[w] # <<>> /\ vsub[w].pc = "on" /\ vsub[w].send = NoEvent
      /\ ev.kind = "delta" /\ (InTurn(last, ev.at) \/ OldNews(last, ev.at))
      /\ UNCHANGED <<vdoc, vled, vpub, vlost, vfull, vread, vout, vcli, vsync>> /\ Idle(w) /\ Idle(w)'
      /\ vbuf'[w] = Tail(vbuf[w])
      /\ vsub'[w] = IF OldNews(last, ev.at) THEN vsub[w] ELSE fwd
  BY DEF ViewIInv, HandleDelta, Ready, Idle, ViewTyped
<1>2. /\ ev \in Events /\ ev.at \in Cursors /\ Behind(ev.at) /\ last \in Cursors /\ Behind(last)
      /\ Len(Tail(vbuf[w])) <= ViewBuffer
      /\ \A i \in 1..Len(Tail(vbuf[w])) : Behind(Tail(vbuf[w])[i].at)
  BY <1>1, TailBehind, WatchTyped DEF Watched, NotAhead
<1>3. /\ ev.at[1] \in Nat /\ ev.at[3] \in Nat /\ last[1] \in Nat /\ last[3] \in Nat
      /\ vdoc.e \in Nat /\ vdoc.s \in Nat
  <2>1. \A at \in Cursors : at[1] \in Nat /\ at[3] \in Nat
    BY CursorFacts, ViewAssumption
  <2>2. vdoc \in Docs /\ vled \in 0..ViewMaxLedger
    BY <1>1 DEF ViewTyped
  <2> QED
    BY <1>2, <2>1, <2>2, DocFacts
<1>4. fwd.pc = "on" /\ fwd.at = ev.at /\ fwd.send = ev /\ vsub[w] \in Subs /\ ev # NoEvent
  <2>1. vsub[w] \in Subs
    BY <1>1, WatchTyped
  <2> QED
    BY <1>1, <2>1 DEF Subs, NoEvent
<1> HIDE DEF fwd
<1>5. Chained(vcli[w], vout[w], vsub[w])'
  <2>1. Fits(last, ev) => Chained(vcli[w], vout[w], fwd)
    BY <1>1, <1>2, <1>4, WatchTyped, ChainGrows DEF Watched, fwd
  <2> QED
    BY <1>1, <2>1 DEF Watched, Fits
<1>6. NotAhead(w)' /\ Channels(w)' /\ vsub'[w].pc # "closed" /\ Reads(w)'
  BY <1>1, <1>2, <1>4 DEF Watched, NotAhead, Channels, Behind, Reads
<1>7. Synced(w)'
  <2>1. InTurn(Shown, ev.at) \/ InTurn(DocAt(vdoc), ev.at) => ~Behind(ev.at)
    BY <1>3 DEF InTurn, Behind, EpochOf, Shown, DocAt
  <2>2. vsync[w] # "no" => OldNews(last, ev.at)
    BY <1>1, <1>2, <2>1, WatchTyped DEF Watched, Synced
  <2> QED
    BY <1>1, <2>2, WatchTyped DEF Watched, Synced, Shown, DocAt
<1>8. Arriving(w)'
  <2>1. Latest(ev.at) => Latest(vsub'[w].at)
    <3>1. Latest(ev.at) /\ OldNews(last, ev.at) => Latest(last)
      BY <1>2, <1>3 DEF Latest, OldNews, Behind, EpochOf
    <3> QED
      BY <1>1, <1>4, <3>1
  <2>2. Latest(last) => Latest(vsub'[w].at)
    <3>1. Latest(last) /\ InTurn(last, ev.at) => ~Behind(ev.at)
      BY <1>3 DEF Latest, InTurn, Behind, EpochOf
    <3> QED
      BY <1>1, <1>2, <3>1
  <2>3. \/ vdoc.s = 0 \/ vlost[w] \/ Latest(vsub'[w].at) \/ vfull[w] # NoEvent
        \/ \E d \in vpub : Latest(d.at)
        \/ \E i \in 1..Len(vbuf'[w]) : vbuf'[w][i].kind = "dropped" \/ Latest(vbuf'[w][i].at)
    <3>1. vdoc.s = 0 \/ vdoc.s > 0
      BY <1>3
    <3> QED
      BY <1>1, <2>1, <2>2, <3>1, TailBehind DEF Attending, Place
  <2> QED
    BY <1>1, <2>3 DEF Arriving, Place, Latest
<1> QED
  BY <1>5, <1>6, <1>7, <1>8 DEF Watched

\* The subscription begins to read: for its baseline, on a tick or for the first event of its
\* channel.
LEMMA DocumentReadWatched ==
    ASSUME ViewIInv, NEW w \in Watchers, vsub[w].pc = "base" \/ Ready(w), Idle(w),
           NEW observed \in Cursors, Behind(observed), ReadDocument(w, observed),
           UNCHANGED <<vdoc, vled, vpub, vlost, vfull, vsub, vout, vcli>>,
           \/ vbuf' = vbuf
           \/ Ready(w) /\ vbuf[w] # <<>> /\ vbuf' = [vbuf EXCEPT ![w] = Tail(@)]
    PROVE  Watched(w)'
<1>1. /\ ViewTyped /\ Watched(w) /\ vdoc \in Docs /\ vsub[w].at \in Cursors
      /\ vdoc.e \in Nat /\ vdoc.s \in Nat
  BY WatchTyped, DocFacts DEF ViewIInv, ViewTyped
<1>2. /\ vread'[w].doc = vdoc /\ vread'[w].observed = observed /\ ~Idle(w)'
      /\ vsync'[w] = "part"
      /\ vbuf'[w] = vbuf[w] \/ (vbuf[w] # <<>> /\ vbuf'[w] = Tail(vbuf[w]))
  <2>1. vread'[w] = [doc |-> vdoc, observed |-> observed] /\ vsync'[w] = "part"
    BY <1>1 DEF ReadDocument, ViewTyped
  <2>2. vdoc.e # 0
    BY <1>1, DocFacts
  <2>3. vread'[w] # NoReading
    <3>1. vread'[w].doc.e # NoReading.doc.e
      BY <2>1, <2>2 DEF NoReading
    <3> QED
      BY <3>1
  <2> QED
    BY <1>1, <2>1, <2>3 DEF Idle, ViewTyped
<1>3. vsub[w].pc \in {"base", "on"} /\ vsub[w].send = NoEvent
  BY <1>1 DEF Ready, Watched, Reads
<1>4. Reads(w)'
  <2>1. Covers(vdoc, observed) /\ Covers(vdoc, vsub[w].at) /\ Behind(DocAt(vdoc))
    BY <1>1 DEF Watched, NotAhead, Behind, Covers, DocAt
  <2> QED
    BY <1>1, <1>2, <1>3, <2>1 DEF Reads, Covers, Behind, DocAt
<1>5. NotAhead(w)' /\ Channels(w)'
  <2>1. /\ \A i \in 1..Len(vbuf'[w]) : Behind(vbuf'[w][i].at)
        /\ Len(vbuf'[w]) <= ViewBuffer
    BY <1>1, <1>2, TailBehind DEF Watched, NotAhead, Channels
  <2> QED
    BY <1>1, <2>1 DEF Watched, NotAhead, Channels, Behind
<1>6. Arriving(w)' /\ Synced(w)'
  BY <1>2 DEF Arriving, Synced, Place, Latest, DocAt
<1>7. Chained(vcli[w], vout[w], vsub[w])' /\ vsub'[w].pc # "closed"
  BY <1>1 DEF Watched
<1> QED
  BY <1>4, <1>5, <1>6, <1>7 DEF Watched

\* The reading ends.
LEMMA LedgerReadWatched ==
    ASSUME ViewIInv, NEW w \in Watchers, NEW led \in LedgerAnswers, ReadLedger(w, led)
    PROVE  Watched(w)'
<1> DEFINE doc == vread[w].doc
           now == SnapshotAt(doc, led)
           ev == SnapshotEvent(now)
<1>1. /\ ViewTyped /\ Watched(w) /\ ~Idle(w) /\ vsub[w] \in Subs /\ vcli[w] \in Clients
      /\ vout[w] \in Seq(Events) /\ vsub[w].send = NoEvent /\ vsub[w].pc \in {"base", "on"}
      /\ doc \in Docs /\ Behind(DocAt(doc)) /\ led \in 0..ViewMaxLedger /\ ~vcli[w].torn
  BY WatchTyped, AnswersTyped DEF ViewIInv, ReadLedger, Watched, Reads, Chained
<1>2. /\ now \in Cursors /\ now[1] = doc.e /\ now[3] = doc.s /\ ev \in Events /\ ev # NoEvent
      /\ ev.kind = "snapshot" /\ ev.at = now
  BY <1>1, SnapshotFacts, SnapshotIsEvent
<1>3. /\ UNCHANGED <<vdoc, vled, vpub, vlost, vbuf, vfull, vcli>> /\ Idle(w)'
      /\ vsync'[w] = IF vsync[w] = "part" /\ (doc.run \/ led = vled) THEN "whole" ELSE vsync[w]
  BY <1>1 DEF ReadLedger, ViewTyped, Idle
<1>4. \/ /\ vsub[w].pc = "base" /\ vout'[w] = <<ev>>
         /\ vsub'[w] = [pc |-> "on", at |-> now, send |-> NoEvent]
      \/ vsub[w].pc = "on" /\ vout' = vout /\ vsub'[w] = Reconciled(w, now)
  BY <1>1 DEF ReadLedger, ViewTyped
<1>5. \/ Reconciled(w, now) = vsub[w] /\ vsub[w].at = now
      \/ Reconciled(w, now) = [vsub[w] EXCEPT !.at = now, !.send = ev]
  BY <1>1, ReconciledFacts DEF Watched
<1>6. /\ vsync[w] # "no" => doc = vdoc
      /\ led # vled => led = 0
  BY <1>1, AnswersTyped DEF Watched, Synced
<1>7. doc = vdoc => now = IF doc.run \/ led = vled THEN Shown ELSE DocAt(vdoc)
  BY <1>6 DEF SnapshotAt, Shown, DocAt
<1>8. Behind(now) /\ (Latest(DocAt(doc)) => Latest(now))
  BY <1>1, <1>2 DEF Behind, Latest, DocAt
<1> HIDE DEF doc, now, ev
<1>9. Chained(vcli[w], vout[w], vsub[w])' /\ vsub'[w].pc = "on" /\ vsub'[w].at = now
  <2>1. CASE vsub[w].pc = "base"
    <3>1. [pc |-> "on", at |-> now, send |-> NoEvent] \in Subs
      BY <1>2, NoEventIsEvent DEF Subs
    <3>2. Chained(vcli[w], <<ev>>, [pc |-> "on", at |-> now, send |-> NoEvent])
      BY <1>1, <1>2, <3>1, ChainStarts
    <3> QED
      BY <1>3, <1>4, <2>1, <3>2
  <2>2. CASE vsub[w].pc = "on"
    <3> DEFINE s == [vsub[w] EXCEPT !.at = now, !.send = ev]
    <3>1. s.pc = "on" /\ s.at = now
      BY <1>1, <2>2 DEF Subs
    <3>2. Chained(vcli[w], vout[w], s)
      BY <1>1, <1>2, ChainGrows DEF Watched, Fits
    <3>3. vsub'[w] = s \/ (vsub'[w] = vsub[w] /\ vsub[w].at = now)
      BY <1>4, <1>5, <2>2
    <3> HIDE DEF s
    <3> QED
      BY <1>1, <1>3, <1>4, <2>2, <3>1, <3>2, <3>3 DEF Watched
  <2> QED
    BY <1>1, <2>1, <2>2
<1>10. NotAhead(w)' /\ Channels(w)' /\ Reads(w)'
  <2>1. vout'[w] = vout[w] \/ vout'[w] = <<ev>>
    BY <1>4
  <2>2. Len(<<ev>>) = 1 /\ 1 <= ViewOut /\ Len(vout[w]) <= ViewOut
    BY <1>1, ViewAssumption DEF Watched, Channels
  <2>3. Len(vout'[w]) <= ViewOut
    BY <2>1, <2>2
  <2> QED
    BY <1>1, <1>3, <1>8, <1>9, <2>3 DEF Watched, NotAhead, Channels, Behind, Reads
<1>11. Arriving(w)'
  BY <1>1, <1>3, <1>8, <1>9 DEF Watched, Arriving, Attending, Place, Latest, doc
<1>12. Synced(w)'
  BY <1>1, <1>3, <1>6, <1>7, <1>9 DEF Watched, Synced, Shown, DocAt
<1> QED
  BY <1>9, <1>10, <1>11, <1>12 DEF Watched

LEMMA ReadFailsWatched ==
    ASSUME ViewIInv, NEW w \in Watchers, ReadFailsFor(w)
    PROVE  Watched(w)'
<1>1. /\ Watched(w) /\ vbuf[w] # <<>> /\ vbuf'[w] = Tail(vbuf[w]) /\ vlost'[w] = TRUE
      /\ UNCHANGED <<vdoc, vled, vpub, vfull, vsub, vread, vout, vcli, vsync>>
  BY DEF ViewIInv, ViewTyped, ReadFailsFor
<1>2. NotAhead(w)' /\ Channels(w)'
  BY <1>1, TailBehind DEF Watched, NotAhead, Channels, Behind
<1> QED
  BY <1>1, <1>2 DEF Watched, Arriving, Synced, Shown, Reads, Idle, DocAt, Covers, Behind

LEMMA SendWatched ==
    ASSUME ViewIInv, NEW w \in Watchers, SendEvent(w)
    PROVE  Watched(w)'
<1> DEFINE s == [vsub[w] EXCEPT !.send = NoEvent]
           q == Append(vout[w], vsub[w].send)
<1>1. /\ Watched(w) /\ vsub[w] \in Subs /\ vcli[w] \in Clients /\ vout[w] \in Seq(Events)
      /\ vsub[w].send # NoEvent /\ Len(vout[w]) < ViewOut /\ vsub'[w] = s /\ vout'[w] = q
      /\ UNCHANGED <<vdoc, vled, vpub, vlost, vbuf, vfull, vread, vcli, vsync>> /\ Idle(w)
  BY WatchTyped DEF ViewIInv, ViewTyped, SendEvent, Watched, Reads
<1>2. s.pc = vsub[w].pc /\ s.at = vsub[w].at /\ Len(q) = Len(vout[w]) + 1 /\ Len(vout[w]) \in Nat
  <2>1. vsub[w].send \in Events
    BY <1>1 DEF Subs
  <2> QED
    BY <1>1, <2>1, AppendProperties, LenProperties DEF Subs
<1>3. Chained(vcli[w], q, s)
  BY <1>1, ChainSends DEF Watched
<1> HIDE DEF s, q
<1>4. NotAhead(w)' /\ Channels(w)' /\ vsub'[w].pc # "closed"
  BY <1>1, <1>2, ViewAssumption DEF Watched, NotAhead, Channels, Behind
<1>5. Arriving(w)' /\ Synced(w)' /\ Reads(w)'
  BY <1>1, <1>2 DEF Watched, Arriving, Attending, Place, Synced, Latest, Shown, DocAt, Reads, Idle
<1> QED
  BY <1>1, <1>3, <1>4, <1>5 DEF Watched

LEMMA ApplyWatched ==
    ASSUME ViewIInv, NEW w \in Watchers, ApplyEvent(w)
    PROVE  Watched(w)'
<1> DEFINE c == Applied(vcli[w], Head(vout[w]))
<1>1. /\ Watched(w) /\ vsub[w] \in Subs /\ vcli[w] \in Clients /\ vout[w] \in Seq(Events)
      /\ vout[w] # <<>> /\ vout'[w] = Tail(vout[w]) /\ vcli'[w] = c
      /\ UNCHANGED <<vdoc, vled, vpub, vlost, vbuf, vfull, vsub, vread, vsync>>
  BY WatchTyped DEF ViewIInv, ViewTyped, ApplyEvent, Applied
<1>2. Chained(c, Tail(vout[w]), vsub[w])
  BY <1>1, ChainApplies DEF Watched
<1> HIDE DEF c
<1>3. Len(Tail(vout[w])) <= Len(vout[w]) /\ Len(Tail(vout[w])) \in Nat /\ Len(vout[w]) \in Nat
  BY <1>1, Parts
<1>4. NotAhead(w)' /\ Channels(w)' /\ vsub'[w].pc # "closed"
  BY <1>1, <1>3, ViewAssumption DEF Watched, NotAhead, Channels, Behind
<1>5. Arriving(w)' /\ Synced(w)' /\ Reads(w)'
  BY <1>1 DEF Watched, Arriving, Attending, Place, Synced, Latest, Shown, DocAt, Reads, Idle, Covers, Behind
<1> QED
  BY <1>1, <1>2, <1>4, <1>5 DEF Watched

LEMMA NextView == ViewIInv /\ [ViewNext]_vvars => ViewIInv'
<1> SUFFICES ASSUME ViewIInv, [ViewNext]_vvars PROVE ViewIInv'
  OBVIOUS
<1>1. ViewTyped /\ \A w \in Watchers : Watched(w)
  BY DEF ViewIInv
<1>2. CASE UpdateView \/ RecreateView \/ LedgerChanges
  BY <1>1, <1>2, DocumentTyped, DocumentWatched DEF ViewIInv
<1>3. ASSUME NEW ev \in vpub, PublishDelta(ev) \/ LosePublication(ev) PROVE ViewIInv'
  BY <1>1, <1>3, PublishTyped, PublishWatched, LoseWatched DEF ViewIInv
<1>4. ASSUME NEW w \in Watchers,
             \/ Overflow(w) \/ SubscribeView(w) \/ BaselineDocument(w) \/ HandleDelta(w)
             \/ HandleOther(w) \/ (\E led \in LedgerAnswers : ReadLedger(w, led))
             \/ ReadFailsFor(w) \/ TickView(w) \/ SendEvent(w) \/ ApplyEvent(w)
      PROVE  ViewIInv'
  <2>1. ViewTyped'
    BY <1>1, <1>4, WatcherTyped
  <2>2. UNCHANGED <<vdoc, vled, vpub>>
    BY <1>4, Zenon DEF Overflow, SubscribeView, BaselineDocument, HandleDelta, HandleOther,
                       ReadLedger, ReadFailsFor, TickView, SendEvent, ApplyEvent
  <2>3. Published'
    BY <2>2 DEF ViewIInv, Published, Behind
  <2>4. Watched(w)'
    <3>1. CASE HandleOther(w)
      <4>1. /\ Ready(w) /\ Idle(w) /\ vbuf[w] # <<>> /\ ReadDocument(w, Head(vbuf[w]).at)
            /\ vbuf' = [vbuf EXCEPT ![w] = Tail(@)]
            /\ UNCHANGED <<vdoc, vled, vpub, vlost, vfull, vsub, vout, vcli>>
        BY <3>1 DEF HandleOther, Ready
      <4>2. Head(vbuf[w]).at \in Cursors /\ Behind(Head(vbuf[w]).at)
        BY <4>1, TailBehind
      <4> QED
        BY <4>1, <4>2, DocumentReadWatched
    <3>2. CASE TickView(w) \/ BaselineDocument(w)
      <4>1. /\ vsub[w].pc = "base" \/ Ready(w)
            /\ Idle(w) /\ ReadDocument(w, <<0, 0, 0>>)
            /\ vbuf' = vbuf /\ UNCHANGED <<vdoc, vled, vpub, vlost, vfull, vsub, vout, vcli>>
        BY <3>2 DEF TickView, BaselineDocument, Ready
      <4> QED
        BY <1>1, <4>1, OriginBehind, DocumentReadWatched
    <3> QED
      BY <1>4, <3>1, <3>2, OverflowWatched, SubscribeWatched, DeltaWatched, LedgerReadWatched,
         ReadFailsWatched, SendWatched, ApplyWatched
  <2>5. ASSUME NEW v \in Watchers, v # w PROVE Watched(v)'
    <3>1. /\ vlost'[v] = vlost[v] /\ vbuf'[v] = vbuf[v] /\ vfull'[v] = vfull[v] /\ vsub'[v] = vsub[v]
          /\ vread'[v] = vread[v] /\ vout'[v] = vout[v] /\ vcli'[v] = vcli[v] /\ vsync'[v] = vsync[v]
      BY <1>1, <1>4, <2>5 DEF ViewTyped, Overflow, SubscribeView, BaselineDocument, HandleDelta,
            HandleOther, ReadDocument, ReadLedger, ReadFailsFor, TickView, SendEvent, ApplyEvent
    <3> QED
      BY <1>1, <2>2, <3>1, ElsewhereKept
  <2> QED
    BY <2>1, <2>3, <2>4, <2>5 DEF ViewIInv
<1>5. CASE UNCHANGED vvars
  <2>1. ViewTyped' /\ Published'
    BY <1>5 DEF vvars, ViewIInv, ViewTyped, Published, Behind
  <2>2. \A w \in Watchers : Watched(w)'
    BY <1>1, <1>5, ElsewhereKept DEF vvars
  <2> QED
    BY <2>1, <2>2 DEF ViewIInv
<1> QED
  BY <1>2, <1>3, <1>4, <1>5 DEF ViewNext

LEMMA ViewInductive == ViewSpec => []ViewIInv
BY InitView, NextView, PTL DEF ViewSpec

\* Subscribe, while it streams: no client applies a delta to a view it was not made for, and
\* no subscription is closed for a document older than what it has seen.
THEOREM ViewTheorem == ViewSpec => []ViewInv
<1>1. ViewIInv => ViewInv
  <2> SUFFICES ASSUME ViewIInv PROVE ViewInv
    OBVIOUS
  <2>1. ViewTyped /\ \A w \in Watchers : Watched(w)
    BY DEF ViewIInv
  <2>2. ViewTypeOK
    BY <2>1, WatchTyped DEF ViewTyped, ViewTypeOK, Subs, Readings, Watched, Channels
  <2> QED
    BY <2>1, <2>2 DEF ViewInv, NeverTorn, NeverSentAway, Watched, Chained
<1> QED
  BY <1>1, ViewInductive, PTL

\* enqueueRuntimeEvent and subscriberSnapshot, when all is delivered: an overflown channel
\* costs a client nothing, and one that has read both stores shows what they hold; if the
\* ledger could not be read, it shows the document alone.
THEOREM CatchesUpTheorem == ViewSpec => []ViewCatchesUp
<1>1. ViewIInv => ViewCatchesUp
  <2> SUFFICES ASSUME ViewIInv, NEW w \in Watchers, Still(w)
               PROVE  /\ (vpub = {} /\ vdoc.s > 0) =>
                            \/ vcli[w].at[1] = vdoc.e /\ vcli[w].at[3] = vdoc.s
                            \/ vlost[w]
                      /\ vsync[w] = "whole" => vcli[w].at = Shown
                      /\ vsync[w] = "part" => vcli[w].at = <<vdoc.e, 0, vdoc.s>>
    BY DEF ViewCatchesUp, OverflowIsHealed, ReconciledIsCurrent
  <2>1. /\ Watched(w) /\ vsub[w].pc = "on" /\ vsub[w].send = NoEvent /\ Idle(w)
        /\ vbuf[w] = <<>> /\ vout[w] = <<>> /\ vfull[w] = NoEvent
    BY DEF ViewIInv, Still, Ready
  <2>2. vcli[w].at = vsub[w].at
    BY <2>1 DEF Watched, Chained, After
  <2> QED
    BY <2>1, <2>2 DEF Watched, Arriving, Attending, Place, Latest, Synced, DocAt
<1> QED
  BY <1>1, ViewInductive, PTL

-----------------------------------------------------------------------------
(* DecisionOutput.                                                         *)

Items == 1..Failure
ReaderPcs == {"claim", "replayed", "clean", "broken", "gone"} \cup Reading
ReaderRows == [pc: ReaderPcs, ended: BOOLEAN, got: Seq(Items)]
Markers == [done: BOOLEAN, failed: BOOLEAN, claimed: BOOLEAN]
Writers == [pc: {"stream", "failure", "close", "closed", "dead"}, seq: Nat,
            sent: 0..OutEvents, cause: BOOLEAN]

OutTyped ==
    /\ olog \in Seq(Items) /\ omark \in Markers /\ owr \in Writers /\ oover \in BOOLEAN
    /\ ordr \in [OutReaders -> ReaderRows] /\ olate \in [OutReaders -> Nat]
    /\ ofaults \in Seq(AllOutFaults) /\ Len(ofaults) <= OutMaxFaults

Unsure == \E i \in DOMAIN ofaults : ofaults[i] = "unsure"
Faulty == \E i \in DOMAIN ofaults : ofaults[i] # "crash"

\* Nothing but the closing of the log is left to publish.
Over == {"close", "closed", "dead"}

\* q has the events in their order, and perhaps the failure as the last.
Ordered(q) ==
    \A i \in 1..Len(q) : \/ q[i] = i /\ i <= OutEvents
                         \/ i = Len(q) /\ q[i] = Failure /\ owr.cause

Begins(p, q) == Len(p) <= Len(q) /\ \A i \in 1..Len(p) : p[i] = q[i]

LogOk ==
    /\ Ordered(olog)
    /\ owr.pc \notin Over => \A i \in 1..Len(olog) : olog[i] # Failure
    /\ olog # <<>> => owr.seq >= 1 \/ Unsure
    /\ omark.done => owr.pc = "closed"

\* A reader has the beginning of the log; or the log was emptied, and what may still be
\* appended is not past what the reader has.
Follows(r) ==
    LET got == ordr[r].got IN
    /\ Ordered(got)
    /\ got # <<>> => owr.seq >= 1 \/ Unsure
    /\ \/ Begins(got, olog)
       \/ got # <<>> /\ olog = <<>>
       \/ got # <<>> /\ Len(olog) = 1 /\ owr.pc \in Over /\ Unsure

\* What the writer knows of the log while nothing went wrong, and which fault explains what
\* did.
WriterOk ==
    /\ owr.pc = "stream" /\ ~owr.cause => owr.seq = owr.sent /\ ~Closed /\ ~Unsure
    /\ owr.pc = "failure" => owr.cause
    /\ ~Unsure /\ ~Closed => \/ Len(olog) = owr.seq
                             \/ olog = <<>> /\ Faulty
    /\ owr.pc \in {"stream", "failure"} /\ owr.cause => Faulty \/ omark.failed
    /\ owr.pc = "close" /\ ~owr.cause => owr.sent = OutEvents /\ owr.seq = OutEvents
    /\ owr.pc = "close" /\ owr.cause /\ ~FailureLost =>
         \/ olog # <<>> /\ Last(olog) = Failure
         \/ omark.failed \/ Len(olog) # owr.seq
    /\ owr.pc = "close" /\ owr.cause /\ omark.failed /\ owr.seq = 0 => Faulty

Forwards(r) == ordr[r].pc \notin {"claim", "replayed"}

ReadersOk ==
    /\ \A r, s \in OutReaders : Forwards(r) /\ Forwards(s) => r = s
    /\ \A r \in OutReaders : ordr[r].got # <<>> => Forwards(r)
    /\ \A r, s \in OutReaders : ordr[r].pc = "claim" /\ Forwards(s) => omark.claimed

\* How often a reader has found the run ended.
Ticks(r) ==
    /\ ordr[r].pc \in {"read", "sleep"} => olate[r] = IF ordr[r].ended THEN 1 ELSE 0
    /\ ordr[r].pc = "last" => olate[r] = IF ordr[r].ended THEN 2 ELSE 1
    /\ ordr[r].pc = "claim" => ~ordr[r].ended /\ olate[r] = 0
    /\ ordr[r].ended \/ ordr[r].pc = "last" => oover

Whole(q) == (q = Emitted /\ ~owr.cause) \/ (q # <<>> /\ Last(q) = Failure)

\* A log that was closed is whole as long as somebody reads or may read it, and who has
\* read it to the end has it whole.
ClosedIsWhole ==
    (omark.done /\ ~FailureLost
       /\ \E r \in OutReaders : ordr[r].pc \in Reading \/ (ordr[r].pc = "claim" /\ ~omark.claimed))
    => Whole(olog)

CleanIsWhole(r) == ordr[r].pc = "clean" => owr.pc = "closed" /\ (FailureLost \/ Whole(ordr[r].got))

OutIInv ==
    /\ OutTyped /\ LogOk /\ WriterOk /\ ReadersOk /\ ClosedIsWhole
    /\ \A r \in OutReaders : Follows(r) /\ Ticks(r) /\ CleanIsWhole(r)

-----------------------------------------------------------------------------
(* DecisionOutput: faults and the outcomes of an append.                   *)

\* Faults only add up; a second one that is not a crash may cost the failure.
LEMMA Struck ==
    ASSUME OutTyped, NEW f, OutStrikes(f)
    PROVE  /\ ofaults' \in Seq(AllOutFaults) /\ Len(ofaults') <= OutMaxFaults
           /\ Unsure' <=> (Unsure \/ f = "unsure")
           /\ Faulty => Faulty'
           /\ f # "crash" => Faulty'
           /\ FailureLost => FailureLost'
           /\ Unsure' => FailureLost'
           /\ Faulty /\ f # "crash" => FailureLost'
<1> DEFINE n == Len(ofaults)
<1>1. f \in AllOutFaults /\ ofaults' = Append(ofaults, f) /\ n < OutMaxFaults
  BY OutputAssumption DEF OutStrikes
<1>2. ofaults \in Seq(AllOutFaults) /\ n \in Nat /\ OutMaxFaults \in Nat
  BY OutputAssumption DEF OutTyped
<1>3. /\ ofaults' \in Seq(AllOutFaults) /\ Len(ofaults') = n + 1
      /\ DOMAIN ofaults = 1..n /\ DOMAIN ofaults' = 1..(n + 1)
      /\ \A i \in 1..n : ofaults'[i] = ofaults[i]
      /\ ofaults'[n + 1] = f
  BY <1>1, <1>2
<1> HIDE DEF n
<1>4. n + 1 \in 1..(n + 1) /\ \A i \in 1..n : i \in 1..(n + 1) /\ i # n + 1
  BY <1>2
<1>5. \A i \in 1..(n + 1) : i \in 1..n \/ i = n + 1
  BY <1>2
<1>6. Unsure' <=> (Unsure \/ f = "unsure")
  BY <1>3, <1>4, <1>5 DEF Unsure
<1>7. (Faulty => Faulty') /\ (f # "crash" => Faulty')
  BY <1>3, <1>4 DEF Faulty
<1>8. FailureLost => FailureLost'
  BY <1>3, <1>4 DEF FailureLost
<1>9. Unsure' => FailureLost'
  BY DEF Unsure, FailureLost
<1>10. Faulty /\ f # "crash" => FailureLost'
  BY <1>3, <1>4 DEF Faulty, FailureLost
<1> QED
  BY <1>1, <1>2, <1>3, <1>6, <1>7, <1>8, <1>9, <1>10 DEF n

\* The outcomes of an append to the log.
Stays == olog' = olog /\ omark' = omark
Appended(item) ==
    /\ ~Closed /\ Len(olog) = owr.seq /\ item # Closing
    /\ olog' = Append(olog, item) /\ omark' = omark
ClosedNow(item) ==
    /\ ~Closed /\ Len(olog) = owr.seq /\ item = Closing
    /\ olog' = olog
    /\ omark' = [done |-> TRUE, failed |-> omark.failed, claimed |-> omark.claimed]
FullNow(item) ==
    /\ ~Closed /\ Len(olog) = owr.seq /\ item # Closing
    /\ olog' = olog
    /\ omark' = [done |-> omark.done, failed |-> TRUE, claimed |-> omark.claimed]

\* An append does to the log what its code says.
LEMMA CodeOutcome ==
    ASSUME OutTyped, NEW item,
           AppendDecisionOutput(owr.seq + 1, item, Code(owr.seq + 1, item = Closing))
    PROVE  LET code == Code(owr.seq + 1, item = Closing) IN
           \/ code = "terminal" /\ Closed /\ Stays
           \/ code = "replayed" /\ ~Closed /\ owr.seq < Len(olog) /\ Stays
           \/ code = "gap" /\ ~Closed /\ Len(olog) < owr.seq /\ Stays
           \/ code = "append" /\ Appended(item)
           \/ code = "close" /\ ClosedNow(item)
           \/ code = "exceeded" /\ FullNow(item)
<1> DEFINE code == Code(owr.seq + 1, item = Closing)
<1>1. owr.seq \in Nat /\ Len(olog) \in Nat /\ omark \in Markers /\ OutMaxEvents \in Nat
  BY OutputAssumption DEF OutTyped, Writers
<1>2. /\ olog' = IF code = "append" THEN Append(olog, item) ELSE olog
      /\ omark' = [omark EXCEPT !.done = @ \/ code = "close", !.failed = @ \/ code = "exceeded"]
  BY DEF AppendDecisionOutput
<1>3. \/ code = "terminal" /\ Closed
      \/ code = "replayed" /\ ~Closed /\ owr.seq < Len(olog)
      \/ code = "gap" /\ ~Closed /\ Len(olog) < owr.seq
      \/ code = "append" /\ ~Closed /\ Len(olog) = owr.seq /\ item # Closing
      \/ code = "close" /\ ~Closed /\ Len(olog) = owr.seq /\ item = Closing
      \/ code = "exceeded" /\ ~Closed /\ Len(olog) = owr.seq /\ item # Closing
  <2>1. CASE Closed
    BY <2>1 DEF Code
  <2>2. CASE ~Closed /\ owr.seq + 1 <= Len(olog)
    BY <1>1, <2>2 DEF Code
  <2>3. CASE ~Closed /\ owr.seq + 1 > Len(olog) + 1
    BY <1>1, <2>3 DEF Code
  <2>4. CASE ~Closed /\ owr.seq + 1 = Len(olog) + 1
    BY <1>1, <2>4 DEF Code
  <2> QED BY <1>1, <2>1, <2>2, <2>3, <2>4
<1> HIDE DEF code
<1>4. omark = [done |-> omark.done, failed |-> omark.failed, claimed |-> omark.claimed]
  BY <1>1 DEF Markers
<1>5. omark.done \in BOOLEAN /\ omark.failed \in BOOLEAN
  BY <1>1 DEF Markers
<1>6. omark' = [done |-> omark.done \/ code = "close", failed |-> omark.failed \/ code = "exceeded",
                claimed |-> omark.claimed]
  BY <1>2, <1>4
<1>7. code \notin {"close", "exceeded"} => omark' = omark
  BY <1>4, <1>5, <1>6
<1>8. ASSUME code = "close"
      PROVE  omark' = [done |-> TRUE, failed |-> omark.failed, claimed |-> omark.claimed]
  <2>1. (omark.done \/ code = "close") = TRUE /\ (omark.failed \/ code = "exceeded") = omark.failed
    BY <1>5, <1>8
  <2> QED BY <1>6, <2>1, Zenon
<1>9. ASSUME code = "exceeded"
      PROVE  omark' = [done |-> omark.done, failed |-> TRUE, claimed |-> omark.claimed]
  <2>1. (omark.done \/ code = "close") = omark.done /\ (omark.failed \/ code = "exceeded") = TRUE
    BY <1>5, <1>9
  <2> QED BY <1>6, <2>1, Zenon
<1> QED
  BY <1>2, <1>3, <1>7, <1>8, <1>9 DEF Stays, Appended, ClosedNow, FullNow, code

\* What the writer learns of its append, and what became of the log.
LEMMA PublishOutcomes ==
    ASSUME OutTyped, NEW item, NEW ok \in BOOLEAN, Publish(item, ok)
    PROVE  \/ /\ ok /\ ofaults' = ofaults
              /\ \/ Stays /\ (Closed \/ owr.seq < Len(olog))
                 \/ Appended(item)
                 \/ ClosedNow(item)
           \/ /\ ~ok /\ ofaults' = ofaults
              /\ \/ Stays /\ ~Closed /\ Len(olog) < owr.seq
                 \/ FullNow(item)
           \/ ~ok /\ OutStrikes("append") /\ Stays
           \/ /\ ~ok /\ OutStrikes("unsure")
              /\ Stays \/ Appended(item) \/ ClosedNow(item) \/ FullNow(item)
<1> DEFINE code == Code(owr.seq + 1, item = Closing)
<1>1. CASE /\ AppendDecisionOutput(owr.seq + 1, item, code)
           /\ ok = (code \notin {"gap", "exceeded"}) /\ UNCHANGED ofaults
  BY <1>1, CodeOutcome
<1>2. CASE OutStrikes("append") /\ ok = FALSE /\ UNCHANGED <<olog, omark>>
  BY <1>2 DEF Stays
<1>3. CASE OutStrikes("unsure") /\ ok = FALSE /\ AppendDecisionOutput(owr.seq + 1, item, code)
  BY <1>3, CodeOutcome
<1> QED BY <1>1, <1>2, <1>3 DEF Publish

-----------------------------------------------------------------------------
(* DecisionOutput: what the steps of the writer leave alone.               *)

LEMMA OutputBegins == OutputInit => OutIInv
<1> SUFFICES ASSUME OutputInit PROVE OutIInv
  OBVIOUS
<1> USE DEF OutputInit
<1>1. OutTyped
  <2>1. <<>> \in Seq(Items) /\ <<>> \in Seq(AllOutFaults) /\ Len(<<>>) = 0 /\ 0 <= OutMaxFaults
    BY OutputAssumption, EmptySeq
  <2>2. [pc |-> "claim", ended |-> FALSE, got |-> <<>>] \in ReaderRows
    BY <2>1 DEF ReaderRows, ReaderPcs
  <2>3. ordr \in [OutReaders -> ReaderRows] /\ olate \in [OutReaders -> Nat]
    BY <2>2
  <2>4. omark \in Markers /\ owr \in Writers
    BY OutputAssumption DEF Markers, Writers
  <2> QED BY <2>1, <2>3, <2>4 DEF OutTyped
<1>2. LogOk /\ WriterOk
  <2>1. ~Closed /\ ~Unsure /\ Len(olog) = owr.seq
    BY DEF Closed, Unsure
  <2> QED BY <2>1 DEF LogOk, WriterOk, Ordered, Over
<1>3. ReadersOk /\ ClosedIsWhole
  BY DEF ReadersOk, Forwards, ClosedIsWhole
<1>4. \A r \in OutReaders : Follows(r) /\ Ticks(r) /\ CleanIsWhole(r)
  BY DEF Follows, Ordered, Begins, Ticks, CleanIsWhole, Reading
<1> QED BY <1>1, <1>2, <1>3, <1>4 DEF OutIInv

\* The writer learns nothing of the readers and changes nothing of theirs.
LEMMA ReadersKept ==
    ASSUME OutIInv, ordr' = ordr, olate' = olate, omark'.claimed = omark.claimed, oover => oover'
    PROVE  ReadersOk' /\ \A r \in OutReaders : Ticks(r)'
<1>1. ReadersOk'
  BY DEF OutIInv, ReadersOk, Forwards
<1>2. \A r \in OutReaders : Ticks(r)'
  BY DEF OutIInv, Ticks
<1> QED BY <1>1, <1>2

\* No reader has come to a clean end before the writer has closed the log.
LEMMA NoneClean ==
    ASSUME OutIInv, ordr' = ordr, owr.pc # "closed"
    PROVE  /\ ~omark.done
           /\ \A r \in OutReaders : CleanIsWhole(r)'
  BY DEF OutIInv, CleanIsWhole, LogOk

\* Types of the state the arguments below refer to.
LEMMA OutTypes ==
    ASSUME OutTyped
    PROVE  /\ olog \in Seq(Items) /\ Len(olog) \in Nat /\ (olog = <<>> <=> Len(olog) = 0)
           /\ owr.seq \in Nat /\ owr.sent \in 0..OutEvents /\ owr.cause \in BOOLEAN
           /\ owr.pc \in {"stream", "failure", "close", "closed", "dead"}
           /\ omark.done \in BOOLEAN /\ omark.failed \in BOOLEAN /\ omark.claimed \in BOOLEAN
           /\ OutEvents \in Nat /\ OutMaxEvents \in Nat /\ Failure = OutEvents + 1
           /\ \A r \in OutReaders :
                 /\ ordr[r].got \in Seq(Items) /\ Len(ordr[r].got) \in Nat
                 /\ (ordr[r].got = <<>> <=> Len(ordr[r].got) = 0)
                 /\ ordr[r].pc \in ReaderPcs /\ ordr[r].ended \in BOOLEAN
<1>1. olog \in Seq(Items) /\ Len(olog) \in Nat /\ (olog = <<>> <=> Len(olog) = 0)
  BY EmptySeq DEF OutTyped
<1>2. \A r \in OutReaders :
         /\ ordr[r].got \in Seq(Items) /\ Len(ordr[r].got) \in Nat
         /\ (ordr[r].got = <<>> <=> Len(ordr[r].got) = 0)
         /\ ordr[r].pc \in ReaderPcs /\ ordr[r].ended \in BOOLEAN
  <2> TAKE r \in OutReaders
  <2>1. ordr[r].got \in Seq(Items) /\ ordr[r].pc \in ReaderPcs /\ ordr[r].ended \in BOOLEAN
    BY DEF OutTyped, ReaderRows
  <2> QED BY <2>1, EmptySeq
<1> QED BY <1>1, <1>2, OutputAssumption DEF OutTyped, Writers, Markers, Failure

\* What a log is with one more event.
LEMMA OneMore ==
    ASSUME OutTyped, NEW item \in Items, olog' = Append(olog, item)
    PROVE  /\ olog' \in Seq(Items) /\ Len(olog') = Len(olog) + 1 /\ olog' # <<>>
           /\ olog'[Len(olog')] = item
           /\ \A i \in 1..Len(olog) : olog'[i] = olog[i]
           /\ \A i \in 1..Len(olog') : i \in 1..Len(olog) \/ i = Len(olog')
<1>1. olog \in Seq(Items) /\ Len(olog) \in Nat
  BY OutTypes
<1>2. olog' \in Seq(Items) /\ Len(olog') = Len(olog) + 1 /\ olog'[Len(olog)+1] = item
      /\ \A i \in 1..Len(olog) : olog'[i] = olog[i]
  BY <1>1
<1> QED BY <1>1, <1>2, EmptySeq

\* A reader that has the beginning of the log has it still when the log grows.
LEMMA FollowsGrowth ==
    ASSUME OutIInv, NEW item \in Items, Appended(item), ordr' = ordr,
           owr.cause => owr'.cause, owr'.seq >= owr.seq, owr'.seq \in Nat, Unsure => Unsure',
           owr.pc \notin Over, Unsure => owr'.pc \in Over
    PROVE  \A r \in OutReaders : Follows(r)'
<1> TAKE r \in OutReaders
<1> DEFINE got == ordr[r].got
<1>1. Follows(r) /\ OutTyped
  BY DEF OutIInv
<1>2. /\ Len(olog) = owr.seq /\ Len(got) \in Nat /\ (got = <<>> <=> Len(got) = 0) /\ got' = got
      /\ owr.seq \in Nat /\ Len(olog) \in Nat /\ (olog = <<>> <=> Len(olog) = 0)
  BY <1>1, OutTypes DEF Appended
<1>3. /\ Len(olog') = Len(olog) + 1
      /\ \A i \in 1..Len(olog) : olog'[i] = olog[i]
  BY <1>1, OneMore DEF Appended
<1>4. Ordered(got)' /\ (got # <<>> => owr'.seq >= 1 \/ Unsure')
  BY <1>1, <1>2 DEF Follows, Ordered
<1>5. CASE Begins(got, olog)
  <2>1. Begins(got, olog)'
    BY <1>2, <1>3, <1>5 DEF Begins
  <2> QED BY <1>4, <2>1 DEF Follows
<1>6. CASE got # <<>> /\ olog = <<>>
  <2>1. owr.seq = 0 /\ Unsure /\ Len(olog') = 1
    BY <1>1, <1>2, <1>3, <1>6 DEF Follows
  <2> QED BY <1>2, <1>4, <1>6, <2>1 DEF Follows
<1> QED BY <1>1, <1>5, <1>6 DEF Follows

\* Nor does a reader lose its place when the log stays as it is.
LEMMA FollowsStay ==
    ASSUME OutIInv, olog' = olog, ordr' = ordr,
           owr.cause => owr'.cause, owr'.seq >= owr.seq, owr'.seq \in Nat, Unsure => Unsure',
           owr.pc \in Over => owr'.pc \in Over
    PROVE  /\ \A r \in OutReaders : Follows(r)'
           /\ Ordered(olog)' /\ (olog # <<>> => owr'.seq >= 1 \/ Unsure')
<1>1. OutTyped
  BY DEF OutIInv
<1>2. \A r \in OutReaders : Follows(r)'
  <2> TAKE r \in OutReaders
  <2> DEFINE got == ordr[r].got
  <2>1. Follows(r) /\ got' = got /\ owr.seq \in Nat
    BY <1>1, OutTypes DEF OutIInv
  <2>2. Ordered(got)' /\ (got # <<>> => owr'.seq >= 1 \/ Unsure')
    BY <2>1 DEF Follows, Ordered
  <2>3. Begins(got, olog) => Begins(got, olog)'
    BY <2>1 DEF Begins
  <2> QED BY <2>1, <2>2, <2>3 DEF Follows
<1>3. owr.seq \in Nat
  BY <1>1, OutTypes
<1>4. Ordered(olog)' /\ (olog # <<>> => owr'.seq >= 1 \/ Unsure')
  BY <1>3 DEF OutIInv, LogOk, Ordered
<1> QED BY <1>2, <1>4

-----------------------------------------------------------------------------
(* DecisionOutput: the steps of the writer that append.                    *)

LEMMA PublishKeeps ==
    ASSUME OutTyped, NEW item \in Items \cup {Closing}, NEW ok \in BOOLEAN, Publish(item, ok)
    PROVE  /\ olog' \in Seq(Items) /\ omark' \in Markers /\ omark'.claimed = omark.claimed
           /\ ofaults' \in Seq(AllOutFaults) /\ Len(ofaults') <= OutMaxFaults
           /\ (Unsure => Unsure') /\ (Faulty => Faulty') /\ (FailureLost => FailureLost')
           /\ ok => (Unsure' => Unsure)
           /\ omark'.done => omark.done \/ item = Closing
<1>1. olog \in Seq(Items) /\ omark \in Markers /\ ofaults \in Seq(AllOutFaults)
      /\ Len(ofaults) <= OutMaxFaults
  BY DEF OutTyped
<1>2. Appended(item) => item \in Items
  BY DEF Appended
<1>3. /\ olog' \in Seq(Items) /\ omark' \in Markers /\ omark'.claimed = omark.claimed
      /\ omark'.done => omark.done \/ item = Closing
  <2>1. CASE Stays
    BY <1>1, <2>1 DEF Stays
  <2>2. CASE Appended(item)
    BY <1>1, <1>2, <2>2, OneMore DEF Appended
  <2>3. CASE ClosedNow(item)
    BY <1>1, <2>3 DEF ClosedNow, Markers
  <2>4. CASE FullNow(item)
    BY <1>1, <2>4 DEF FullNow, Markers
  <2> QED BY <2>1, <2>2, <2>3, <2>4, PublishOutcomes
<1>4. CASE ofaults' = ofaults
  BY <1>1, <1>3, <1>4 DEF Unsure, Faulty, FailureLost
<1>5. CASE ~ok /\ \E f \in {"append", "unsure"} : OutStrikes(f)
  BY <1>1, <1>3, <1>5, Struck
<1> QED BY <1>4, <1>5, PublishOutcomes

\* The next event is the one the log expects.
LEMMA EmitKeeps ==
    ASSUME OutIInv, EmitEvent
    PROVE  OutIInv'
<1>0. PICK ok \in BOOLEAN :
         /\ Publish(owr.sent + 1, ok)
         /\ owr' = [owr EXCEPT !.sent = @ + 1, !.seq = IF ok THEN @ + 1 ELSE @, !.cause = ~ok]
  BY DEF EmitEvent
<1> DEFINE item == owr.sent + 1
<1>1. OutTyped
  BY DEF OutIInv
<1>2. owr.pc = "stream" /\ owr.sent < OutEvents /\ ~owr.cause /\ UNCHANGED <<oover, ordr, olate>>
  BY DEF EmitEvent
<1>3. owr.seq = owr.sent /\ ~Closed /\ ~Unsure
  BY <1>2 DEF OutIInv, WriterOk
<1>4. item \in Items /\ item = owr.seq + 1 /\ item <= OutEvents /\ item # Failure /\ item # Closing
  BY <1>1, <1>2, <1>3, OutTypes DEF Items, Closing
<1>5. /\ owr'.pc = "stream" /\ owr'.sent = owr.sent + 1 /\ (owr'.cause <=> ~ok)
      /\ owr'.seq = IF ok THEN owr.seq + 1 ELSE owr.seq
      /\ owr' \in Writers /\ owr'.seq \in Nat /\ owr'.seq >= owr.seq
  <2>1. /\ owr \in Writers /\ owr.sent + 1 \in 0..OutEvents
        /\ owr.seq \in Nat /\ owr.seq + 1 \in Nat
    BY <1>1, <1>2, OutTypes DEF OutTyped
  <2>2. CASE ok
    <3>1. owr' = [owr EXCEPT !.sent = @ + 1, !.seq = owr.seq + 1, !.cause = FALSE]
      BY <1>0, <2>2, Zenon
    <3>2. /\ owr'.pc = owr.pc /\ owr'.sent = owr.sent + 1
          /\ owr'.seq = owr.seq + 1 /\ owr'.cause = FALSE
      BY <2>1, <3>1 DEF Writers
    <3>3. owr' \in Writers
      BY <2>1, <3>1 DEF Writers
    <3> QED BY <1>2, <2>1, <2>2, <3>2, <3>3
  <2>3. CASE ~ok
    <3>1. owr' = [owr EXCEPT !.sent = @ + 1, !.seq = owr.seq, !.cause = TRUE]
      BY <1>0, <2>3, Zenon
    <3>2. /\ owr'.pc = owr.pc /\ owr'.sent = owr.sent + 1
          /\ owr'.seq = owr.seq /\ owr'.cause = TRUE
      BY <2>1, <3>1 DEF Writers
    <3>3. owr' \in Writers
      BY <2>1, <3>1 DEF Writers
    <3> QED BY <1>2, <2>1, <2>3, <3>2, <3>3
  <2> QED BY <2>2, <2>3
<1>6. /\ olog' \in Seq(Items) /\ omark' \in Markers /\ omark'.claimed = omark.claimed
      /\ ofaults' \in Seq(AllOutFaults) /\ Len(ofaults') <= OutMaxFaults
      /\ (Faulty => Faulty') /\ (FailureLost => FailureLost')
      /\ ok => ~Unsure'
      /\ ~omark'.done
  BY <1>0, <1>1, <1>3, <1>4, PublishKeeps DEF Closed
<1>7. OutTyped'
  BY <1>1, <1>2, <1>5, <1>6 DEF OutTyped
<1>8. ReadersOk' /\ \A r \in OutReaders : Ticks(r)' /\ CleanIsWhole(r)'
  BY <1>2, <1>6, ReadersKept, NoneClean
<1> HIDE DEF item
<1>9. \/ ok /\ Stays /\ owr.seq < Len(olog)
      \/ ok /\ Appended(item)
      \/ ~ok /\ Stays /\ Len(olog) < owr.seq
      \/ ~ok /\ FullNow(item)
      \/ ~ok /\ Stays /\ Faulty'
      \/ ~ok /\ Unsure' /\ Faulty' /\ (Stays \/ Appended(item) \/ FullNow(item))
  <2>1. ~ClosedNow(item)
    BY <1>4 DEF ClosedNow
  <2>2. OutStrikes("append") => Faulty'
    BY <1>1, Struck
  <2>3. OutStrikes("unsure") => Faulty' /\ Unsure'
    BY <1>1, Struck
  <2> QED BY <1>0, <1>1, <1>3, <2>1, <2>2, <2>3, PublishOutcomes DEF item
<1>10. owr.seq \in Nat /\ Len(olog) \in Nat /\ (olog = <<>> <=> Len(olog) = 0)
  BY <1>1, OutTypes
<1>11. Len(olog) = owr.seq \/ (olog = <<>> /\ Faulty)
  BY <1>3 DEF OutIInv, WriterOk
<1>12. Appended(item) => Ordered(olog)' /\ Len(olog') = owr.seq + 1
                           /\ (\A i \in 1..Len(olog') : olog'[i] # Failure)
  <2> SUFFICES ASSUME Appended(item)
               PROVE  Ordered(olog)' /\ Len(olog') = owr.seq + 1
                      /\ \A i \in 1..Len(olog') : olog'[i] # Failure
    OBVIOUS
  <2>1. /\ Len(olog') = Len(olog) + 1 /\ olog'[Len(olog')] = item
        /\ \A i \in 1..Len(olog) : olog'[i] = olog[i]
        /\ \A i \in 1..Len(olog') : i \in 1..Len(olog) \/ i = Len(olog')
    BY <1>1, <1>4, OneMore DEF Appended
  <2>2. Len(olog) = owr.seq
    BY DEF Appended
  <2>3. \A i \in 1..Len(olog) : olog[i] = i /\ i <= OutEvents /\ olog[i] # Failure
    BY <1>2 DEF OutIInv, LogOk, Ordered, Over
  <2> QED BY <1>4, <2>1, <2>2, <2>3 DEF Ordered
<1>13. (\A r \in OutReaders : Follows(r)') /\ LogOk'
  <2>1. ASSUME olog' = olog
        PROVE  (\A r \in OutReaders : Follows(r)') /\ LogOk'
    <3>1. /\ \A r \in OutReaders : Follows(r)'
          /\ Ordered(olog)' /\ (olog # <<>> => owr'.seq >= 1 \/ Unsure')
      BY <1>2, <1>3, <1>5, <2>1, FollowsStay DEF Over
    <3> QED BY <1>2, <1>5, <1>6, <2>1, <3>1 DEF OutIInv, LogOk, Over
  <2>2. ASSUME Appended(item)
        PROVE  (\A r \in OutReaders : Follows(r)') /\ LogOk'
    <3>1. \A r \in OutReaders : Follows(r)'
      BY <1>2, <1>3, <1>4, <1>5, <2>2, FollowsGrowth DEF Over
    <3>2. owr'.seq >= 1 \/ Unsure'
      BY <1>5, <1>9, <1>10, <2>2, OneMore, <1>1, <1>4 DEF Stays, FullNow, Appended
    <3> QED BY <1>5, <1>6, <1>12, <2>2, <3>1, <3>2 DEF LogOk, Over
  <2> QED BY <1>9, <2>1, <2>2 DEF Stays, FullNow
<1>14. WriterOk'
  <2>1. ok => owr'.seq = owr'.sent /\ ~Closed' /\ ~Unsure'
    BY <1>3, <1>5, <1>6, <1>9 DEF Stays, Appended, Closed
  <2>2. ~Unsure' /\ ~Closed' => Len(olog') = owr'.seq \/ (olog' = <<>> /\ Faulty')
    BY <1>5, <1>6, <1>9, <1>10, <1>11, <1>12 DEF Stays, FullNow, Closed
  <2>3. ~ok => Faulty' \/ omark'.failed
    BY <1>6, <1>9, <1>10, <1>11 DEF FullNow
  <2> QED BY <1>5, <2>1, <2>2, <2>3 DEF WriterOk
<1>15. ClosedIsWhole'
  BY <1>6 DEF ClosedIsWhole
<1> QED BY <1>7, <1>8, <1>13, <1>14, <1>15 DEF OutIInv

\* The failure is the last event, unless the log no longer takes it.
LEMMA PublishFailureKeeps ==
    ASSUME OutIInv, PublishFailure
    PROVE  OutIInv'
<1>0. PICK ok \in BOOLEAN :
         /\ Publish(Failure, ok)
         /\ owr' = [owr EXCEPT !.pc = "close", !.seq = IF ok THEN @ + 1 ELSE @]
  BY DEF PublishFailure
<1>1. OutTyped
  BY DEF OutIInv
<1>2. owr.pc = "failure" /\ UNCHANGED <<oover, ordr, olate>>
  BY DEF PublishFailure
<1>3. owr.cause /\ (Faulty \/ omark.failed) /\ ~omark.done
  BY <1>2 DEF OutIInv, WriterOk, LogOk
<1>4. /\ Failure \in Items /\ Failure # Closing
      /\ owr.seq \in Nat /\ owr.seq + 1 \in Nat
      /\ Len(olog) \in Nat /\ (olog = <<>> <=> Len(olog) = 0)
  BY <1>1, OutTypes DEF Items, Closing
<1>5. /\ owr'.pc = "close" /\ owr'.sent = owr.sent /\ owr'.cause
      /\ owr'.seq = IF ok THEN owr.seq + 1 ELSE owr.seq
      /\ owr' \in Writers /\ owr'.seq \in Nat /\ owr'.seq >= owr.seq
  <2>1. owr \in Writers
    BY <1>1 DEF OutTyped
  <2>2. CASE ok
    <3>1. owr' = [owr EXCEPT !.pc = "close", !.seq = owr.seq + 1]
      BY <1>0, <2>2, Zenon
    <3>2. /\ owr'.pc = "close" /\ owr'.sent = owr.sent
          /\ owr'.seq = owr.seq + 1 /\ owr'.cause = owr.cause
      BY <2>1, <3>1 DEF Writers
    <3>3. owr' \in Writers
      BY <1>4, <2>1, <3>1 DEF Writers
    <3> QED BY <1>3, <1>4, <2>2, <3>2, <3>3
  <2>3. CASE ~ok
    <3>1. owr' = [owr EXCEPT !.pc = "close", !.seq = owr.seq]
      BY <1>0, <2>3, Zenon
    <3>2. /\ owr'.pc = "close" /\ owr'.sent = owr.sent
          /\ owr'.seq = owr.seq /\ owr'.cause = owr.cause
      BY <2>1, <3>1 DEF Writers
    <3>3. owr' \in Writers
      BY <1>4, <2>1, <3>1 DEF Writers
    <3> QED BY <1>3, <1>4, <2>3, <3>2, <3>3
  <2> QED BY <2>2, <2>3
<1>6. /\ olog' \in Seq(Items) /\ omark' \in Markers /\ omark'.claimed = omark.claimed
      /\ ofaults' \in Seq(AllOutFaults) /\ Len(ofaults') <= OutMaxFaults
      /\ (Unsure => Unsure') /\ (Faulty => Faulty') /\ (FailureLost => FailureLost')
      /\ ~omark'.done
  BY <1>0, <1>1, <1>3, <1>4, PublishKeeps
<1>7. OutTyped'
  BY <1>1, <1>2, <1>5, <1>6 DEF OutTyped
<1>8. ReadersOk' /\ \A r \in OutReaders : Ticks(r)' /\ CleanIsWhole(r)'
  BY <1>2, <1>6, ReadersKept, NoneClean
<1>9. \/ ok /\ Stays /\ omark.failed
      \/ ok /\ Stays /\ ~Closed /\ owr.seq < Len(olog)
      \/ ok /\ Appended(Failure)
      \/ ~ok /\ Stays /\ ~Closed /\ Len(olog) < owr.seq
      \/ ~ok /\ FullNow(Failure)
      \/ ~ok /\ Stays /\ Faulty' /\ (Faulty => FailureLost')
      \/ ~ok /\ Unsure' /\ Faulty' /\ FailureLost'
           /\ (Stays \/ Appended(Failure) \/ FullNow(Failure))
  <2>1. ~ClosedNow(Failure)
    BY <1>4 DEF ClosedNow
  <2>2. OutStrikes("append") => Faulty' /\ (Faulty => FailureLost')
    BY <1>1, Struck
  <2>3. OutStrikes("unsure") => Faulty' /\ Unsure' /\ FailureLost'
    BY <1>1, Struck
  <2>4. Closed => omark.failed
    BY <1>3 DEF Closed
  <2> QED BY <1>0, <1>1, <2>1, <2>2, <2>3, <2>4, PublishOutcomes
<1>10. ~Unsure /\ ~Closed => Len(olog) = owr.seq \/ (olog = <<>> /\ Faulty)
  BY DEF OutIInv, WriterOk
<1>11. Appended(Failure) => /\ Ordered(olog)' /\ Len(olog') = owr.seq + 1
                            /\ olog' # <<>> /\ Last(olog') = Failure
  <2> SUFFICES ASSUME Appended(Failure)
               PROVE  /\ Ordered(olog)' /\ Len(olog') = owr.seq + 1
                      /\ olog' # <<>> /\ Last(olog') = Failure
    OBVIOUS
  <2>1. /\ Len(olog') = Len(olog) + 1 /\ olog'[Len(olog')] = Failure /\ olog' # <<>>
        /\ \A i \in 1..Len(olog) : olog'[i] = olog[i]
        /\ \A i \in 1..Len(olog') : i \in 1..Len(olog) \/ i = Len(olog')
    BY <1>1, <1>4, OneMore DEF Appended
  <2>2. Len(olog) = owr.seq
    BY DEF Appended
  <2>3. \A i \in 1..Len(olog) : olog[i] = i /\ i <= OutEvents
    BY <1>2 DEF OutIInv, LogOk, Ordered, Over
  <2> QED BY <1>5, <2>1, <2>2, <2>3 DEF Ordered, Last
<1>12. (\A r \in OutReaders : Follows(r)') /\ LogOk'
  <2>1. ASSUME olog' = olog
        PROVE  (\A r \in OutReaders : Follows(r)') /\ LogOk'
    <3>1. /\ \A r \in OutReaders : Follows(r)'
          /\ Ordered(olog)' /\ (olog # <<>> => owr'.seq >= 1 \/ Unsure')
      BY <1>2, <1>5, <1>6, <2>1, FollowsStay DEF Over
    <3> QED BY <1>5, <1>6, <2>1, <3>1 DEF LogOk, Over
  <2>2. ASSUME Appended(Failure)
        PROVE  (\A r \in OutReaders : Follows(r)') /\ LogOk'
    <3>1. \A r \in OutReaders : Follows(r)'
      BY <1>2, <1>4, <1>5, <1>6, <2>2, FollowsGrowth DEF Over
    <3>2. owr'.seq >= 1 \/ Unsure'
      <4>1. olog' # olog
        BY <1>1, <1>4, <2>2, OneMore DEF Appended
      <4> QED BY <1>4, <1>5, <1>9, <4>1 DEF Stays, FullNow
    <3> QED BY <1>5, <1>6, <1>11, <2>2, <3>1, <3>2 DEF LogOk, Over
  <2> QED BY <1>9, <2>1, <2>2 DEF Stays, FullNow
<1>13. WriterOk'
  <2>1. ~Unsure' /\ ~Closed' => Len(olog') = owr'.seq \/ (olog' = <<>> /\ Faulty')
    BY <1>4, <1>5, <1>6, <1>9, <1>10, <1>11 DEF Stays, FullNow, Closed
  <2>2. ASSUME ~FailureLost'
        PROVE  \/ olog' # <<>> /\ Last(olog') = Failure
               \/ omark'.failed \/ Len(olog') # owr'.seq
    <3>1. ~Unsure
      BY <1>6, <2>2 DEF Unsure, FailureLost
    <3>2. \/ Stays /\ omark.failed
          \/ Appended(Failure)
          \/ ~ok /\ Stays /\ Len(olog) < owr.seq
          \/ FullNow(Failure)
      BY <1>3, <1>4, <1>9, <1>10, <2>2, <3>1
    <3> QED BY <1>4, <1>5, <1>11, <3>2 DEF Stays, FullNow
  <2>3. omark'.failed /\ owr'.seq = 0 => Faulty'
    <3> SUFFICES ASSUME omark'.failed, owr'.seq = 0 PROVE Faulty'
      OBVIOUS
    <3>1. ~ok
      BY <1>4, <1>5
    <3>2. Faulty' \/ FullNow(Failure)
      BY <1>4, <1>5, <1>9, <3>1
    <3> QED BY <1>3, <1>6, <3>2 DEF FullNow, Closed
  <2> QED BY <1>5, <2>1, <2>2, <2>3 DEF WriterOk
<1>14. ClosedIsWhole'
  BY <1>6 DEF ClosedIsWhole
<1> QED BY <1>7, <1>8, <1>12, <1>13, <1>14 DEF OutIInv

\* A log that is closed is whole: all events, or the failure at the end.
LEMMA CloseKeeps ==
    ASSUME OutIInv, CloseOutput
    PROVE  OutIInv'
<1>0. PICK ok \in BOOLEAN : Publish(Closing, ok) /\ oover' = (oover \/ ~ok)
  BY DEF CloseOutput
<1>1. OutTyped
  BY DEF OutIInv
<1>2. owr.pc = "close" /\ owr' = [owr EXCEPT !.pc = "closed"] /\ UNCHANGED <<ordr, olate>>
  BY DEF CloseOutput
<1>3. /\ owr'.pc = "closed" /\ owr'.sent = owr.sent /\ owr'.seq = owr.seq
      /\ owr'.cause = owr.cause /\ owr' \in Writers /\ owr.seq \in Nat
  BY <1>1, <1>2 DEF OutTyped, Writers
<1>4. /\ olog' \in Seq(Items) /\ omark' \in Markers /\ omark'.claimed = omark.claimed
      /\ ofaults' \in Seq(AllOutFaults) /\ Len(ofaults') <= OutMaxFaults
      /\ (Unsure => Unsure') /\ (Faulty => Faulty') /\ (FailureLost => FailureLost')
  BY <1>0, <1>1, PublishKeeps
<1>5. oover' \in BOOLEAN /\ (oover => oover')
  BY <1>0
<1>6. OutTyped'
  BY <1>1, <1>2, <1>3, <1>4, <1>5 DEF OutTyped
<1>7. ~omark.done /\ ReadersOk' /\ \A r \in OutReaders : Ticks(r)' /\ CleanIsWhole(r)'
  BY <1>2, <1>4, <1>5, ReadersKept, NoneClean
<1>8. /\ olog' = olog
      /\ \/ omark' = omark
         \/ omark'.done /\ ~Closed /\ Len(olog) = owr.seq
  <2>1. ~Appended(Closing) /\ ~FullNow(Closing)
    BY DEF Appended, FullNow
  <2> QED BY <1>0, <1>1, <2>1, PublishOutcomes DEF Stays, ClosedNow
<1>9. (\A r \in OutReaders : Follows(r)') /\ LogOk'
  <2>1. /\ \A r \in OutReaders : Follows(r)'
        /\ Ordered(olog)' /\ (olog # <<>> => owr'.seq >= 1 \/ Unsure')
    BY <1>2, <1>3, <1>4, <1>8, FollowsStay DEF Over
  <2> QED BY <1>3, <1>8, <2>1 DEF LogOk, Over
<1>10. WriterOk'
  <2>1. ~Unsure' /\ ~Closed' => Len(olog') = owr'.seq \/ (olog' = <<>> /\ Faulty')
    BY <1>3, <1>4, <1>8 DEF OutIInv, WriterOk, Closed
  <2> QED BY <1>3, <2>1 DEF WriterOk
<1>11. ClosedIsWhole'
  <2> SUFFICES ASSUME omark'.done, ~FailureLost'
               PROVE  Whole(olog)'
    BY DEF ClosedIsWhole
  <2>1. ~Closed /\ Len(olog) = owr.seq
    BY <1>7, <1>8
  <2>2. CASE owr.cause
    <3>1. olog # <<>> /\ Last(olog) = Failure
      BY <1>2, <1>4, <2>1, <2>2 DEF OutIInv, WriterOk, Closed
    <3> QED BY <1>8, <3>1 DEF Whole
  <2>3. CASE ~owr.cause
    <3>1. Len(olog) = OutEvents
      BY <1>2, <2>1, <2>3 DEF OutIInv, WriterOk
    <3>2. \A i \in 1..Len(olog) : olog[i] = i
      BY <2>3 DEF OutIInv, LogOk, Ordered
    <3>3. olog \in Seq(Items)
      BY <1>1, OutTypes
    <3>4. olog = Emitted
      BY <3>1, <3>2, <3>3 DEF Emitted
    <3> QED BY <1>3, <1>8, <2>3, <3>4 DEF Whole, Emitted
  <2> QED BY <2>2, <2>3
<1> QED BY <1>6, <1>7, <1>9, <1>10, <1>11 DEF OutIInv

-----------------------------------------------------------------------------
(* DecisionOutput: the other steps of the writer, and the expiry.          *)

LEMMA AgentFailsKeeps ==
    ASSUME OutIInv, AgentFails
    PROVE  OutIInv'
<1>1. OutTyped
  BY DEF OutIInv
<1>2. /\ owr.pc = "stream" /\ ~owr.cause /\ OutStrikes("agent")
      /\ owr' = [owr EXCEPT !.cause = TRUE]
      /\ UNCHANGED <<olog, omark, oover, ordr, olate>>
  BY DEF AgentFails
<1>3. /\ owr'.pc = "stream" /\ owr'.sent = owr.sent /\ owr'.seq = owr.seq
      /\ owr'.cause /\ owr' \in Writers /\ owr.seq \in Nat
  BY <1>1, <1>2 DEF OutTyped, Writers
<1>4. /\ ofaults' \in Seq(AllOutFaults) /\ Len(ofaults') <= OutMaxFaults
      /\ (Unsure => Unsure') /\ (FailureLost => FailureLost') /\ Faulty'
  BY <1>1, <1>2, Struck
<1>5. OutTyped'
  BY <1>1, <1>2, <1>3, <1>4 DEF OutTyped
<1>6. ~omark.done /\ ReadersOk' /\ \A r \in OutReaders : Ticks(r)' /\ CleanIsWhole(r)'
  BY <1>2, ReadersKept, NoneClean
<1>7. (\A r \in OutReaders : Follows(r)') /\ LogOk'
  <2>1. /\ \A r \in OutReaders : Follows(r)'
        /\ Ordered(olog)' /\ (olog # <<>> => owr'.seq >= 1 \/ Unsure')
    BY <1>2, <1>3, <1>4, FollowsStay DEF Over
  <2> QED BY <1>2, <1>3, <1>6, <2>1 DEF OutIInv, LogOk, Over
<1>8. WriterOk'
  <2>1. ~Unsure' /\ ~Closed' => Len(olog') = owr'.seq \/ (olog' = <<>> /\ Faulty')
    BY <1>2, <1>3, <1>4 DEF OutIInv, WriterOk, Closed
  <2> QED BY <1>3, <1>4, <2>1 DEF WriterOk
<1>9. ClosedIsWhole'
  BY <1>2, <1>6 DEF ClosedIsWhole
<1> QED BY <1>5, <1>6, <1>7, <1>8, <1>9 DEF OutIInv

LEMMA EndStreamKeeps ==
    ASSUME OutIInv, EndStream
    PROVE  OutIInv'
<1>1. OutTyped
  BY DEF OutIInv
<1>2. /\ owr.pc = "stream" /\ (owr.sent = OutEvents \/ owr.cause)
      /\ owr' = [owr EXCEPT !.pc = IF owr.cause THEN "failure" ELSE "close"]
      /\ UNCHANGED <<olog, omark, ordr, olate, ofaults>>
  BY DEF EndStream
<1>3. oover' \in BOOLEAN /\ (oover => oover')
  BY <1>1 DEF EndStream, OutTyped
<1>4. /\ owr'.pc = IF owr.cause THEN "failure" ELSE "close"
      /\ owr'.sent = owr.sent /\ owr'.seq = owr.seq
      /\ owr'.cause = owr.cause /\ owr' \in Writers /\ owr.seq \in Nat
  BY <1>1, <1>2 DEF OutTyped, Writers
<1>5. OutTyped'
  BY <1>1, <1>2, <1>3, <1>4 DEF OutTyped
<1>6. ~omark.done /\ ReadersOk' /\ \A r \in OutReaders : Ticks(r)' /\ CleanIsWhole(r)'
  BY <1>2, <1>3, ReadersKept, NoneClean
<1>7. (Unsure' <=> Unsure) /\ (Faulty' <=> Faulty)
  BY <1>2 DEF Unsure, Faulty
<1>8. (\A r \in OutReaders : Follows(r)') /\ LogOk'
  <2>1. /\ \A r \in OutReaders : Follows(r)'
        /\ Ordered(olog)' /\ (olog # <<>> => owr'.seq >= 1 \/ Unsure')
    BY <1>2, <1>4, <1>7, FollowsStay DEF Over
  <2>2. \A i \in 1..Len(olog) : olog[i] # Failure
    BY <1>2 DEF OutIInv, LogOk, Over
  <2> QED BY <1>2, <1>6, <2>1, <2>2 DEF LogOk
<1>9. WriterOk'
  <2>1. ~Unsure' /\ ~Closed' => Len(olog') = owr'.seq \/ (olog' = <<>> /\ Faulty')
    BY <1>2, <1>4, <1>7 DEF OutIInv, WriterOk, Closed
  <2>2. CASE owr.cause
    <3>1. Faulty' \/ omark'.failed
      BY <1>2, <1>7, <2>2 DEF OutIInv, WriterOk
    <3> QED BY <1>4, <2>1, <2>2, <3>1 DEF WriterOk
  <2>3. CASE ~owr.cause
    <3>1. owr.seq = OutEvents /\ owr.sent = OutEvents
      BY <1>2, <2>3 DEF OutIInv, WriterOk
    <3> QED BY <1>4, <2>1, <2>3, <3>1 DEF WriterOk
  <2> QED BY <2>2, <2>3
<1>10. ClosedIsWhole'
  BY <1>2, <1>6 DEF ClosedIsWhole
<1> QED BY <1>5, <1>6, <1>8, <1>9, <1>10 DEF OutIInv

LEMMA OwnerDiesKeeps ==
    ASSUME OutIInv, OwnerDies
    PROVE  OutIInv'
<1>1. OutTyped
  BY DEF OutIInv
<1>2. /\ owr.pc # "closed" /\ OutStrikes("crash") /\ owr' = [owr EXCEPT !.pc = "dead"]
      /\ UNCHANGED <<olog, omark, oover, ordr, olate>>
  BY DEF OwnerDies
<1>3. /\ owr'.pc = "dead" /\ owr'.sent = owr.sent /\ owr'.seq = owr.seq
      /\ owr'.cause = owr.cause /\ owr' \in Writers /\ owr.seq \in Nat
  BY <1>1, <1>2 DEF OutTyped, Writers
<1>4. /\ ofaults' \in Seq(AllOutFaults) /\ Len(ofaults') <= OutMaxFaults
      /\ (Unsure => Unsure') /\ (FailureLost => FailureLost') /\ (Faulty => Faulty')
  BY <1>1, <1>2, Struck
<1>5. OutTyped'
  BY <1>1, <1>2, <1>3, <1>4 DEF OutTyped
<1>6. ~omark.done /\ ReadersOk' /\ \A r \in OutReaders : Ticks(r)' /\ CleanIsWhole(r)'
  BY <1>2, ReadersKept, NoneClean
<1>7. (\A r \in OutReaders : Follows(r)') /\ LogOk'
  <2>1. /\ \A r \in OutReaders : Follows(r)'
        /\ Ordered(olog)' /\ (olog # <<>> => owr'.seq >= 1 \/ Unsure')
    BY <1>2, <1>3, <1>4, FollowsStay DEF Over
  <2> QED BY <1>2, <1>3, <1>6, <2>1 DEF LogOk, Over
<1>8. WriterOk'
  <2>1. ~Unsure' /\ ~Closed' => Len(olog') = owr'.seq \/ (olog' = <<>> /\ Faulty')
    BY <1>2, <1>3, <1>4 DEF OutIInv, WriterOk, Closed
  <2> QED BY <1>3, <2>1 DEF WriterOk
<1>9. ClosedIsWhole'
  BY <1>2, <1>6 DEF ClosedIsWhole
<1> QED BY <1>5, <1>6, <1>7, <1>8, <1>9 DEF OutIInv

LEMMA OwnerReplacedKeeps ==
    ASSUME OutIInv, OwnerReplaced
    PROVE  OutIInv'
<1>1. OutTyped
  BY DEF OutIInv
<1>2. /\ owr.pc = "dead" /\ oover' = TRUE
      /\ UNCHANGED <<olog, omark, owr, ordr, olate, ofaults>>
  BY DEF OwnerReplaced
<1>3. OutTyped'
  BY <1>1, <1>2 DEF OutTyped
<1>4. ~omark.done /\ ReadersOk' /\ \A r \in OutReaders : Ticks(r)' /\ CleanIsWhole(r)'
  BY <1>2, ReadersKept, NoneClean
<1>5. (\A r \in OutReaders : Follows(r)') /\ LogOk' /\ WriterOk'
  BY <1>2 DEF OutIInv, Follows, LogOk, WriterOk, Ordered, Begins, Unsure, Faulty, FailureLost, Closed
<1>6. ClosedIsWhole'
  BY <1>2, <1>4 DEF ClosedIsWhole
<1> QED BY <1>3, <1>4, <1>5, <1>6 DEF OutIInv

\* The empty log of an expiry is the log of a writer that has lost something.
LEMMA LogExpiresKeeps ==
    ASSUME OutIInv, LogExpires
    PROVE  OutIInv'
<1>1. OutTyped
  BY DEF OutIInv
<1>2. /\ OutStrikes("expire") /\ \A r \in OutReaders : ordr[r].pc # "claim"
      /\ olog' = <<>>
      /\ omark' = [done |-> FALSE, failed |-> FALSE, claimed |-> FALSE]
      /\ UNCHANGED <<owr, oover, ordr, olate>>
  BY DEF LogExpires
<1>3. /\ ofaults' \in Seq(AllOutFaults) /\ Len(ofaults') <= OutMaxFaults
      /\ (Unsure => Unsure') /\ (Unsure' => Unsure) /\ (FailureLost => FailureLost')
      /\ Faulty' /\ (Faulty => FailureLost')
  BY <1>1, <1>2, Struck
<1>4. olog' \in Seq(Items) /\ omark' \in Markers /\ Len(olog') = 0
  BY <1>2, EmptySeq DEF Markers
<1>5. OutTyped'
  BY <1>1, <1>2, <1>3, <1>4 DEF OutTyped
<1>6. ReadersOk'
  BY <1>2 DEF OutIInv, ReadersOk, Forwards
<1>7. \A r \in OutReaders : Ticks(r)'
  BY <1>2 DEF OutIInv, Ticks
<1>8. \A r \in OutReaders : Follows(r)'
  <2> TAKE r \in OutReaders
  <2> DEFINE got == ordr[r].got
  <2>1. Follows(r) /\ got' = got /\ Len(got) \in Nat /\ (got = <<>> <=> Len(got) = 0)
    BY <1>1, <1>2, OutTypes DEF OutIInv
  <2>2. Ordered(got)' /\ (got # <<>> => owr'.seq >= 1 \/ Unsure')
    BY <1>2, <1>3, <2>1 DEF Follows, Ordered
  <2>3. CASE got = <<>>
    <3>1. Begins(got, olog)'
      BY <1>4, <2>1, <2>3 DEF Begins
    <3> QED BY <2>1, <2>2, <3>1 DEF Follows
  <2>4. CASE got # <<>>
    BY <1>2, <2>1, <2>2, <2>4 DEF Follows
  <2> QED BY <2>3, <2>4
<1>9. LogOk'
  BY <1>2, <1>4 DEF LogOk, Ordered
<1>10. WriterOk'
  <2>1. ~Closed' /\ ~omark'.failed
    BY <1>2 DEF Closed
  <2>2. owr.pc = "stream" /\ ~owr.cause => owr.seq = owr.sent /\ ~Unsure
    BY DEF OutIInv, WriterOk
  <2>3. (owr.pc = "failure" => owr.cause)
        /\ (owr.pc = "close" /\ ~owr.cause => owr.sent = OutEvents /\ owr.seq = OutEvents)
    BY DEF OutIInv, WriterOk
  <2>4. owr.pc = "close" /\ owr.cause /\ owr.seq = 0 => FailureLost'
    <3> SUFFICES ASSUME owr.pc = "close", owr.cause, owr.seq = 0, ~FailureLost'
                 PROVE  FALSE
      OBVIOUS
    <3>1. ~Faulty /\ ~FailureLost /\ ~Unsure
      BY <1>3 DEF Unsure, FailureLost
    <3>2. olog = <<>> /\ Len(olog) = 0
      BY <1>1, <3>1, OutTypes DEF OutIInv, LogOk
    <3>3. omark.failed
      BY <3>1, <3>2 DEF OutIInv, WriterOk
    <3> QED BY <3>1, <3>3 DEF OutIInv, WriterOk
  <2>5. owr'.pc = "close" /\ owr'.cause /\ ~FailureLost' => Len(olog') # owr'.seq
    BY <1>2, <1>4, <2>4
  <2> QED BY <1>2, <1>3, <2>1, <2>2, <2>3, <2>5 DEF WriterOk
<1>11. ClosedIsWhole'
  BY <1>2 DEF ClosedIsWhole
<1>12. \A r \in OutReaders : CleanIsWhole(r)'
  BY <1>2, <1>3 DEF OutIInv, CleanIsWhole, Whole
<1> QED BY <1>5, <1>6, <1>7, <1>8, <1>9, <1>10, <1>11, <1>12 DEF OutIInv

-----------------------------------------------------------------------------
(* DecisionOutput: the steps of a reader.                                  *)

\* The log and the writer are as they were, and so is what every reader has.
LEMMA LogKept ==
    ASSUME OutIInv, olog' = olog, owr' = owr,
           omark'.done = omark.done, omark'.failed = omark.failed,
           Unsure' <=> Unsure, Faulty => Faulty', FailureLost => FailureLost',
           \A s \in OutReaders : ordr'[s].got = ordr[s].got
    PROVE  LogOk' /\ WriterOk' /\ \A s \in OutReaders : Follows(s)'
<1>1. LogOk'
  BY DEF OutIInv, LogOk, Ordered
<1>2. WriterOk'
  BY DEF OutIInv, WriterOk, Closed
<1>3. \A s \in OutReaders : Follows(s)'
  BY DEF OutIInv, Follows, Ordered, Begins
<1> QED BY <1>1, <1>2, <1>3

\* A reader that moves on, and has forwarded nothing.
LEMMA ReaderGoesOn ==
    ASSUME OutIInv, OutTyped', NEW r \in OutReaders, ordr[r].pc \in Reading,
           UNCHANGED <<olog, omark, owr, oover>>,
           Unsure' <=> Unsure, Faulty => Faulty', FailureLost => FailureLost',
           ordr'[r].pc \in Reading \cup {"broken", "gone"}, ordr'[r].got = ordr[r].got,
           Ticks(r)',
           \A s \in OutReaders \ {r} : ordr'[s] = ordr[s] /\ olate'[s] = olate[s]
    PROVE  OutIInv'
<1>1. \A s \in OutReaders : ordr'[s].got = ordr[s].got
  OBVIOUS
<1>2. LogOk' /\ WriterOk' /\ \A s \in OutReaders : Follows(s)'
  BY <1>1, LogKept
<1>3. \A s \in OutReaders : /\ Forwards(s)' <=> Forwards(s)
                            /\ ordr'[s].pc = "claim" <=> ordr[s].pc = "claim"
                            /\ ordr'[s].pc \in Reading => ordr[s].pc \in Reading
                            /\ ordr'[s].pc = "clean" => ordr[s].pc = "clean"
  BY DEF Forwards, Reading
<1>4. ReadersOk'
  BY <1>1, <1>3 DEF OutIInv, ReadersOk
<1>5. ClosedIsWhole'
  BY <1>3 DEF OutIInv, ClosedIsWhole, Whole
<1>6. \A s \in OutReaders : Ticks(s)' /\ CleanIsWhole(s)'
  <2> TAKE s \in OutReaders
  <2>1. Ticks(s)'
    BY DEF OutIInv, Ticks
  <2>2. CleanIsWhole(s)'
    BY <1>1, <1>3 DEF OutIInv, CleanIsWhole, Whole
  <2> QED BY <2>1, <2>2
<1> QED BY <1>2, <1>4, <1>5, <1>6 DEF OutIInv

\* The row of a reader that goes to pc.
LEMMA RowAt ==
    ASSUME OutTyped, NEW r \in OutReaders, NEW pc \in ReaderPcs, ReaderAt(r, pc)
    PROVE  /\ ordr' \in [OutReaders -> ReaderRows]
           /\ ordr'[r].pc = pc /\ ordr'[r].ended = ordr[r].ended /\ ordr'[r].got = ordr[r].got
           /\ \A s \in OutReaders \ {r} : ordr'[s] = ordr[s]
<1>1. ordr \in [OutReaders -> ReaderRows] /\ ordr' = [ordr EXCEPT ![r].pc = pc]
  BY DEF OutTyped, ReaderAt
<1>2. ordr[r] \in ReaderRows
  BY <1>1
<1>3. /\ [ordr[r] EXCEPT !.pc = pc] \in ReaderRows
      /\ [ordr[r] EXCEPT !.pc = pc].pc = pc
      /\ [ordr[r] EXCEPT !.pc = pc].ended = ordr[r].ended
      /\ [ordr[r] EXCEPT !.pc = pc].got = ordr[r].got
  BY <1>2 DEF ReaderRows
<1>4. ordr' = [ordr EXCEPT ![r] = [ordr[r] EXCEPT !.pc = pc]]
  BY <1>1
<1> QED BY <1>1, <1>3, <1>4

LEMMA ReadFailsKeeps ==
    ASSUME OutIInv, NEW r \in OutReaders, ReadFails(r)
    PROVE  OutIInv'
<1>1. OutTyped
  BY DEF OutIInv
<1>2. /\ ordr[r].pc \in Reading /\ ReaderAt(r, "broken") /\ OutStrikes("read")
      /\ UNCHANGED <<olog, omark, owr, oover, olate>>
  BY DEF ReadFails, Reading
<1>3. /\ ordr' \in [OutReaders -> ReaderRows]
      /\ ordr'[r].pc = "broken" /\ ordr'[r].ended = ordr[r].ended /\ ordr'[r].got = ordr[r].got
      /\ \A s \in OutReaders \ {r} : ordr'[s] = ordr[s]
  BY <1>1, <1>2, RowAt DEF ReaderPcs
<1>4. /\ ofaults' \in Seq(AllOutFaults) /\ Len(ofaults') <= OutMaxFaults
      /\ (Unsure' <=> Unsure) /\ (Faulty => Faulty') /\ (FailureLost => FailureLost')
  BY <1>1, <1>2, Struck
<1>5. OutTyped'
  BY <1>1, <1>2, <1>3, <1>4 DEF OutTyped
<1>6. Ticks(r)'
  BY <1>2, <1>3 DEF OutIInv, Ticks
<1> QED BY <1>2, <1>3, <1>4, <1>5, <1>6, ReaderGoesOn

LEMMA WakeupKeeps ==
    ASSUME OutIInv, NEW r \in OutReaders, Wakeup(r)
    PROVE  OutIInv'
<1>1. OutTyped
  BY DEF OutIInv
<1>2. /\ ordr[r].pc = "sleep" /\ ReaderAt(r, "read")
      /\ UNCHANGED <<olog, omark, owr, oover, olate, ofaults>>
  BY DEF Wakeup
<1>3. /\ ordr' \in [OutReaders -> ReaderRows]
      /\ ordr'[r].pc = "read" /\ ordr'[r].ended = ordr[r].ended /\ ordr'[r].got = ordr[r].got
      /\ \A s \in OutReaders \ {r} : ordr'[s] = ordr[s]
  BY <1>1, <1>2, RowAt DEF ReaderPcs, Reading
<1>4. (Unsure' <=> Unsure) /\ (Faulty => Faulty') /\ (FailureLost => FailureLost')
  BY <1>2 DEF Unsure, Faulty, FailureLost
<1>5. OutTyped'
  BY <1>1, <1>2, <1>3 DEF OutTyped
<1>6. Ticks(r)'
  BY <1>2, <1>3 DEF OutIInv, Ticks
<1> QED BY <1>2, <1>3, <1>4, <1>5, <1>6, ReaderGoesOn DEF Reading

LEMMA LeaveKeeps ==
    ASSUME OutIInv, NEW r \in OutReaders, Leave(r)
    PROVE  OutIInv'
<1>1. OutTyped
  BY DEF OutIInv
<1>2. /\ ordr[r].pc \in Reading /\ ReaderAt(r, "gone")
      /\ UNCHANGED <<olog, omark, owr, oover, olate, ofaults>>
  BY DEF Leave
<1>3. /\ ordr' \in [OutReaders -> ReaderRows]
      /\ ordr'[r].pc = "gone" /\ ordr'[r].ended = ordr[r].ended /\ ordr'[r].got = ordr[r].got
      /\ \A s \in OutReaders \ {r} : ordr'[s] = ordr[s]
  BY <1>1, <1>2, RowAt DEF ReaderPcs
<1>4. (Unsure' <=> Unsure) /\ (Faulty => Faulty') /\ (FailureLost => FailureLost')
  BY <1>2 DEF Unsure, Faulty, FailureLost
<1>5. OutTyped'
  BY <1>1, <1>2, <1>3 DEF OutTyped
<1>6. Ticks(r)'
  BY <1>2, <1>3 DEF OutIInv, Ticks, Reading
<1> QED BY <1>2, <1>3, <1>4, <1>5, <1>6, ReaderGoesOn

\* A tick counts only while the snapshot shows that the run ended.
LEMMA TickKeeps ==
    ASSUME OutIInv, NEW r \in OutReaders, Tick(r)
    PROVE  OutIInv'
<1>1. OutTyped
  BY DEF OutIInv
<1>2. /\ ordr[r].pc = "sleep"
      /\ ordr' = [ordr EXCEPT ![r].pc = AfterTick, ![r].ended = @ /\ oover]
      /\ olate' = [olate EXCEPT ![r] = IF oover THEN @ + 1 ELSE @]
      /\ UNCHANGED <<olog, omark, owr, oover, ofaults>>
  BY DEF Tick
<1>3. /\ olate[r] = IF ordr[r].ended THEN 1 ELSE 0
      /\ ordr[r].ended => oover
  BY <1>2 DEF OutIInv, Ticks
<1>4. /\ ordr \in [OutReaders -> ReaderRows] /\ olate \in [OutReaders -> Nat]
      /\ oover \in BOOLEAN /\ ordr[r].ended \in BOOLEAN /\ AfterTick \in ReaderPcs
  BY <1>1, OutTypes DEF OutTyped, AfterTick, ReaderPcs, Reading
<1>5. ordr[r] \in ReaderRows /\ (ordr[r].ended /\ oover) = ordr[r].ended
  BY <1>3, <1>4
<1>6. ordr' = [ordr EXCEPT ![r] = [ordr[r] EXCEPT !.pc = AfterTick, !.ended = ordr[r].ended]]
  BY <1>2, <1>5, Zenon
<1>7. /\ [ordr[r] EXCEPT !.pc = AfterTick, !.ended = ordr[r].ended] \in ReaderRows
      /\ [ordr[r] EXCEPT !.pc = AfterTick, !.ended = ordr[r].ended].pc = AfterTick
      /\ [ordr[r] EXCEPT !.pc = AfterTick, !.ended = ordr[r].ended].ended = ordr[r].ended
      /\ [ordr[r] EXCEPT !.pc = AfterTick, !.ended = ordr[r].ended].got = ordr[r].got
  BY <1>4, <1>5 DEF ReaderRows
<1>8. /\ ordr' \in [OutReaders -> ReaderRows]
      /\ ordr'[r].pc = AfterTick /\ ordr'[r].ended = ordr[r].ended /\ ordr'[r].got = ordr[r].got
      /\ \A s \in OutReaders \ {r} : ordr'[s] = ordr[s]
  BY <1>4, <1>6, <1>7
<1>9. /\ olate' \in [OutReaders -> Nat]
      /\ olate'[r] = IF oover THEN olate[r] + 1 ELSE olate[r]
      /\ \A s \in OutReaders \ {r} : olate'[s] = olate[s]
  BY <1>2, <1>4
<1>10. (Unsure' <=> Unsure) /\ (Faulty => Faulty') /\ (FailureLost => FailureLost')
  BY <1>2 DEF Unsure, Faulty, FailureLost
<1>11. OutTyped'
  BY <1>1, <1>2, <1>8, <1>9 DEF OutTyped
<1>12. Ticks(r)'
  BY <1>2, <1>3, <1>8, <1>9 DEF Ticks, AfterTick
<1> QED BY <1>2, <1>8, <1>9, <1>10, <1>11, <1>12, ReaderGoesOn DEF Reading, AfterTick

\* The claim goes to the first that asks.
LEMMA ClaimKeeps ==
    ASSUME OutIInv, NEW r \in OutReaders, ClaimDecisionOutput(r)
    PROVE  OutIInv'
<1> DEFINE next == IF MayForward THEN "read" ELSE "replayed"
<1>1. OutTyped
  BY DEF OutIInv
<1>2. /\ ordr[r].pc = "claim" /\ ReaderAt(r, next)
      /\ omark' = [omark EXCEPT !.claimed = TRUE]
      /\ UNCHANGED <<olog, owr, oover, olate, ofaults>>
  BY DEF ClaimDecisionOutput
<1>3. next \in ReaderPcs /\ (next = "read" <=> ~omark.claimed) /\ next \in {"read", "replayed"}
  BY DEF MayForward, ReaderPcs, Reading
<1> HIDE DEF next
<1>4. /\ ordr' \in [OutReaders -> ReaderRows]
      /\ ordr'[r].pc = next /\ ordr'[r].ended = ordr[r].ended /\ ordr'[r].got = ordr[r].got
      /\ \A s \in OutReaders \ {r} : ordr'[s] = ordr[s]
  BY <1>1, <1>2, <1>3, RowAt
<1>5. /\ omark' \in Markers /\ omark'.claimed
      /\ omark'.done = omark.done /\ omark'.failed = omark.failed
  BY <1>1, <1>2 DEF OutTyped, Markers
<1>6. OutTyped'
  BY <1>1, <1>2, <1>4, <1>5 DEF OutTyped
<1>7. (Unsure' <=> Unsure) /\ (Faulty => Faulty') /\ (FailureLost' <=> FailureLost)
  BY <1>2 DEF Unsure, Faulty, FailureLost
<1>8. \A s \in OutReaders : ordr'[s].got = ordr[s].got
  BY <1>4
<1>9. LogOk' /\ WriterOk' /\ \A s \in OutReaders : Follows(s)'
  BY <1>2, <1>5, <1>7, <1>8, LogKept
<1>10. ReadersOk'
  <2>1. \A s \in OutReaders \ {r} : /\ Forwards(s)' <=> Forwards(s)
                                    /\ ordr'[s].pc = "claim" <=> ordr[s].pc = "claim"
    BY <1>4 DEF Forwards
  <2>2. Forwards(r)' => ~omark.claimed
    BY <1>3, <1>4 DEF Forwards
  <2>3. ordr[r].got = <<>>
    BY <1>2 DEF OutIInv, ReadersOk, Forwards
  <2>4. Forwards(r)' => \A s \in OutReaders : ~Forwards(s)
    BY <1>2, <2>2 DEF OutIInv, ReadersOk
  <2>5. \A s, u \in OutReaders : Forwards(s)' /\ Forwards(u)' => s = u
    BY <2>1, <2>4 DEF OutIInv, ReadersOk
  <2>6. \A s \in OutReaders : ordr'[s].got # <<>> => Forwards(s)'
    BY <1>8, <2>1, <2>3 DEF OutIInv, ReadersOk
  <2> QED BY <1>5, <2>5, <2>6 DEF ReadersOk
<1>11. ClosedIsWhole'
  <2> SUFFICES ASSUME omark'.done, ~FailureLost', NEW s \in OutReaders,
                      ordr'[s].pc \in Reading
               PROVE  Whole(olog)'
    BY <1>5 DEF ClosedIsWhole
  <2>1. ordr[s].pc \in Reading \/ (ordr[s].pc = "claim" /\ ~omark.claimed)
    BY <1>2, <1>3, <1>4 DEF Reading
  <2> QED BY <1>2, <1>5, <1>7, <2>1 DEF OutIInv, ClosedIsWhole, Whole
<1>12. \A s \in OutReaders : Ticks(s)' /\ CleanIsWhole(s)'
  <2> TAKE s \in OutReaders
  <2>1. Ticks(s)'
    BY <1>2, <1>3, <1>4 DEF OutIInv, Ticks
  <2>2. ordr'[s].pc = "clean" => ordr[s].pc = "clean"
    BY <1>3, <1>4
  <2>3. CleanIsWhole(s)'
    BY <1>2, <1>7, <1>8, <2>2 DEF OutIInv, CleanIsWhole, Whole
  <2> QED BY <2>1, <2>3
<1> QED BY <1>6, <1>9, <1>10, <1>11, <1>12 DEF OutIInv

\* What a reader has after it has read.
LEMMA Read ==
    ASSUME OutIInv, NEW r \in OutReaders
    PROVE  LET got == ordr[r].got
               now == got \o Fresh(got) IN
           /\ now \in Seq(Items)
           /\ \/ now = olog
              \/ now = got /\ got # <<>> /\ olog = <<>>
              \/ now = got /\ got # <<>> /\ Len(olog) = 1 /\ owr.pc \in Over /\ Unsure
<1> DEFINE got == ordr[r].got
           n == Len(got)
           m == Len(olog)
           now == got \o Fresh(got)
<1>1. Follows(r) /\ OutTyped
  BY DEF OutIInv
<1>2. /\ olog \in Seq(Items) /\ m \in Nat /\ (olog = <<>> <=> m = 0)
      /\ got \in Seq(Items) /\ n \in Nat /\ (got = <<>> <=> n = 0)
  BY <1>1, OutTypes
<1> HIDE DEF got
<1>3. CASE Begins(got, olog)
  <2>1. n <= m /\ \A i \in 1..n : got[i] = olog[i]
    BY <1>3 DEF Begins
  <2>2. /\ Fresh(got) \in Seq(Items) /\ Len(Fresh(got)) = m - n
        /\ \A i \in 1..(m - n) : Fresh(got)[i] = olog[n + i]
    <3>1. Fresh(got) = SubSeq(olog, n + 1, m)
      BY DEF Fresh
    <3>2. /\ SubSeq(olog, n + 1, m) \in Seq(Items)
          /\ Len(SubSeq(olog, n + 1, m)) = m - n
          /\ \A i \in 1..(m - n) : SubSeq(olog, n + 1, m)[i] = olog[n + i]
      BY <1>2, <2>1
    <3> QED BY <3>1, <3>2
  <2>3. /\ now \in Seq(Items) /\ Len(now) = m
        /\ \A i \in 1..n : now[i] = got[i]
        /\ \A i \in 1..(m - n) : now[n + i] = Fresh(got)[i]
    BY <1>2, <2>1, <2>2
  <2> HIDE DEF now
  <2>4. \A i \in 1..m : now[i] = olog[i]
    <3> TAKE i \in 1..m
    <3>1. CASE i \in 1..n
      BY <2>1, <2>3, <3>1
    <3>2. CASE i \notin 1..n
      <4>1. i - n \in 1..(m - n) /\ n + (i - n) = i
        BY <1>2, <2>1, <3>2
      <4> QED BY <2>2, <2>3, <4>1
    <3> QED BY <3>1, <3>2
  <2>5. now = olog
    BY <1>2, <2>3, <2>4
  <2> QED BY <2>3, <2>5 DEF now, got
<1>4. ASSUME got # <<>>, m <= 1
      PROVE  now = got
  <2>1. n + 1 > m
    BY <1>2, <1>4
  <2>2. Fresh(got) = <<>>
    BY <1>2, <2>1 DEF Fresh
  <2> QED BY <1>2, <2>2
<1> HIDE DEF now
<1>5. CASE got # <<>> /\ olog = <<>>
  <2>1. m <= 1
    BY <1>2, <1>5
  <2>2. now = got
    BY <1>4, <1>5, <2>1
  <2> QED BY <1>2, <1>5, <2>2 DEF now, got
<1>6. CASE got # <<>> /\ m = 1 /\ owr.pc \in Over /\ Unsure
  <2>1. now = got
    BY <1>4, <1>6
  <2> QED BY <1>2, <1>6, <2>1 DEF now, got
<1> QED BY <1>1, <1>3, <1>5, <1>6 DEF Follows, got, now

\* A reader reclaims the log only when it stops, and then it is the last to read it.
LEMMA DrainKeeps ==
    ASSUME OutIInv, NEW r \in OutReaders, Drain(r)
    PROVE  OutIInv'
<1> DEFINE got == ordr[r].got
           now == got \o Fresh(got)
           last == ordr[r].pc = "last"
           next == CASE omark.failed -> "broken"
                     [] ~omark.failed /\ omark.done -> "clean"
                     [] ~Closed /\ last /\ ordr[r].ended -> "broken"
                     [] ~Closed /\ last /\ ~ordr[r].ended -> "read"
                     [] OTHER -> "sleep"
           row == [pc |-> next, ended |-> ordr[r].ended \/ last, got |-> now]
<1>1. OutTyped
  BY DEF OutIInv
<1>2. /\ ordr[r].pc \in {"read", "last"}
      /\ ordr' = [ordr EXCEPT ![r] = row]
      /\ olog' = IF Closed THEN <<>> ELSE olog
      /\ UNCHANGED <<omark, owr, oover, olate, ofaults>>
  BY DEF Drain
<1>3. /\ now \in Seq(Items)
      /\ \/ now = olog
         \/ now = got /\ got # <<>> /\ olog = <<>>
         \/ now = got /\ got # <<>> /\ Len(olog) = 1 /\ owr.pc \in Over /\ Unsure
  BY Read
<1>4. /\ olog \in Seq(Items) /\ Len(olog) \in Nat /\ (olog = <<>> <=> Len(olog) = 0)
      /\ ordr[r].ended \in BOOLEAN /\ omark.done \in BOOLEAN /\ omark.failed \in BOOLEAN
  BY <1>1, OutTypes
<1>5. /\ next \in {"broken", "clean", "read", "sleep"}
      /\ Closed => next \in {"broken", "clean"}
      /\ next = "clean" => omark.done
      /\ next = "read" => last /\ ~ordr[r].ended
      /\ next = "sleep" => ~last
  BY DEF Closed
<1> HIDE DEF next, now
<1>6. row \in ReaderRows
  <2>1. next \in ReaderPcs /\ (ordr[r].ended \/ last) \in BOOLEAN
    BY <1>5 DEF ReaderPcs, Reading
  <2> QED BY <1>3, <2>1 DEF ReaderRows
<1>7. /\ ordr' \in [OutReaders -> ReaderRows]
      /\ ordr'[r].pc = next /\ ordr'[r].got = now
      /\ ordr'[r].ended <=> (ordr[r].ended \/ last)
      /\ \A s \in OutReaders \ {r} : ordr'[s] = ordr[s]
  <2>1. ordr \in [OutReaders -> ReaderRows] /\ ordr'[r] = row
    BY <1>1, <1>2 DEF OutTyped
  <2> QED BY <1>2, <1>6, <2>1
<1> HIDE DEF row, last
<1>8. OutTyped'
  BY <1>1, <1>2, <1>4, <1>7, EmptySeq DEF OutTyped
<1>9. (Unsure' <=> Unsure) /\ (Faulty' <=> Faulty) /\ (FailureLost' <=> FailureLost)
  BY <1>2 DEF Unsure, Faulty, FailureLost
<1>10. /\ Forwards(r) /\ \A s \in OutReaders : Forwards(s)' <=> Forwards(s)
       /\ \A s \in OutReaders \ {r} : ~Forwards(s) /\ ordr[s].got = <<>>
       /\ \A s \in OutReaders : ordr'[s].pc = "claim" => ordr[s].pc = "claim" /\ omark.claimed
  <2>1. Forwards(r)
    BY <1>2 DEF Forwards
  <2>2. \A s \in OutReaders : Forwards(s)' <=> Forwards(s)
    BY <1>5, <1>7, <2>1 DEF Forwards
  <2>3. \A s \in OutReaders \ {r} : ~Forwards(s) /\ ordr[s].got = <<>>
    BY <2>1 DEF OutIInv, ReadersOk
  <2>4. \A s \in OutReaders : ordr'[s].pc = "claim" => ordr[s].pc = "claim" /\ omark.claimed
    BY <1>5, <1>7, <2>1 DEF OutIInv, ReadersOk
  <2> QED BY <2>1, <2>2, <2>3, <2>4
<1>11. LogOk'
  BY <1>2, <1>4, <1>9, EmptySeq DEF OutIInv, LogOk, Ordered
<1>12. WriterOk'
  <2>1. CASE ~Closed
    BY <1>2, <1>9, <2>1 DEF OutIInv, WriterOk, Closed
  <2>2. CASE Closed
    <3>1. Closed' /\ omark' = omark /\ owr' = owr
      BY <1>2, <2>2 DEF Closed
    <3>2. owr.pc = "close" => omark.failed
      BY <2>2 DEF OutIInv, LogOk, Closed
    <3>3. /\ owr.pc = "stream" => owr.cause
          /\ owr.pc = "failure" => owr.cause
          /\ owr.pc \in {"stream", "failure"} /\ owr.cause => Faulty \/ omark.failed
          /\ owr.pc = "close" /\ ~owr.cause => owr.sent = OutEvents /\ owr.seq = OutEvents
          /\ owr.pc = "close" /\ owr.cause /\ omark.failed /\ owr.seq = 0 => Faulty
      BY <2>2 DEF OutIInv, WriterOk
    <3> QED BY <1>9, <3>1, <3>2, <3>3 DEF WriterOk
  <2> QED BY <2>1, <2>2
<1>13. ReadersOk'
  <2>1. \A s, u \in OutReaders : Forwards(s)' /\ Forwards(u)' => s = u
    BY <1>10
  <2>2. \A s \in OutReaders : ordr'[s].got # <<>> => Forwards(s)'
    BY <1>7, <1>10
  <2>3. \A s \in OutReaders : ordr'[s].pc = "claim" => omark'.claimed
    BY <1>2, <1>10
  <2> QED BY <2>1, <2>2, <2>3 DEF ReadersOk
<1>14. ClosedIsWhole'
  <2> SUFFICES ASSUME omark'.done, NEW s \in OutReaders,
                      ordr'[s].pc \in Reading \/ (ordr'[s].pc = "claim" /\ ~omark'.claimed)
               PROVE  FALSE
    BY DEF ClosedIsWhole
  <2>1. Closed /\ ordr'[s].pc \in Reading
    BY <1>2, <1>10 DEF Closed
  <2>2. Forwards(s)'
    BY <2>1 DEF Forwards, Reading
  <2>3. s = r
    BY <1>10, <2>2
  <2> QED BY <1>5, <1>7, <2>1, <2>3 DEF Reading
<1>15. \A s \in OutReaders : Follows(s)'
  <2>1. LogOk /\ Follows(r) /\ owr' = owr
    BY <1>2 DEF OutIInv
  <2>2. /\ Ordered(olog) /\ Ordered(got)
        /\ olog # <<>> => owr.seq >= 1 \/ Unsure
        /\ got # <<>> => owr.seq >= 1 \/ Unsure
    BY <2>1 DEF LogOk, Follows
  <2>3. /\ \A i \in 1..Len(now) : \/ now[i] = i /\ i <= OutEvents
                                  \/ i = Len(now) /\ now[i] = Failure /\ owr.cause
        /\ now # <<>> => owr.seq >= 1 \/ Unsure
    BY <1>3, <2>2 DEF Ordered
  <2>4. Ordered(ordr[r].got)' /\ (ordr'[r].got # <<>> => owr'.seq >= 1 \/ Unsure')
    BY <1>7, <1>9, <2>1, <2>3 DEF Ordered
  <2>5. \/ Begins(ordr[r].got, olog)'
        \/ ordr'[r].got # <<>> /\ olog' = <<>>
        \/ ordr'[r].got # <<>> /\ Len(olog') = 1 /\ owr'.pc \in Over /\ Unsure'
    <3>1. CASE now = olog /\ olog' = olog
      <4>1. ordr'[r].got = olog'
        BY <1>7, <3>1
      <4> QED BY <1>4, <3>1, <4>1 DEF Begins
    <3>2. CASE now = olog /\ olog' = <<>>
      <4>1. ordr'[r].got = <<>> => Begins(ordr[r].got, olog)'
        BY <3>2, EmptySeq DEF Begins
      <4> QED BY <3>2, <4>1
    <3>3. CASE now = got /\ got # <<>> /\ (olog = <<>> \/ olog' = <<>>)
      BY <1>2, <1>7, <3>3
    <3>4. CASE /\ now = got /\ got # <<>> /\ Len(olog) = 1 /\ owr.pc \in Over /\ Unsure
               /\ olog' = olog
      BY <1>7, <1>9, <2>1, <3>4
    <3> QED BY <1>2, <1>3, <3>1, <3>2, <3>3, <3>4
  <2>6. Follows(r)'
    BY <2>4, <2>5 DEF Follows
  <2>7. ASSUME NEW s \in OutReaders \ {r}
        PROVE  Follows(s)'
    <3>1. ordr'[s].got = <<>>
      BY <1>7, <1>10
    <3>2. olog' \in Seq(Items) /\ Len(olog') \in Nat
      BY <1>2, <1>4, EmptySeq
    <3> QED BY <3>1, <3>2, EmptySeq DEF Follows, Ordered, Begins
  <2> QED BY <2>6, <2>7
<1>16. \A s \in OutReaders : Ticks(s)'
  <2> TAKE s \in OutReaders
  <2>1. CASE s = r
    <3>1. /\ ordr[r].pc \in {"read", "sleep"} => olate[r] = IF ordr[r].ended THEN 1 ELSE 0
          /\ ordr[r].pc = "last" => olate[r] = IF ordr[r].ended THEN 2 ELSE 1
          /\ ordr[r].ended \/ ordr[r].pc = "last" => oover
      BY DEF OutIInv, Ticks
    <3> QED BY <1>2, <1>4, <1>5, <1>7, <2>1, <3>1 DEF Ticks, last
  <2>2. CASE s # r
    BY <1>2, <1>7, <2>2 DEF OutIInv, Ticks
  <2> QED BY <2>1, <2>2
<1>17. \A s \in OutReaders : CleanIsWhole(s)'
  <2> TAKE s \in OutReaders
  <2>1. CASE s # r
    BY <1>2, <1>7, <1>9, <2>1 DEF OutIInv, CleanIsWhole, Whole
  <2>2. ASSUME s = r, next = "clean", ~FailureLost
        PROVE  owr.pc = "closed" /\ Whole(now)
    <3>1. omark.done /\ owr.pc = "closed" /\ Whole(olog)
      BY <1>2, <1>5, <2>2 DEF OutIInv, LogOk, ClosedIsWhole, Reading
    <3>2. ~Unsure
      BY <2>2 DEF Unsure, FailureLost
    <3>3. CASE now = olog
      BY <3>1, <3>3
    <3>4. CASE now = got /\ got # <<>> /\ olog = <<>>
      <4>1. olog = Emitted /\ ~owr.cause
        BY <3>1, <3>4 DEF Whole
      <4>2. OutEvents = 0
        <5>1. DOMAIN Emitted = {} /\ OutEvents \in Nat
          BY <3>4, <4>1, OutputAssumption
        <5> QED BY <5>1 DEF Emitted
      <4>3. 1 \in 1..Len(got)
        BY <1>1, <3>4, OutTypes
      <4>4. FALSE
        BY <4>1, <4>2, <4>3 DEF OutIInv, Follows, Ordered
      <4> QED BY <4>4
    <3> QED BY <1>3, <3>1, <3>2, <3>3, <3>4
  <2>3. CASE s = r
    BY <1>2, <1>5, <1>7, <1>9, <2>2, <2>3 DEF CleanIsWhole, Whole, LogOk, OutIInv, Emitted
  <2> QED BY <2>1, <2>3
<1> QED BY <1>8, <1>11, <1>12, <1>13, <1>14, <1>15, <1>16, <1>17 DEF OutIInv

\* A sequence that counts the events is the beginning of all of them.
LEMMA CountingIsPrefix ==
    ASSUME NEW q \in Seq(Items), \A i \in 1..Len(q) : q[i] = i /\ i <= OutEvents
    PROVE  IsPrefix(q, Emitted)
<1> DEFINE n == Len(q)
<1>1. n \in Nat /\ OutEvents \in Nat
  BY OutputAssumption
<1>2. n <= OutEvents
  <2>1. CASE n = 0
    BY <1>1, <2>1
  <2>2. CASE n # 0
    <3>1. n \in 1..Len(q)
      BY <1>1, <2>2
    <3> QED BY <3>1
  <2> QED BY <2>1, <2>2
<1>3. Emitted \in Seq(Nat) /\ Len(Emitted) = OutEvents /\ \A i \in 1..OutEvents : Emitted[i] = i
  BY <1>1 DEF Emitted
<1>4. /\ SubSeq(q, 1, n) \in Seq(Items) /\ Len(SubSeq(q, 1, n)) = n
      /\ \A i \in 1..n : SubSeq(q, 1, n)[i] = q[i]
  BY <1>1
<1>5. /\ SubSeq(Emitted, 1, n) \in Seq(Nat) /\ Len(SubSeq(Emitted, 1, n)) = n
      /\ \A i \in 1..n : SubSeq(Emitted, 1, n)[i] = Emitted[i]
  BY <1>1, <1>2, <1>3
<1>6. \A i \in 1..n : q[i] = Emitted[i]
  BY <1>1, <1>2, <1>3
<1>7. SubSeq(q, 1, n) = SubSeq(Emitted, 1, n)
  BY <1>1, <1>4, <1>5, <1>6
<1> QED BY <1>2, <1>3, <1>7 DEF IsPrefix

LEMMA InvForwardsInOrder == OutIInv => ForwardedInOrder
<1> SUFFICES ASSUME OutIInv, NEW r \in OutReaders
             PROVE  \/ IsPrefix(ordr[r].got, Emitted)
                    \/ /\ Len(ordr[r].got) > 0 /\ Last(ordr[r].got) = Failure
                       /\ IsPrefix(Front(ordr[r].got), Emitted)
  BY DEF ForwardedInOrder
<1> DEFINE got == ordr[r].got
           n == Len(got)
<1>1. got \in Seq(Items) /\ n \in Nat
  BY OutTypes DEF OutIInv
<1>2. \A i \in 1..n : (got[i] = i /\ i <= OutEvents) \/ (i = n /\ got[i] = Failure)
  BY DEF OutIInv, Follows, Ordered
<1> HIDE DEF got
<1>3. CASE \A i \in 1..n : got[i] = i /\ i <= OutEvents
  BY <1>1, <1>3, CountingIsPrefix DEF got
<1>4. CASE \E i \in 1..n : ~(got[i] = i /\ i <= OutEvents)
  <2>1. n > 0 /\ Last(got) = Failure
    BY <1>1, <1>2, <1>4 DEF Last
  <2>2. /\ Front(got) \in Seq(Items) /\ Len(Front(got)) = n - 1
        /\ \A i \in 1..(n - 1) : Front(got)[i] = got[i]
    <3>1. n - 1 \in Int /\ 1 \in Int /\ \A i \in 1..(n - 1) : got[i] \in Items
      BY <1>1
    <3>2. /\ SubSeq(got, 1, n - 1) \in Seq(Items)
          /\ Len(SubSeq(got, 1, n - 1)) = IF 1 <= n - 1 THEN (n - 1) - 1 + 1 ELSE 0
          /\ \A i \in 1..((n - 1) - 1 + 1) : SubSeq(got, 1, n - 1)[i] = got[1 + i - 1]
      BY <3>1, SubSeqProperties
    <3>3. (IF 1 <= n - 1 THEN (n - 1) - 1 + 1 ELSE 0) = n - 1 /\ (n - 1) - 1 + 1 = n - 1
      <4>1. \A k \in Nat : k > 0 => /\ (IF 1 <= k - 1 THEN (k - 1) - 1 + 1 ELSE 0) = k - 1
                                   /\ (k - 1) - 1 + 1 = k - 1
        OBVIOUS
      <4> QED BY <1>1, <2>1, <4>1, Zenon
    <3>4. \A i \in 1..(n - 1) : 1 + i - 1 = i
      OBVIOUS
    <3> QED BY <3>2, <3>3, <3>4 DEF Front
  <2>3. \A i \in 1..Len(Front(got)) : Front(got)[i] = i /\ i <= OutEvents
    BY <1>1, <1>2, <2>2
  <2>4. IsPrefix(Front(got), Emitted)
    BY <2>2, <2>3, CountingIsPrefix
  <2> QED BY <2>1, <2>4 DEF got
<1> QED BY <1>3, <1>4

LEMMA OutputInvariant == OutputSpec => []OutIInv
<1>1. OutputInit => OutIInv
  BY OutputBegins
<1>2. OutIInv /\ [OutputNext]_ovars => OutIInv'
  <2> SUFFICES ASSUME OutIInv, [OutputNext]_ovars PROVE OutIInv'
    OBVIOUS
  <2>1. CASE Writer
    BY <2>1, EmitKeeps, AgentFailsKeeps, EndStreamKeeps, PublishFailureKeeps, CloseKeeps,
       OwnerDiesKeeps, OwnerReplacedKeeps DEF Writer
  <2>2. CASE LogExpires
    BY <2>2, LogExpiresKeeps
  <2>3. CASE \E r \in OutReaders : Reader(r)
    BY <2>3, ClaimKeeps, DrainKeeps, ReadFailsKeeps, WakeupKeeps, TickKeeps, LeaveKeeps DEF Reader
  <2>4. CASE UNCHANGED ovars
    <3>1. OutTyped' /\ LogOk' /\ WriterOk' /\ ReadersOk'
      BY <2>4 DEF ovars, OutIInv, OutTyped, LogOk, WriterOk, ReadersOk, Ordered, Unsure, Faulty,
                  FailureLost, Closed, Forwards
    <3>2. ClosedIsWhole' /\ \A r \in OutReaders : Follows(r)' /\ Ticks(r)' /\ CleanIsWhole(r)'
      BY <2>4 DEF ovars, OutIInv, ClosedIsWhole, Follows, Ticks, CleanIsWhole, Whole, Ordered,
                  Begins, Unsure, FailureLost
    <3> QED BY <3>1, <3>2 DEF OutIInv
  <2> QED BY <2>1, <2>2, <2>3, <2>4 DEF OutputNext
<1> QED BY <1>1, <1>2, PTL DEF OutputSpec

\* The output reaches one channel, in the order it was emitted, and its reader comes to an
\* end, whatever failed, crashed, expired or was full.
THEOREM OutputTheorem == OutputSpec => []OutputInv
<1>1. OutIInv => OutputInv
  <2> SUFFICES ASSUME OutIInv PROVE OutputInv
    OBVIOUS
  <2>1. OutputTypeOK
    <3>1. \A i \in DOMAIN olog : olog[i] \in 1..Failure
      <4>1. olog \in Seq(Items)
        BY OutTypes DEF OutIInv
      <4> QED BY <4>1, ElementOfSeq, LenProperties, Zenon DEF Items
    <3>2. \A r \in OutReaders :
             ordr[r].pc \in {"claim", "replayed", "clean", "broken", "gone"} \cup Reading
      BY OutTypes DEF OutIInv, ReaderPcs
    <3> QED BY <3>1, <3>2 DEF OutIInv, OutTyped, OutputTypeOK, Markers, Writers
  <2>2. ForwardedInOrder
    BY InvForwardsInOrder
  <2>3. OneForwarder
    BY DEF OutIInv, ReadersOk, OneForwarder
  <2>4. ReaderStops
    BY DEF OutIInv, Ticks, ReaderStops
  <2> QED BY <2>1, <2>2, <2>3, <2>4 DEF OutputInv
<1> QED BY <1>1, OutputInvariant, PTL

\* A reader that stops without an error has forwarded the whole output or the failure that
\* cut it short, unless the failure itself could not be recorded.
THEOREM CompleteTheorem == OutputSpec => []CleanMeansComplete
<1>1. OutIInv => CleanMeansComplete
  <2> SUFFICES ASSUME OutIInv, NEW r \in OutReaders, ordr[r].pc = "clean", ~FailureLost
               PROVE  \/ ordr[r].got = Emitted /\ ~owr.cause
                      \/ Len(ordr[r].got) > 0 /\ Last(ordr[r].got) = Failure
    BY DEF CleanMeansComplete
  <2>1. Whole(ordr[r].got)
    BY DEF OutIInv, CleanIsWhole
  <2>2. ordr[r].got # <<>> => Len(ordr[r].got) > 0
    BY OutTypes DEF OutIInv
  <2> QED BY <2>1, <2>2 DEF Whole
<1> QED BY <1>1, OutputInvariant, PTL
=============================================================================
