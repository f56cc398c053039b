-------------------------- MODULE DecisionOutput --------------------------
(***************************************************************************)
(* What an accepted answer streams back to the channel it came from.  The  *)
(* owner appends the events of the continuation to a log in Redis and      *)
(* closes it; of the callers whose response was applied one claims the log *)
(* and forwards it, reading on from a cursor.  Pub/Sub only wakes the      *)
(* reader, so a wakeup may come, be lost or be spurious: a reader may read *)
(* at any time.  A reader whose owner died notices the end of the run in   *)
(* the session's snapshot.                                                 *)
(*   internal/agent/runtime/session/decision_output.go,                    *)
(*   redis_decision_output.go                                              *)
(*   internal/agent/application/runtime_decision.go (the writer)           *)
(*                                                                         *)
(* Abstraction: the limit on bytes is the limit on events.                 *)
(***************************************************************************)
EXTENDS Naturals, Sequences, FiniteSets, SequencesExt

CONSTANTS OutReaders,    \* callers that were told "applied"
          OutEvents,     \* number of events the continuation emits
          OutMaxEvents,  \* decisionOutputLimits
          OutFaults,     \* subset of the faults below
          OutMaxFaults   \* bound: failed operations in one behaviour

Failure == OutEvents + 1   \* the event that reports a failure
Closing == 0               \* the nil payload that closes the log
AllOutFaults == {"append", "unsure", "read", "expire", "crash", "agent"}

ASSUME OutputAssumption ==
    /\ OutEvents \in Nat /\ OutMaxEvents \in Nat /\ OutMaxFaults \in Nat
    /\ OutFaults \subseteq AllOutFaults

VARIABLES
    olog,     \* the Redis list: numbers of events, Failure
    omark,    \* the marker hash: done, failed, claimed
    owr,      \* the writer: pc, outputSeq, events emitted, outputCause
    oover,    \* the snapshot shows the run ended, or another generation
    ordr,     \* ordr[r]: pc, terminalObserved, what was forwarded (its length is the cursor)
    olate,    \* olate[r]: ticks that found the run ended
    ofaults   \* the faults so far

ovars == <<olog, omark, owr, oover, ordr, olate, ofaults>>

Reading == {"read", "sleep", "last"}

OutputTypeOK ==
    /\ \A i \in DOMAIN olog : olog[i] \in 1..Failure
    /\ omark \in [done: BOOLEAN, failed: BOOLEAN, claimed: BOOLEAN]
    /\ owr \in [pc: {"stream", "failure", "close", "closed", "dead"}, seq: Nat,
                sent: 0..OutEvents, cause: BOOLEAN]
    /\ oover \in BOOLEAN
    /\ \A r \in OutReaders : ordr[r].pc \in {"claim", "replayed", "clean", "broken", "gone"} \cup Reading
    /\ Len(ofaults) <= OutMaxFaults

OutputInit ==
    /\ olog = <<>>
    /\ omark = [done |-> FALSE, failed |-> FALSE, claimed |-> FALSE]
    /\ owr = [pc |-> "stream", seq |-> 0, sent |-> 0, cause |-> FALSE]
    /\ oover = FALSE
    /\ ordr = [r \in OutReaders |-> [pc |-> "claim", ended |-> FALSE, got |-> <<>>]]
    /\ olate = [r \in OutReaders |-> 0]
    /\ ofaults = <<>>

OutStrikes(f) ==
    /\ f \in OutFaults /\ Len(ofaults) < OutMaxFaults
    /\ ofaults' = Append(ofaults, f)
-----------------------------------------------------------------------------
(* The log: appendRedisDecisionOutputScript *)

Closed == omark.done \/ omark.failed

\* Mutant: an event that does not continue the log is appended to it all the same.
CodeGapless(seq, closing) ==
    CASE Closed -> "terminal"
      [] ~Closed /\ closing -> "close"
      [] ~Closed /\ ~closing /\ Len(olog) >= OutMaxEvents -> "exceeded"
      [] OTHER -> "append"

\* The result code of an append: only the next sequence number is written.
Code(seq, closing) ==
    CASE Closed -> "terminal"
      [] ~Closed /\ seq <= Len(olog) -> "replayed"
      [] ~Closed /\ seq > Len(olog) + 1 -> "gap"
      [] ~Closed /\ seq = Len(olog) + 1 /\ closing -> "close"
      [] ~Closed /\ seq = Len(olog) + 1 /\ ~closing /\ Len(olog) >= OutMaxEvents -> "exceeded"
      [] OTHER -> "append"

AppendDecisionOutput(seq, item, code) ==
    /\ olog' = IF code = "append" THEN Append(olog, item) ELSE olog
    /\ omark' = [omark EXCEPT !.done = @ \/ code = "close", !.failed = @ \/ code = "exceeded"]

\* PublishDecisionOutput: what the writer learns of its append.
Publish(item, ok) ==
    LET seq == owr.seq + 1
        code == Code(seq, item = Closing) IN
    \/ /\ AppendDecisionOutput(seq, item, code)
       /\ ok = (code \notin {"gap", "exceeded"})
       /\ UNCHANGED ofaults
    \/ OutStrikes("append") /\ ok = FALSE /\ UNCHANGED <<olog, omark>>
    \/ OutStrikes("unsure") /\ ok = FALSE /\ AppendDecisionOutput(seq, item, code)
-----------------------------------------------------------------------------
(* The writer: continueRuntimeDecision *)

\* An event that cannot be published stops the continuation.
EmitEvent ==
    /\ owr.pc = "stream" /\ owr.sent < OutEvents /\ ~owr.cause
    /\ \E ok \in BOOLEAN :
         /\ Publish(owr.sent + 1, ok)
         /\ owr' = [owr EXCEPT !.sent = @ + 1, !.seq = IF ok THEN @ + 1 ELSE @, !.cause = ~ok]
    /\ UNCHANGED <<oover, ordr, olate>>

AgentFails ==
    /\ owr.pc = "stream" /\ ~owr.cause /\ OutStrikes("agent")
    /\ owr' = [owr EXCEPT !.cause = TRUE]
    /\ UNCHANGED <<olog, omark, oover, ordr, olate>>

\* The run is finished before the deferred function closes the log; a run that waits
\* for another decision stays in the view.
EndStream ==
    /\ owr.pc = "stream" /\ (owr.sent = OutEvents \/ owr.cause)
    /\ owr' = [owr EXCEPT !.pc = IF owr.cause THEN "failure" ELSE "close"]
    /\ oover' \in IF owr.cause THEN {TRUE} ELSE {oover, TRUE}
    /\ UNCHANGED <<olog, omark, ordr, olate, ofaults>>

PublishFailure ==
    /\ owr.pc = "failure"
    /\ \E ok \in BOOLEAN :
         /\ Publish(Failure, ok)
         /\ owr' = [owr EXCEPT !.pc = "close", !.seq = IF ok THEN @ + 1 ELSE @]
    /\ UNCHANGED <<oover, ordr, olate>>

\* A log that cannot be closed fails the run.
CloseOutput ==
    /\ owr.pc = "close"
    /\ \E ok \in BOOLEAN :
         /\ Publish(Closing, ok)
         /\ oover' = (oover \/ ~ok)
    /\ owr' = [owr EXCEPT !.pc = "closed"]
    /\ UNCHANGED <<ordr, olate>>

OwnerDies ==
    /\ owr.pc # "closed" /\ owr.pc # "dead" /\ OutStrikes("crash")
    /\ owr' = [owr EXCEPT !.pc = "dead"]
    /\ UNCHANGED <<olog, omark, oover, ordr, olate>>

\* The reaper ends the run of a dead owner, or hands it to another generation.
OwnerReplaced ==
    /\ owr.pc = "dead" /\ ~oover
    /\ oover' = TRUE
    /\ UNCHANGED <<olog, omark, owr, ordr, olate, ofaults>>

\* The log outlives its time to live; callers that were told "applied" have long asked.
LogExpires ==
    /\ OutStrikes("expire")
    /\ \A r \in OutReaders : ordr[r].pc # "claim"
    /\ olog' = <<>>
    /\ omark' = [done |-> FALSE, failed |-> FALSE, claimed |-> FALSE]
    /\ UNCHANGED <<owr, oover, ordr, olate>>
-----------------------------------------------------------------------------
(* The reader: StreamDecisionResponse after an applied response, readDecisionOutput *)

ReaderAt(r, pc) == ordr' = [ordr EXCEPT ![r].pc = pc]

\* Mutant: every caller that was told "applied" forwards.
MayForwardAlways == TRUE

\* ClaimDecisionOutput: HSETNX.
MayForward == ~omark.claimed

ClaimDecisionOutput(r) ==
    /\ ordr[r].pc = "claim"
    /\ ReaderAt(r, IF MayForward THEN "read" ELSE "replayed")
    /\ omark' = [omark EXCEPT !.claimed = TRUE]
    /\ UNCHANGED <<olog, owr, oover, olate, ofaults>>

\* Mutant: the marker counts before the events past the cursor are forwarded.
FreshMarked(got) == IF Closed THEN <<>> ELSE SubSeq(olog, Len(got) + 1, Len(olog))

\* The events past the cursor, in the transaction that reads the markers.
Fresh(got) == SubSeq(olog, Len(got) + 1, Len(olog))

\* drain and finish: forward, then stop on a marker and reclaim the entries.  A read on
\* the second tick after the end of the run is the last.
Drain(r) ==
    LET got == ordr[r].got \o Fresh(ordr[r].got)
        last == ordr[r].pc = "last" IN
    /\ ordr[r].pc \in {"read", "last"}
    /\ ordr' = [ordr EXCEPT ![r] =
         [pc |-> CASE omark.failed -> "broken"
                   [] ~omark.failed /\ omark.done -> "clean"
                   [] ~Closed /\ last /\ ordr[r].ended -> "broken"
                   [] ~Closed /\ last /\ ~ordr[r].ended -> "read"
                   [] OTHER -> "sleep",
          ended |-> ordr[r].ended \/ last, got |-> got]]
    /\ olog' = IF Closed THEN <<>> ELSE olog
    /\ UNCHANGED <<omark, owr, oover, olate, ofaults>>

ReadFails(r) ==
    /\ ordr[r].pc \in {"read", "last"} /\ OutStrikes("read")
    /\ ReaderAt(r, "broken")
    /\ UNCHANGED <<olog, omark, owr, oover, olate>>

Wakeup(r) ==
    /\ ordr[r].pc = "sleep"
    /\ ReaderAt(r, "read")
    /\ UNCHANGED <<olog, omark, owr, oover, olate, ofaults>>

\* Mutant: a tick that finds the run ended only reads again.
AfterTickAgain == "read"

\* The reconciliation tick reads the session's snapshot.
AfterTick == IF oover THEN "last" ELSE "read"

Tick(r) ==
    /\ ordr[r].pc = "sleep" /\ olate[r] < 3
    /\ ordr' = [ordr EXCEPT ![r].pc = AfterTick, ![r].ended = @ /\ oover]
    /\ olate' = [olate EXCEPT ![r] = IF oover THEN @ + 1 ELSE @]
    /\ UNCHANGED <<olog, omark, owr, oover, ofaults>>

\* The caller's request ends.
Leave(r) ==
    /\ ordr[r].pc \in Reading
    /\ ReaderAt(r, "gone")
    /\ UNCHANGED <<olog, omark, owr, oover, olate, ofaults>>

Writer == EmitEvent \/ AgentFails \/ EndStream \/ PublishFailure \/ CloseOutput
              \/ OwnerDies \/ OwnerReplaced
Reader(r) == ClaimDecisionOutput(r) \/ Drain(r) \/ ReadFails(r) \/ Wakeup(r) \/ Tick(r) \/ Leave(r)

OutputNext == Writer \/ LogExpires \/ \E r \in OutReaders : Reader(r)

OutputSpec == OutputInit /\ [][OutputNext]_ovars
-----------------------------------------------------------------------------
(* Properties *)

\* Every event, then the failure if there was one, in the order they were emitted.
Emitted == [i \in 1..OutEvents |-> i]

\* decision_output.go: "a lost wakeup costs latency, never data".  What a channel has
\* received is the beginning of what the continuation emitted, or of what it emitted
\* before it failed: nothing is missing, repeated or out of order.
ForwardedInOrder ==
    \A r \in OutReaders :
        \/ IsPrefix(ordr[r].got, Emitted)
        \/ /\ Len(ordr[r].got) > 0 /\ Last(ordr[r].got) = Failure
           /\ IsPrefix(Front(ordr[r].got), Emitted)

\* The failure itself was not recorded: its append failed after another had, or an
\* append took effect that had returned an error, so that the failure's sequence number
\* was taken.
FailureLost ==
    \/ \E i \in DOMAIN ofaults : ofaults[i] = "unsure"
    \/ \E i, j \in DOMAIN ofaults : i # j /\ ofaults[i] # "crash" /\ ofaults[j] # "crash"

\* decision_output.go, readDecisionOutput: a reader that stops without an error has
\* forwarded the whole output or the failure that cut it short, whatever was full,
\* expired, crashed or failed; the exception is a failure that could not be recorded.
CleanMeansComplete ==
    \A r \in OutReaders : (ordr[r].pc = "clean" /\ ~FailureLost) =>
        \/ ordr[r].got = Emitted /\ ~owr.cause
        \/ Len(ordr[r].got) > 0 /\ Last(ordr[r].got) = Failure

\* decision_output.go, StreamDecisionResponse: "gives only one of those callers
\* permission to forward, including across server instances".
OneForwarder ==
    \A r, s \in OutReaders : (ordr[r].got # <<>> /\ ordr[s].got # <<>>) => r = s

\* decision_output.go, readDecisionOutput: a reader does not outlive its run: the second
\* tick after the run has ended stops it, whoever died.
ReaderStops == \A r \in OutReaders : ordr[r].pc = "sleep" => olate[r] < 2

\* readDecisionOutput and ClaimDecisionOutput together: the output reaches one channel,
\* in order, and its reader comes to an end.
OutputInv == OutputTypeOK /\ ForwardedInOrder /\ OneForwarder /\ ReaderStops
=============================================================================
