------------------------------- MODULE Outbox -------------------------------
(***************************************************************************)
(* The durable result of an attempt and its delivery (outbox.go,           *)
(* result_receipt.go, turn_delivery.go, stop.go, reconcile.go): a native   *)
(* result with its signed receipt, a failure the controller observed, the  *)
(* recovery failure that replaces a result no receipt authenticated, and   *)
(* the completion of the turn once the backend's acceptance is witnessed.  *)
(***************************************************************************)
EXTENDS Journal

\* The session whose supervisor speaks for the attempt can still be heard:
\* a request in flight may outlive the Pod.
WorkerHeard(a) ==
    /\ workerSession[a] # None
    /\ pod[workerSession[a]] \in {"running", "terminated", "lost"}

\* A step that changes outbox records only.
OutboxStep ==
    UNCHANGED <<claimVars, authorityVars, writerVars, turnVars, sessionVars, podVars,
                stopVars, storageVars, conversationVars, processVars, clusterVars,
                backend>>

SetDelivery(a, d) ==
    delivery' = [delivery EXCEPT ![a] = d] /\ UNCHANGED <<source, kind, resultReceipt, recovery>>

SetRecovery(a, d) ==
    recovery' = [recovery EXCEPT ![a] = d] /\ UNCHANGED <<source, kind, delivery, resultReceipt>>

-----------------------------------------------------------------------------
(* Native results                                                          *)

\* receiveResult and ReceiveTerminal: the first result of the attempt, also
\* from a turn that is being stopped.  Only a recorded cancellation of the
\* backend authorizes a cancellation acknowledgement.
ReceiveTerminal(a, k) ==
    LET s == workerSession[a] IN
    /\ source[a] = "none" /\ PendingBudget
    /\ state[a] \in {"offered", "starting", "started"}
    /\ CurrentSessionTurn(a) /\ s \in supervisorKey /\ WorkerHeard(a)
    /\ seal[s] = "none"
    /\ k = "cancel-ack" => a \in stopped /\ backend[a] = "cancelled"
    /\ source' = [source EXCEPT ![a] = "worker"]
    /\ kind' = [kind EXCEPT ![a] = k]
    /\ delivery' = [delivery EXCEPT ![a] = "received"]
    /\ state' = [state EXCEPT ![a] = "terminal_received"]
    /\ sessionState' = IF s \in sessionStop THEN sessionState
                       ELSE [sessionState EXCEPT ![s] = "finishing"]
    /\ UNCHANGED <<claimVars, revoked, stopped, complete, cleaned, writerVars, turnVars,
                   resultReceipt, recovery, active, lastComplete, resourcesCleaned,
                   podVars, stopVars, storageVars, conversationVars, worldVars>>

\* validResultReceipt: what the supervisor may authenticate.
AuthenticResult(a) ==
    /\ source[a] = "worker"
    /\ \/ a \in startConfirmed
       \/ kind[a] = "cancel-ack" /\ a \in revoked

\* Mutant: a late receipt is recorded beside the failure that replaced it.
RecordLateReceipt(a) ==
    /\ AuthenticResult(a) /\ a \notin resultReceipt
    /\ state[a] = "terminal_received" /\ WorkerHeard(a)
    /\ resultReceipt' = resultReceipt \cup {a}
    /\ UNCHANGED <<source, kind, delivery, recovery, ambiguous>> /\ OutboxStep

RecordResultReceipt(a) ==
    /\ AuthenticResult(a) /\ recovery[a] = "none" /\ a \notin resultReceipt
    /\ state[a] = "terminal_received" /\ WorkerHeard(a)
    /\ resultReceipt' = resultReceipt \cup {a}
    /\ UNCHANGED <<source, kind, delivery, recovery, ambiguous>> /\ OutboxStep

\* RecordTurnExecutionReceipt: the turn's processes stopped in the worker and
\* every controller writer of the turn is fenced.
RecordTurnExecutionReceipt(a) ==
    LET s == workerSession[a] IN
    /\ source[a] = "worker" /\ recovery[a] = "none" /\ a \notin execReceipt
    /\ state[a] = "terminal_received" /\ WorkerHeard(a) /\ active[s] = a
    /\ CheckoutFenced(a) /\ prep[a] \in {"stopped", "prepared"}
    /\ execReceipt' = execReceipt \cup {a}
    /\ revoked' = revoked \cup {a}
    /\ sessionState' = IF s \in sessionStop THEN sessionState
                       ELSE [sessionState EXCEPT ![s] = "finishing"]
    /\ UNCHANGED <<claimVars, state, stopped, complete, cleaned, writerVars, accepted,
                   startConfirmed, witness, outboxVars, active, lastComplete,
                   resourcesCleaned, podVars, stopVars, storageVars, conversationVars,
                   worldVars>>

-----------------------------------------------------------------------------
(* Controller failures                                                     *)

\* Why the controller gives up on an attempt that has no result: it cannot
\* be reserved, its preparation failed, its session ended without a result,
\* its Pod ended, or the environment interfered (a timeout, a refused lease,
\* the worker's abort).
FailureObserved(a) ==
    LET s == workerSession[a] IN
    \/ a \in Faulty /\ state[a] # "unknown"
    \/ state[a] = "waiting_storage" /\ selection[a] = Fresh
          /\ latest[TaskOf[a]] # None
    \/ s # None /\ prep[a] = "stopped"
    \/ s # None /\ s \in podBound /\ pod[s] \in {"terminated", "neverStarted", "lost"}
    \/ s # None /\ active[s] = a /\ evidence[s] # "none"

\* The failure is the outcome of an attempt that has none.
RecordFailure(a) ==
    /\ source[a] = "none" /\ state[a] \notin {"unknown", "closed"} /\ PendingBudget
    /\ FailureObserved(a)
    /\ source' = [source EXCEPT ![a] = "controller"]
    /\ kind' = [kind EXCEPT ![a] = "fail"]
    /\ delivery' = [delivery EXCEPT ![a] = "received"]
    /\ UNCHANGED <<claimVars, complete, cleaned, writerVars, turnVars, resultReceipt,
                   recovery, active, lastComplete, resourcesCleaned, podVars, rootActive,
                   writer, latest, dirty, rootPrepared, checkpoint, conversationVars,
                   worldVars>>

\* Mutant: the turn is quarantined, its root is not.
QuarantineTurnOnly(a, s) ==
    /\ s # None
    /\ state' = [state EXCEPT ![a] = "quarantined"]
    /\ sessionState' = [sessionState EXCEPT ![s] = DrainingState(s)]
    /\ RecordStop(s, active[s]) /\ RevokeTurn(active[s])
    /\ UNCHANGED quarantined

\* A reserved turn is quarantined with its root, and its session stops.
QuarantineTurn(a, s) ==
    /\ s # None
    /\ state' = [state EXCEPT ![a] = "quarantined"]
    /\ sessionState' = [sessionState EXCEPT ![s] = DrainingState(s)]
    /\ RecordStop(s, active[s]) /\ RevokeTurn(active[s])
    /\ quarantined' = quarantined \cup {storageOf[a]}

\* A claim that was never reserved is unexecuted.
LeaveUnexecuted(a) ==
    /\ workerSession[a] = None
    /\ state' = [state EXCEPT ![a] = "unexecuted"]
    /\ UNCHANGED <<sessionState, stopVars, revoked, stopped, quarantined>>

ReceiveFailure(a) ==
    RecordFailure(a) /\ (QuarantineTurn(a, workerSession[a]) \/ LeaveUnexecuted(a))

\* RecordRecoveryFailure, from recoverUnsealedResult: the worker terminated
\* and the grace period passed without a receipt for its result.
RecordRecoveryFailure(a) ==
    LET s == workerSession[a] IN
    /\ source[a] = "worker" /\ delivery[a] = "received" /\ a \notin resultReceipt
    /\ recovery[a] = "none" /\ a \in stopped
    /\ active[s] = a /\ evidence[s] = "terminated"
    /\ a \in checkoutClosed /\ checkoutBy[a] = 0 /\ PreparationSettled(a)
    /\ recovery' = [recovery EXCEPT ![a] = "received"]
    /\ dirty' = dirty \cup {storageOf[a]}
    /\ UNCHANGED <<claimVars, authorityVars, writerVars, turnVars, source, kind, delivery,
                   resultReceipt, sessionVars, podVars, stopVars, rootActive, writer,
                   latest, quarantined, rootPrepared, checkpoint, conversationVars,
                   worldVars>>

-----------------------------------------------------------------------------
(* Delivery of native results                                              *)

TurnCanSettle(a) == kind[a] \in {"complete", "fail"}

\* Mutant: a result is sent before its receipt is recorded.
DeliverableUnsigned(a) ==
    /\ source[a] = "worker" /\ recovery[a] = "none"
    /\ \/ state[a] = "closed"
       \/ state[a] = "terminal_received" /\ AuthenticResult(a)

\* reconcileDelivery reaches a result that is authenticated, in the running
\* turn or after it.
Deliverable(a) ==
    /\ source[a] = "worker" /\ a \in resultReceipt /\ recovery[a] = "none"
    /\ \/ state[a] = "closed"
       \/ state[a] = "terminal_received" /\ AuthenticResult(a)

\* The request the outbox holds for the attempt may be sent while the backend
\* has this status: terminalAllowed, and for a native result of a turn the
\* stricter test of deliverTurnResult.
BackendAllows(a) ==
    CASE recovery[a] # "none" \/ source[a] = "controller" ->
            backend[a] \in {"dispatched", "running"}
      [] kind[a] = "cancel-ack" /\ recovery[a] = "none" -> backend[a] = "cancelled"
      [] OTHER -> backend[a] = "running"

\* ResumeForward, then BeginForward: a request of unknown fate may be sent
\* again when the start is confirmed and the backend still runs the task, or
\* when it is a cancellation acknowledgement.
BeginForward(a) ==
    /\ Deliverable(a) /\ BackendAllows(a)
    /\ \/ delivery[a] = "received"
       \/ /\ delivery[a] = "uncertain"
          /\ a \in startConfirmed \/ kind[a] = "cancel-ack"
    /\ SetDelivery(a, "forwarding") /\ UNCHANGED ambiguous /\ OutboxStep

\* RejectTerminal: the backend's status forbids the result.  The row of a
\* failed task may be hidden, so an accepted failure can be taken for a
\* foreign one; a completion cannot.
RejectTerminal(a) ==
    /\ Deliverable(a) /\ ~ BackendAllows(a)
    /\ backend[a] = "result" => kind[a] = "fail"
    /\ delivery[a] \in {"received", "uncertain"}
    /\ SetDelivery(a, "rejected") /\ UNCHANGED ambiguous /\ OutboxStep

\* Mutant: an answer of any kind is taken for an acceptance.
OutcomeOfAnyAnswer(a, accepting, outcome) ==
    \/ outcome = "delivered"
    \/ outcome = "uncertain"

\* What the sender can learn of a request (forwardOutcome): an answer, a
\* refusal, that it was never sent, or nothing.
Outcome(a, accepting, outcome) ==
    \/ outcome = "delivered" /\ backend[a] = accepting
    \/ outcome = "rejected" /\ (backend[a] # accepting \/ a \in ambiguous)
    \/ outcome = "uncertain"
    \/ outcome = "received" /\ backend[a] # accepting

AmbiguousAfter(a, outcome) ==
    ambiguous' = IF outcome = "uncertain" THEN ambiguous \cup {a} ELSE ambiguous

\* FinishForward.  A native result is never delivered by this step: its
\* acceptance is recorded by RecordCompletionWitness.
FinishForward(a, outcome) ==
    /\ delivery[a] = "forwarding"
    /\ \/ source[a] = "worker" /\ TurnCanSettle(a) /\ outcome # "delivered"
             /\ Outcome(a, "result", outcome)
       \/ kind[a] = "cancel-ack"
       \/ source[a] = "controller" /\ Outcome(a, "failure", outcome)
    /\ SetDelivery(a, outcome) /\ AmbiguousAfter(a, outcome) /\ OutboxStep

\* recordObservedTurnCompletion and RecordCompletionWitness: the backend's
\* row carries exactly this result.
RecordCompletionWitness(a) ==
    /\ source[a] = "worker" /\ a \in resultReceipt /\ recovery[a] = "none"
    /\ a \in startConfirmed /\ TurnCanSettle(a) /\ delivery[a] # "rejected"
    /\ backend[a] = "result" /\ a \notin witness
    /\ witness' = witness \cup {a}
    /\ delivery' = [delivery EXCEPT ![a] = "delivered"]
    /\ UNCHANGED <<claimVars, authorityVars, writerVars, accepted, startConfirmed,
                   execReceipt, source, kind, resultReceipt, recovery, sessionVars,
                   podVars, stopVars, storageVars, conversationVars, worldVars>>

-----------------------------------------------------------------------------
(* Delivery of failures: only after the grant is closed                    *)

BeginFailureForward(a) ==
    /\ source[a] = "controller" /\ state[a] = "closed" /\ BackendAllows(a)
    /\ \/ delivery[a] = "received"
       \/ delivery[a] = "uncertain" /\ a \in startConfirmed /\ backend[a] = "running"
    /\ SetDelivery(a, "forwarding") /\ UNCHANGED ambiguous /\ OutboxStep

RejectFailure(a) ==
    /\ source[a] = "controller" /\ state[a] = "closed" /\ ~ BackendAllows(a)
    /\ delivery[a] \in {"received", "uncertain"}
    /\ SetDelivery(a, "rejected") /\ UNCHANGED ambiguous /\ OutboxStep

BeginRecoveryForward(a) ==
    /\ recovery[a] # "none" /\ state[a] = "closed" /\ BackendAllows(a)
    /\ \/ recovery[a] = "received"
       \/ recovery[a] = "uncertain" /\ a \in startConfirmed /\ backend[a] = "running"
    /\ SetRecovery(a, "forwarding") /\ UNCHANGED ambiguous /\ OutboxStep

FinishRecoveryForward(a, outcome) ==
    /\ recovery[a] = "forwarding" /\ Outcome(a, "failure", outcome)
    /\ SetRecovery(a, outcome) /\ AmbiguousAfter(a, outcome) /\ OutboxStep

RejectRecoveryFailure(a) ==
    /\ recovery[a] \in {"received", "uncertain"} /\ state[a] = "closed"
    /\ ~ BackendAllows(a)
    /\ SetRecovery(a, "rejected") /\ UNCHANGED ambiguous /\ OutboxStep

-----------------------------------------------------------------------------
(* Completion of the turn                                                  *)

\* Mutant: the root goes on naming the turn.
EndTurnWithoutRoot(a, s, t) ==
    /\ UNCHANGED rootActive
    /\ complete' = complete \cup {a}
    /\ revoked' = revoked \cup {a}
    /\ state' = [state EXCEPT ![a] = "closed"]
    /\ active' = [active EXCEPT ![s] = None]
    /\ lastComplete' = [lastComplete EXCEPT ![s] = a]

\* The turn is over for the root, the grant and the session.
EndTurn(a, s, t) ==
    /\ rootActive' = [rootActive EXCEPT ![t] = None]
    /\ complete' = complete \cup {a}
    /\ revoked' = revoked \cup {a}
    /\ state' = [state EXCEPT ![a] = "closed"]
    /\ active' = [active EXCEPT ![s] = None]
    /\ lastComplete' = [lastComplete EXCEPT ![s] = a]

\* The root stays with the session: written since its last checkpoint.
KeepRoot(t) ==
    /\ dirty' = dirty \cup {t}
    /\ quarantined' = quarantined \ {t}
    /\ checkpoint' = [checkpoint EXCEPT ![t] = None]

\* The accepted result and the execution receipt end the turn; the session
\* keeps its root, dirty, for the next turn of its conversation.
SettleTurn(a, s, t) ==
    /\ s # None /\ a \notin complete /\ active[s] = a
    /\ a \in execReceipt /\ a \in witness /\ delivery[a] = "delivered"
    /\ recovery[a] = "none" /\ TurnWritersFenced(a) /\ TurnCanSettle(a)
    /\ rootActive[t] = a /\ writer[t] = s
    /\ EndTurn(a, s, t) /\ KeepRoot(t)
    /\ UNCHANGED <<claimVars, stopped, cleaned, writerVars, turnVars, outboxVars,
                   resourcesCleaned, podVars, writer, latest, rootPrepared,
                   conversationVars, worldVars>>

\* The session waits for another turn if neither it nor the turn is stopped.
RetainSession(a, s) ==
    /\ a \notin stopped /\ s \notin sessionStop
    /\ sessionState' = [sessionState EXCEPT ![s] = "idle"]
    /\ UNCHANGED stopVars

\* It drains if a stop is recorded, or if it may not be retained at all.
ReleaseSession(s) ==
    /\ sessionState' = [sessionState EXCEPT ![s] = DrainingState(s)]
    /\ RecordStop(s, None)

\* CompleteTurn.  Retention (keep) depends on configuration and the clock.
CompleteTurn(a, keep) ==
    LET s == workerSession[a] IN
    /\ SettleTurn(a, s, storageOf[a])
    /\ \/ keep /\ RetainSession(a, s)
       \/ ~ (keep /\ a \notin stopped /\ s \notin sessionStop) /\ ReleaseSession(s)

\* Mutant: the backend's acceptance is not asked for.
CheckpointUnwitnessed(a, t, s) ==
    /\ a \in eligible /\ CheckpointOutcome(a) /\ recovery[a] = "none"
    /\ CheckoutFenced(a) /\ prep[a] = "prepared"
    /\ SessionStoppedClean(s) /\ EvidenceHolds(s)

\* recoverClosedCheckpoint: the evidence that makes a released root, last
\* written by attempt a, the source of a checkpoint.
CheckpointProven(a, t, s) ==
    /\ a \in eligible /\ CheckpointOutcome(a)
    /\ a \in witness /\ delivery[a] = "delivered" /\ a \in resultReceipt
    /\ recovery[a] = "none" /\ CheckoutFenced(a) /\ prep[a] = "prepared"
    /\ SessionStoppedClean(s) /\ EvidenceHolds(s)

\* CompleteTurn of a turn that is already complete: a late acceptance or a
\* late final receipt proves the released root reusable.
RecoverClosedCheckpoint(a) ==
    LET s == workerSession[a]
        t == storageOf[a]
    IN  /\ s # None /\ a \in complete /\ sessionState[s] = "closed"
        /\ latest[t] = a /\ rootActive[t] = None /\ writer[t] = None
        /\ ~ (checkpoint[t] = a /\ t \notin dirty) /\ TurnCanSettle(a)
        /\ CheckpointProven(a, t, s)
        /\ checkpoint' = [checkpoint EXCEPT ![t] = a]
        /\ dirty' = dirty \ {t}
        /\ quarantined' = quarantined \ {t}
        /\ UNCHANGED <<claimVars, authorityVars, writerVars, turnVars, outboxVars,
                       sessionVars, podVars, stopVars, rootActive, writer, latest,
                       rootPrepared, conversationVars, worldVars>>

Outcomes == {"delivered", "rejected", "uncertain", "received"}

OutboxNext ==
    \E a \in Attempts :
        \/ \E k \in ResultKinds \cup {"cancel-ack"} : ReceiveTerminal(a, k)
        \/ RecordResultReceipt(a) \/ RecordTurnExecutionReceipt(a)
        \/ ReceiveFailure(a) \/ RecordRecoveryFailure(a)
        \/ BeginForward(a) \/ RejectTerminal(a)
        \/ \E outcome \in Outcomes :
              FinishForward(a, outcome) \/ FinishRecoveryForward(a, outcome)
        \/ RecordCompletionWitness(a)
        \/ BeginFailureForward(a) \/ RejectFailure(a)
        \/ BeginRecoveryForward(a) \/ RejectRecoveryFailure(a)
        \/ \E keep \in BOOLEAN : CompleteTurn(a, keep)
        \/ RecoverClosedCheckpoint(a)
=============================================================================
