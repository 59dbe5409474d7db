---------------------------- MODULE SessionStop ----------------------------
(***************************************************************************)
(* Ending a worker session, or a grant that never had one (stop.go,        *)
(* session_lifecycle.go, session_reconcile.go, session_gateway.go): the    *)
(* stop request, the fence of the controller's own writers, the            *)
(* supervisor's final receipt, positive evidence that the Pod ended, and   *)
(* the transaction that releases the root's writer lease.                  *)
(***************************************************************************)
EXTENDS Outbox, TurnControl

\* The writes of requestSessionStop for a session in any state.
StopSession(s) ==
    /\ sessionState' = [sessionState EXCEPT ![s] = DrainingState(s)]
    /\ RecordStop(s, active[s]) /\ RevokeTurn(active[s])

\* Why a session is stopped without its turn asking for it: its Pod ended or
\* is being deleted, its supervisor asked, or the backend refused the result
\* of its turn (stopUnacceptedTurn).
SessionDisturbed(s) ==
    \/ s \in podBound /\ pod[s] \in {"terminated", "neverStarted"}
    \/ s \in podBound /\ s \in Faulty
    \/ \E a \in Attempts : workerSession[a] = s /\ delivery[a] = "rejected"
                              /\ source[a] = "worker" /\ TurnCanSettle(a)

RequestSessionStop(s) ==
    /\ SessionExists(s) /\ s \notin sessionStop /\ SessionDisturbed(s)
    /\ StopSession(s)
    /\ UNCHANGED <<claimVars, state, complete, cleaned, writerVars, turnVars, outboxVars,
                   active, lastComplete, resourcesCleaned, podVars, storageVars,
                   conversationVars, worldVars>>

\* QuarantineSession: Kubernetes no longer knows the Pod, so nothing proves
\* that its writers ended.
QuarantineSession(s) ==
    /\ SessionExists(s) /\ sessionState[s] \notin {"closed", "quarantined"}
    /\ s \in podBound /\ pod[s] = "lost"
    /\ sessionState' = [sessionState EXCEPT ![s] = "quarantined"]
    /\ RecordStop(s, active[s]) /\ RevokeTurn(active[s])
    /\ quarantined' = quarantined \cup {storageOf[s]}
    /\ UNCHANGED <<claimVars, state, complete, cleaned, writerVars, turnVars, outboxVars,
                   active, lastComplete, resourcesCleaned, podVars, rootActive, writer,
                   latest, dirty, rootPrepared, checkpoint, conversationVars, worldVars>>

\* Why the controller stops an attempt (observeBackendStop, reconcileAttempt,
\* deliver): the backend ended the task, the attempt failed, its Pod ended
\* before a receipt, it acknowledged a cancellation, its deadline passed.
StopReason(a) ==
    \/ backend[a] = "cancelled"
    \/ backend[a] \in {"result", "failure"} /\ state[a] # "terminal_received"
    \/ state[a] \in {"quarantined", "unexecuted"}
    \/ /\ state[a] = "terminal_received" /\ a \notin resultReceipt
       /\ pod[workerSession[a]] = "terminated"
    \/ kind[a] = "cancel-ack" /\ a \in resultReceipt
    \/ state[a] = "started" /\ a \in Faulty

RequestStop(a) ==
    /\ state[a] \notin {"unknown", "closed"} /\ a \notin stopped /\ StopReason(a)
    /\ \/ /\ workerSession[a] # None
          /\ sessionState' = [sessionState EXCEPT ![workerSession[a]] =
                                 DrainingState(workerSession[a])]
          /\ RecordStop(workerSession[a], active[workerSession[a]])
       \/ workerSession[a] = None /\ UNCHANGED <<sessionState, stopVars>>
    /\ RevokeTurn(a)
    /\ UNCHANGED <<claimVars, state, complete, cleaned, writerVars, turnVars, outboxVars,
                   active, lastComplete, resourcesCleaned, podVars, storageVars,
                   conversationVars, worldVars>>

-----------------------------------------------------------------------------
(* The fence and the evidence                                              *)

\* stopSessionControllerWriters: the writers of the stopped turn ended.
ControllerWritersEnded(s) ==
    stopActive[s] # None =>
        /\ stopActive[s] \in checkoutClosed /\ checkoutBy[stopActive[s]] = 0
        /\ PreparationSettled(stopActive[s])

\* sessionStopCommand: syncfs of the root, CheckoutsFlushed and
\* RecordSessionControllerFlush.
RecordSessionControllerFlush(s) ==
    /\ s \in sessionStop /\ sessionState[s] # "closed" /\ s \notin writersStopped
    /\ ControllerWritersEnded(s)
    /\ SyncTaskFilesystem(storageOf[s])
    /\ needsFlush' = needsFlush \ {stopActive[s]}
    /\ writersStopped' = writersStopped \cup {s}
    /\ UNCHANGED <<claimVars, authorityVars, prep, prepBy, checkoutClosed, checkoutBy,
                   turnVars, outboxVars, sessionVars, podVars, sessionStop, stopActive,
                   stopReceipt, evidence, preparedFlush, storageVars, conversationVars,
                   prepWriter, checkoutWriter, clusterVars, backendVars>>

\* RecordSessionStopReceipt: the supervisor's account of how its writers
\* ended.  A clean account needs the controller's fence first; it may arrive
\* after the session closed.
RecordSessionStopReceipt(s) ==
    /\ s \in sessionStop /\ s \in supervisorKey /\ stopReceipt[s] = "none"
    /\ seal[s] # "none"
    /\ seal[s] = "clean" => s \in writersStopped /\ SessionWritersFenced(s)
    /\ stopReceipt' = [stopReceipt EXCEPT ![s] = seal[s]]
    /\ UNCHANGED <<claimVars, authorityVars, writerVars, turnVars, outboxVars, sessionVars,
                   podVars, sessionStop, stopActive, writersStopped, evidence,
                   preparedFlush, storageVars, conversationVars, worldVars>>

\* Mutant: a Pod that Kubernetes no longer knows is taken to have ended.
ObservedEndOfLostPod(s) ==
    IF s \notin podBound THEN "no-worker"
    ELSE CASE pod[s] \in {"terminated", "lost"} -> "terminated"
           [] pod[s] = "neverStarted" -> "never-started"
           [] OTHER -> "none"

\* What reconcileSessionStop observes of the Pod.
ObservedEnd(s) ==
    IF s \notin podBound THEN "no-worker"
    ELSE CASE pod[s] = "terminated" -> "terminated"
           [] pod[s] = "neverStarted" -> "never-started"
           [] OTHER -> "none"

\* ObserveSessionStop, after the session's writers ended and every create
\* request that was issued is resolved.
ObserveSessionStop(s) ==
    LET e == ObservedEnd(s)
        flush == /\ e # "terminated" /\ active[s] # None
                 /\ prep[active[s]] = "prepared" /\ s \in writersStopped
    IN  /\ s \in sessionStop /\ sessionState[s] # "closed" /\ evidence[s] = "none"
        /\ s \in podRequested => s \in podBound
        /\ ControllerWritersEnded(s)
        /\ e # "none" /\ ValidSessionStopEvidence(s, e, flush)
        /\ evidence' = [evidence EXCEPT ![s] = e]
        /\ preparedFlush' = IF flush THEN preparedFlush \cup {s} ELSE preparedFlush
        /\ UNCHANGED <<claimVars, authorityVars, writerVars, turnVars, outboxVars,
                       sessionVars, podVars, sessionStop, stopActive, writersStopped,
                       stopReceipt, storageVars, conversationVars, worldVars>>

-----------------------------------------------------------------------------
(* Release                                                                 *)

\* Mutant: any recorded result lets the session close.
OutcomeRecorded(a) == source[a] # "none"

\* reconcileSessionStop records a failure for a turn without a result before
\* it closes the session, and CloseSession refuses a native result that is
\* neither authenticated nor recovered.
OutcomeKept(a) ==
    /\ source[a] # "none"
    /\ ~ (source[a] = "worker" /\ delivery[a] = "received" /\ recovery[a] = "none"
            /\ a \notin resultReceipt)

\* CloseSession releases the lease.  The root is clean only if the session
\* stopped clean, and then its last completed turn may become a checkpoint.
CloseSession(s) ==
    LET t == storageOf[s]
        a == active[s]
        clean == SessionStoppedClean(s)
        closing == {a} \ {None}
    IN  /\ s \in sessionStop /\ EvidenceHolds(s) /\ sessionState[s] # "closed"
        /\ writer[t] = s
        /\ a # None => OutcomeKept(a)
        /\ state' = [b \in Attempts |-> IF b \in closing THEN "closed" ELSE state[b]]
        /\ complete' = complete \cup closing
        /\ revoked' = revoked \cup closing
        /\ rootActive' = IF a # None THEN [rootActive EXCEPT ![t] = None] ELSE rootActive
        /\ writer' = [writer EXCEPT ![t] = None]
        /\ quarantined' = quarantined \ {t}
        /\ dirty' = IF clean THEN dirty \ {t} ELSE dirty \cup {t}
        /\ checkpoint' = [checkpoint EXCEPT ![t] =
              IF CheckpointProven(latest[t], t, s) THEN latest[t]
              ELSE IF a # None \/ ~ clean THEN None ELSE @]
        /\ active' = [active EXCEPT ![s] = None]
        /\ sessionState' = [sessionState EXCEPT ![s] = "closed"]
        /\ UNCHANGED <<claimVars, stopped, cleaned, writerVars, turnVars, outboxVars,
                       lastComplete, resourcesCleaned, podVars, stopVars, latest,
                       rootPrepared, conversationVars, worldVars>>

\* MarkSessionCleaned, after the Pod and the Secret were deleted.
MarkSessionCleaned(s) ==
    /\ sessionState[s] = "closed" /\ s \in sessionStop /\ evidence[s] # "none"
    /\ s \notin resourcesCleaned
    /\ resourcesCleaned' = resourcesCleaned \cup {s}
    /\ UNCHANGED <<claimVars, authorityVars, writerVars, turnVars, outboxVars, sessionState,
                   active, lastComplete, podVars, stopVars, storageVars, conversationVars,
                   worldVars>>

\* reconcileStop for a claim that was never reserved: stopCheckoutWrites,
\* no-worker evidence and CloseStopped.
CloseStopped(a) ==
    /\ workerSession[a] = None /\ a \in stopped /\ state[a] # "closed"
    /\ checkoutClosed' = checkoutClosed \cup {a}
    /\ state' = [state EXCEPT ![a] = "closed"]
    /\ UNCHANGED <<claimVars, revoked, stopped, complete, cleaned, prep, prepBy, needsFlush,
                   checkoutBy, turnVars, outboxVars, sessionVars, podVars, stopVars,
                   storageVars, conversationVars, worldVars>>

MarkCleaned(a) ==
    /\ workerSession[a] = None /\ a \in stopped /\ state[a] = "closed" /\ a \notin cleaned
    /\ cleaned' = cleaned \cup {a}
    /\ UNCHANGED <<claimVars, state, revoked, stopped, complete, writerVars, turnVars,
                   outboxVars, sessionVars, podVars, stopVars, storageVars,
                   conversationVars, worldVars>>

SessionStopNext ==
    \/ \E s \in Attempts :
          \/ RequestSessionStop(s) \/ QuarantineSession(s)
          \/ RecordSessionControllerFlush(s) \/ RecordSessionStopReceipt(s)
          \/ ObserveSessionStop(s) \/ CloseSession(s) \/ MarkSessionCleaned(s)
    \/ \E a \in Attempts : RequestStop(a) \/ CloseStopped(a) \/ MarkCleaned(a)
=============================================================================
