--------------------------- MODULE WorkerSessions ---------------------------
(***************************************************************************)
(* The controller's turns and worker sessions as a whole: reservations,    *)
(* turn control, the outbox and session stops as transactions of one       *)
(* journal, interleaved with the cluster and the backend.                  *)
(***************************************************************************)
EXTENDS Reservation, SessionStop, Cluster, Validation

Next ==
    \/ ReservationNext
    \/ TurnControlNext
    \/ OutboxNext
    \/ SessionStopNext
    \/ ClusterNext

Spec == Init /\ [][Next]_vars

-----------------------------------------------------------------------------
(* Fairness: what keeps going once a session is told to stop.              *)

\* Every pass of the reconcile loop over a stopped session takes the next
\* step it can take (reconcileSessionStop and the calls it makes).
ReconcileSessionStop(s) ==
    /\ s \in sessionStop
    /\ \/ BindSessionPod(s) \/ RecordSessionControllerFlush(s) \/ ObserveSessionStop(s)
       \/ CloseSession(s) \/ MarkSessionCleaned(s)
       \/ \E a \in Attempts : workerSession[a] = s /\
             \/ CloseCheckouts(a) \/ CompleteCheckout(a)
             \/ CompletePreparation(a, FALSE) \/ InterruptPreparation(a)
             \/ RecordRecoveryFailure(a)
             \/ evidence[s] # "none" /\ ReceiveFailure(a)

\* Kubernetes answers the create request that every pass repeats, and ends
\* the Pod that the pass deletes once the controller's writers ended.
DeleteSessionPod(s) ==
    /\ s \in sessionStop
    /\ \/ PodCommits(s)
       \/ /\ s \in podBound /\ ControllerWritersEnded(s)
          /\ PodNeverStarts(s) \/ PodTerminates(s)

\* Helpers run under a deadline and are killed when it passes; Kubernetes
\* ends a replaced controller container with everything it started.
Fairness ==
    /\ \A s \in Attempts : /\ WF_vars(ReconcileSessionStop(s))
                           /\ WF_vars(DeleteSessionPod(s))
                           /\ WF_vars(WriterExits(s))
    /\ WF_vars(\E i \in Incarnations : ContainerTerminates(i))

FairSpec == Spec /\ Fairness

\* The Pod of a session exists, or may exist, with a container that writes.
MayWrite(s) == pod[s] \in {"created", "running", "lost"}
ControllerWriters == prepWriter \cup checkoutWriter
Closed(s) == sessionState[s] = "closed"

-----------------------------------------------------------------------------
(* Safety                                                                  *)

\* Lease and session agree: a session that is not closed holds the lease of
\* its root and runs the turn the root names, the root is dirty meanwhile,
\* and nothing else holds a lease (ReserveTurn, CompleteTurn, CloseSession).
LeaseAgreement ==
    /\ \A s \in Attempts : SessionExists(s) /\ ~ Closed(s) =>
          /\ storageOf[s] # None
          /\ writer[storageOf[s]] = s /\ rootActive[storageOf[s]] = active[s]
          /\ storageOf[s] \in dirty
    /\ \A t \in Tasks :
          /\ writer[t] # None => /\ SessionExists(writer[t]) /\ ~ Closed(writer[t])
                                 /\ storageOf[writer[t]] = t
          /\ writer[t] = None => rootActive[t] = None

\* Two processes never write one root for different sessions: neither two
\* Pods, nor a Pod and a helper of the controller, also while a Pod creation
\* is unresolved, a Pod is lost or the controller was replaced.
ExclusiveWriter ==
    /\ \A s, r \in Attempts :
          MayWrite(s) /\ MayWrite(r) /\ s # r => storageOf[s] # storageOf[r]
    /\ \A a \in ControllerWriters, s \in Attempts :
          MayWrite(s) /\ storageOf[a] = storageOf[s] => workerSession[a] = s
    /\ \A a, b \in ControllerWriters :
          storageOf[a] = storageOf[b] => workerSession[a] = workerSession[b]

\* CloseSession never precedes the end of what the session started: its Pod
\* ended or can no longer appear, and its controller helpers exited.
ClosedMeansEnded ==
    \A s \in Attempts : Closed(s) =>
        /\ pod[s] \in {"terminated", "neverStarted"} \/ (pod[s] = "none" /\ s \notin podRequested)
        /\ \A a \in ControllerWriters : workerSession[a] # s

\* A root recorded clean is physically clean: every controller write is
\* covered by a syncfs, no process writes it, and the last session on it
\* flushed its writes or never ran.
CleanRootIsDurable ==
    \A t \in Tasks : latest[t] # None /\ t \notin dirty =>
        /\ t \notin unsynced
        /\ \A a \in ControllerWriters : storageOf[a] # t
        /\ \A s \in Attempts : storageOf[s] = t => ~ MayWrite(s)
        /\ LET s == workerSession[latest[t]]
           IN  pod[s] = "terminated" => seal[s] = "clean"

\* A published checkpoint of a clean root names the root's last writer, whose
\* result the backend accepted.
CheckpointIsAccepted ==
    \A t \in Tasks : checkpoint[t] # None /\ t \notin dirty =>
        /\ checkpoint[t] = latest[t]
        /\ backend[checkpoint[t]] = "result" /\ checkpoint[t] \in eligible

\* Neither the journal nor the cluster holds more workers than there are
\* resident slots (admitResident).
ResidentBound ==
    /\ Cardinality(Residents) <= ResidentLimit
    /\ Cardinality({s \in Attempts : MayWrite(s)}) <= ResidentLimit

\* Stop intents of a session and of its turn agree, so neither side can go on
\* alone (requestSessionStop, RequestStop, InterruptPreparation).
StopAgreement ==
    \A s \in Attempts : SessionExists(s) =>
        /\ s \in sessionStop /\ active[s] # None =>
              stopActive[s] = active[s] /\ active[s] \in stopped \cap revoked
        /\ active[s] \in stopped => s \in sessionStop
        /\ sessionState[s] \in {"draining", "quarantined", "closed"} <=> s \in sessionStop

\* An idle session is usable: if its last turn may be continued at all, the
\* warm-owner proof of warmStorageSession holds for it.
IdleIsWarm ==
    \A s \in Attempts : sessionState[s] = "idle" /\ lastComplete[s] \in eligible =>
        WarmSession(storageOf[s])

\* A turn is never closed without an outcome, and a result that was received
\* but not authenticated is replaced only by a recovery failure.
NoLostOutcome ==
    \A a \in Attempts : workerSession[a] # None /\ state[a] = "closed" =>
        /\ source[a] # "none"
        /\ source[a] = "worker" /\ recovery[a] = "none" =>
              a \in resultReceipt

\* What the outbox calls delivered is what the backend holds.
DeliveredIsAccepted ==
    \A a \in Attempts :
        /\ a \in witness => backend[a] = "result"
        /\ source[a] = "controller" /\ delivery[a] = "delivered" => backend[a] = "failure"
        /\ recovery[a] = "delivered" => backend[a] = "failure"

\* An authenticated result is never replaced: the kind and source of an
\* outcome are final, a receipt excludes the recovery failure, and a settled
\* delivery stays as it is.
OutcomeFinal ==
    [][\A a \in Attempts :
         /\ source[a] # "none" => source'[a] = source[a] /\ kind'[a] = kind[a]
         /\ a \in resultReceipt => a \in resultReceipt' /\ recovery'[a] = "none"
         /\ delivery[a] \in {"delivered", "rejected"} => delivery'[a] = delivery[a]
         /\ recovery[a] \in {"delivered", "rejected"} => recovery'[a] = recovery[a]
      ]_vars

\* A stop is final: a stopped session takes no turn, its turn gains no
\* further start authority, and the stop record keeps the turn it fenced.
StopIsFinal ==
    [][\A s \in sessionStop :
         /\ s \in sessionStop' /\ active'[s] \in {active[s], None}
         /\ stopActive'[s] = stopActive[s]
         /\ sessionState'[s] \in {"draining", "quarantined", "closed"}
         /\ active[s] # None =>
              \/ state'[active[s]] = state[active[s]]
              \/ state'[active[s]] \in {"terminal_received", "quarantined", "closed"}
      ]_vars

-----------------------------------------------------------------------------
(* The promise: what becomes of the outcome of an attempt.                 *)

\* The outcome the outbox holds: a recovery failure replaces a result.
OutcomeOf(a) ==
    IF recovery[a] # "none" \/ source[a] = "controller" THEN "failure"
    ELSE IF source[a] = "none" THEN "none"
    ELSE IF kind[a] = "cancel-ack" THEN "cancelled"
    ELSE "result"

\* A failure needs no receipt; a native result does.
Proven == {a \in Attempts : a \in resultReceipt \/ OutcomeOf(a) = "failure"}

\* The task as the backend holds it; dispatched and running tasks are open.
RowOf(a) == IF backend[a] \in {"result", "failure", "cancelled"} THEN backend[a] ELSE "open"

\* What the outbox recorded of the outcome it holds.
VerdictOf(a) ==
    LET d == IF recovery[a] = "none" THEN delivery[a] ELSE recovery[a]
    IN  IF d \in {"delivered", "rejected"} THEN d ELSE "open"

Promise == INSTANCE OutcomeDelivery WITH
    outcome <- [a \in Attempts |-> OutcomeOf(a)],
    proven  <- Proven,
    row     <- [a \in Attempts |-> RowOf(a)],
    verdict <- [a \in Attempts |-> VerdictOf(a)]

\* Every order of results, receipts, failures, recoveries, requests, lost
\* answers, cancellations and restarts keeps the promise of OutcomeDelivery:
\* the backend never takes an outcome that is not proven, and no task is
\* reported delivered that ended another way (outbox.go, turn_delivery.go).
OutcomesDelivered == Promise!Spec

-----------------------------------------------------------------------------
(* Liveness                                                                *)

\* A session that was told to stop is closed and its resident slot is free
\* again, unless Kubernetes lost its Pod: no order of results, failures,
\* restarts and Pod events leaves reconcileSessionStop waiting forever.
StoppedSessionReleased ==
    \A s \in Attempts :
        s \in sessionStop ~> (~ Resident(s) \/ pod[s] = "lost")
=============================================================================
