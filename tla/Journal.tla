------------------------------ MODULE Journal ------------------------------
(***************************************************************************)
(* The durable registry of the runtime controller (workspace.Store): task  *)
(* grants, the result outbox, worker sessions, task storage, conversation  *)
(* heads, and the part of the outside world that the registry must agree   *)
(* with (Pods, controller-side writer processes, the Multica backend).     *)
(*                                                                         *)
(* Every Store method is one transaction under the journal lock, written   *)
(* to disk before it returns, so each of them is one action.  A record is  *)
(* kept as one variable per field; a Boolean field is the set of the       *)
(* records for which it is true.                                           *)
(*                                                                         *)
(* Names.  An attempt is named by itself.  A worker session is named by    *)
(* the attempt whose reservation created it, and a storage root by its     *)
(* anchor task: unusedTaskStorage and TaskRoot admit at most one root for  *)
(* a task.                                                                 *)
(***************************************************************************)
EXTENDS Integers, FiniteSets

CONSTANTS
    Attempts,          \* task grants the controller may take on
    Tasks,             \* backend tasks; a task names the root it anchors
    Conversations,
    TaskOf,            \* the task of an attempt
    ConversationOf,    \* the conversation of a task
    None,              \* absent identity (the empty string in the journal)
    Fresh,             \* SelectionFreshWorkspace: no root is reused
    ResidentLimit,     \* MaxResidentPods, or Capacity
    MaxPendingResults, \* bound on unsettled terminal results
    MaxTasks,          \* bound on storage roots
    MaxRestarts,       \* model bound: controller restarts
    Faulty,            \* model bound: attempts the environment disturbs
    CheckoutAttempts,  \* model bound: attempts that ask for a checkout
    ResultKinds        \* model bound: kinds a provider result may have

ASSUME AttemptsAssumption ==
    /\ None \notin Attempts
    /\ TaskOf \in [Attempts -> Tasks]
    /\ ConversationOf \in [Tasks -> Conversations]
    /\ Faulty \subseteq Attempts
    /\ CheckoutAttempts \subseteq Attempts

ASSUME TasksAssumption ==
    /\ None \notin Tasks /\ Fresh \notin Tasks /\ Fresh # None

ASSUME BoundsAssumption ==
    /\ ResidentLimit \in Nat \ {0}
    /\ MaxPendingResults \in Nat \ {0}
    /\ MaxTasks \in Nat \ {0}
    /\ MaxRestarts \in Nat
    /\ ResultKinds \subseteq {"complete", "fail"}

VARIABLES
    \* TaskGrant: claim, selection and reservation
    workerSession,   \* WorkerSessionID
    storageOf,       \* StorageID
    selection,       \* Selection: the selected root, Fresh, or None
    fence,           \* Selection.LatestWriter
    eligible,        \* {a : Selection.WorkspaceReuseEligible}
    \* TaskGrant: authority
    state,           \* State; "unknown" before the claim is queued
    revoked,         \* {a : ExecutionRevoked}
    stopped,         \* {a : Stop # nil}
    complete,        \* {a : TurnComplete}
    cleaned,         \* {a : CleanupComplete}
    \* TaskGrant: controller-side writers
    prep,            \* PreparationStarted / PreparationStopped / Prepared
    prepBy,          \* PreparationProcess: controller incarnation, 0 if none
    checkoutClosed,  \* {a : CheckoutClosed}
    needsFlush,      \* {a : CheckoutNeedsFlush}
    checkoutBy,      \* CheckoutProcess: controller incarnation, 0 if none
    \* TaskGrant: progress of the turn in the worker
    accepted,        \* {a : TurnAccepted}
    startConfirmed,  \* {a : StartConfirmed}
    execReceipt,     \* {a : TurnExecutionReceipt # nil}
    witness,         \* {a : CompletionWitness # nil}
    \* Terminal: the outbox record of an attempt
    source,          \* Source; "none" if there is no record
    kind,            \* Kind
    delivery,        \* State
    resultReceipt,   \* {a : ResultReceipt # nil}
    recovery,        \* RecoveryFailure.State; "none" if nil
    \* WorkerSession
    sessionState,    \* State; "unknown" before it is created
    active,          \* ActiveAttempt
    lastComplete,    \* LastCompleteAttempt
    resourcesCleaned,\* {s : ResourcesCleaned}
    podRequested,    \* {s : Resources.PodCreateRequested}
    podBound,        \* {s : PodUID # ""}
    supervisorKey,   \* {s : SupervisorKey # nil}
    \* WorkerSession.Stop
    sessionStop,     \* {s : Stop # nil}
    stopActive,      \* Stop.ActiveAttempt
    writersStopped,  \* {s : Stop.ControllerWritersStopped}
    stopReceipt,     \* Stop.Receipt: "clean" is WritersStopped and FlushOK
    evidence,        \* Stop.Evidence.Kind
    preparedFlush,   \* {s : Stop.Evidence.PreparedFlushOK}
    \* Storage; a root exists once it had a writer
    rootActive,      \* ActiveAttempt
    writer,          \* WriterSessionID
    latest,          \* LatestWriter
    dirty,           \* {t : Dirty}
    quarantined,     \* {t : Quarantined}
    rootPrepared,    \* {t : Prepared # nil}
    checkpoint,      \* Checkpoint.Source
    \* Conversation
    currentStorage,  \* CurrentStorageID
    currentSession,  \* CurrentSessionID
    \* The world
    pod,             \* the Pod of a session, as Kubernetes has it
    seal,            \* how the supervisor of a session ended its writers
    prepWriter,      \* attempts whose preparation helper is running
    checkoutWriter,  \* attempts whose checkout writes task files
    unsynced,        \* roots with controller writes that no syncfs covers
    backend,         \* the backend's task
    ambiguous,       \* attempts with a request of unknown fate in flight
    incarnation,     \* the controller container that is running
    gone             \* controller containers Kubernetes proves terminated

claimVars == <<workerSession, storageOf, selection, fence, eligible>>
authorityVars == <<state, revoked, stopped, complete, cleaned>>
writerVars == <<prep, prepBy, checkoutClosed, needsFlush, checkoutBy>>
turnVars == <<accepted, startConfirmed, execReceipt, witness>>
outboxVars == <<source, kind, delivery, resultReceipt, recovery>>
sessionVars == <<sessionState, active, lastComplete, resourcesCleaned>>
podVars == <<podRequested, podBound, supervisorKey>>
stopVars == <<sessionStop, stopActive, writersStopped, stopReceipt, evidence,
              preparedFlush>>
storageVars == <<rootActive, writer, latest, dirty, quarantined, rootPrepared,
                 checkpoint>>
conversationVars == <<currentStorage, currentSession>>
processVars == <<prepWriter, checkoutWriter, unsynced>>
clusterVars == <<pod, seal, incarnation, gone>>
backendVars == <<backend, ambiguous>>
journalVars == <<claimVars, authorityVars, writerVars, turnVars, outboxVars,
                 sessionVars, podVars, stopVars, storageVars, conversationVars>>
worldVars == <<processVars, clusterVars, backendVars>>
vars == <<journalVars, worldVars>>

GrantStates == {"unknown", "waiting_storage", "intent", "assigned", "ready",
                "offered", "starting", "started", "terminal_received",
                "quarantined", "unexecuted", "closed"}
SessionStates == {"unknown", "creating", "reserved", "running", "finishing",
                  "idle", "draining", "quarantined", "closed"}
DeliveryStates == {"none", "received", "forwarding", "delivered", "rejected",
                   "uncertain"}
Incarnations == 0 .. MaxRestarts + 1

-----------------------------------------------------------------------------
(* Types, by part of the registry.                                         *)

GrantTypeOK ==
    /\ workerSession \in [Attempts -> Attempts \cup {None}]
    /\ storageOf \in [Attempts -> Tasks \cup {None}]
    /\ selection \in [Attempts -> Tasks \cup {None, Fresh}]
    /\ fence \in [Attempts -> Attempts \cup {None}]
    /\ state \in [Attempts -> GrantStates]
    /\ prep \in [Attempts -> {"none", "running", "stopped", "prepared"}]
    /\ prepBy \in [Attempts -> Incarnations]
    /\ checkoutBy \in [Attempts -> Incarnations]
    /\ eligible \subseteq Attempts /\ revoked \subseteq Attempts
    /\ stopped \subseteq Attempts /\ complete \subseteq Attempts
    /\ cleaned \subseteq Attempts /\ checkoutClosed \subseteq Attempts
    /\ needsFlush \subseteq Attempts /\ accepted \subseteq Attempts
    /\ startConfirmed \subseteq Attempts /\ execReceipt \subseteq Attempts
    /\ witness \subseteq Attempts

OutboxTypeOK ==
    /\ source \in [Attempts -> {"none", "worker", "controller"}]
    /\ kind \in [Attempts -> {"none", "complete", "fail", "cancel-ack"}]
    /\ delivery \in [Attempts -> DeliveryStates]
    /\ recovery \in [Attempts -> DeliveryStates]
    /\ resultReceipt \subseteq Attempts

SessionTypeOK ==
    /\ sessionState \in [Attempts -> SessionStates]
    /\ active \in [Attempts -> Attempts \cup {None}]
    /\ lastComplete \in [Attempts -> Attempts \cup {None}]
    /\ stopActive \in [Attempts -> Attempts \cup {None}]
    /\ stopReceipt \in [Attempts -> {"none", "clean", "unclean"}]
    /\ evidence \in [Attempts -> {"none", "terminated", "never-started", "no-worker"}]
    /\ resourcesCleaned \subseteq Attempts /\ podRequested \subseteq Attempts
    /\ podBound \subseteq Attempts /\ supervisorKey \subseteq Attempts
    /\ sessionStop \subseteq Attempts /\ writersStopped \subseteq Attempts
    /\ preparedFlush \subseteq Attempts

StorageTypeOK ==
    /\ rootActive \in [Tasks -> Attempts \cup {None}]
    /\ writer \in [Tasks -> Attempts \cup {None}]
    /\ latest \in [Tasks -> Attempts \cup {None}]
    /\ checkpoint \in [Tasks -> Attempts \cup {None}]
    /\ dirty \subseteq Tasks /\ quarantined \subseteq Tasks
    /\ rootPrepared \subseteq Tasks
    /\ currentStorage \in [Conversations -> Tasks \cup {None}]
    /\ currentSession \in [Conversations -> Attempts \cup {None}]

WorldTypeOK ==
    /\ pod \in [Attempts -> {"none", "created", "running", "terminated",
                             "neverStarted", "lost"}]
    /\ seal \in [Attempts -> {"none", "clean", "unclean"}]
    /\ backend \in [Attempts -> {"dispatched", "running", "result", "failure", "cancelled"}]
    /\ prepWriter \subseteq Attempts /\ checkoutWriter \subseteq Attempts
    /\ unsynced \subseteq Tasks /\ ambiguous \subseteq Attempts
    /\ incarnation \in Incarnations \ {0}
    /\ gone \subseteq Incarnations

\* Every field of the registry and of the modelled world keeps its range.
TypeOK == GrantTypeOK /\ OutboxTypeOK /\ SessionTypeOK /\ StorageTypeOK /\ WorldTypeOK

-----------------------------------------------------------------------------
(* Predicates shared by the transactions.                                  *)

SessionExists(s) == sessionState[s] # "unknown"

\* currentSessionTurn: the attempt is the turn its session is running.
CurrentSessionTurn(a) ==
    /\ workerSession[a] # None
    /\ active[workerSession[a]] = a
    /\ storageOf[workerSession[a]] = storageOf[a]
    /\ a \notin complete

DeliverySettled(a) ==
    IF recovery[a] # "none" THEN recovery[a] \in {"delivered", "rejected"}
                            ELSE delivery[a] \in {"none", "delivered", "rejected"}

\* checkPendingBudget, by number of results.
PendingBudget ==
    Cardinality({a \in Attempts : ~ DeliverySettled(a)}) < MaxPendingResults

\* attemptSettled, with legacyWriterReleased for a grant without a session.
AttemptSettled(a) ==
    /\ DeliverySettled(a)
    /\ \/ workerSession[a] # None /\ a \in complete
       \/ workerSession[a] = None /\ state[a] = "closed" /\ a \in cleaned

\* Mutant: the helper of a replaced container is taken to have ended.
PreparationForgotten(a) == prep[a] # "running" \/ prepBy[a] # incarnation

\* The controller-side writers of an attempt are recorded as ended.
PreparationSettled(a) == prep[a] # "running"
CheckoutFenced(a) ==
    a \in checkoutClosed /\ a \notin needsFlush /\ checkoutBy[a] = 0
TurnWritersFenced(a) == CheckoutFenced(a) /\ PreparationSettled(a)

\* The turn that a stop, or the running session, answers for.
StopTurn(s) == IF active[s] # None THEN active[s] ELSE stopActive[s]

SessionWritersFenced(s) == StopTurn(s) # None => TurnWritersFenced(StopTurn(s))

ValidSessionStopEvidence(s, e, flush) ==
    /\ StopTurn(s) # None =>
          /\ checkoutBy[StopTurn(s)] = 0 /\ PreparationSettled(StopTurn(s))
          /\ flush => prep[StopTurn(s)] = "prepared"
    /\ \/ e = "terminated" /\ s \in podBound /\ ~ flush
       \/ e = "never-started" /\ s \in podBound /\ s \notin supervisorKey
       \/ e = "no-worker" /\ s \notin podBound /\ s \notin supervisorKey
                          /\ s \notin podRequested

EvidenceHolds(s) ==
    evidence[s] # "none" /\ ValidSessionStopEvidence(s, evidence[s], s \in preparedFlush)

\* Mutant: a worker that terminated is clean without its own account.
StoppedCleanWithoutReceipt(s) ==
    /\ s \in sessionStop /\ evidence[s] # "none"
    /\ stopReceipt[s] # "unclean"

SessionStoppedClean(s) ==
    /\ s \in sessionStop /\ evidence[s] # "none"
    /\ IF stopReceipt[s] # "none"
       THEN stopReceipt[s] = "clean" /\ s \in writersStopped /\ SessionWritersFenced(s)
       ELSE /\ evidence[s] \in {"no-worker", "never-started"}
            /\ active[s] # None => \/ prep[active[s]] = "none"
                                   \/ prep[active[s]] = "prepared" /\ s \in preparedFlush

CheckpointOutcome(a) == kind[a] \in {"complete", "fail", "cancel-ack"}

\* selectedWitness: the attempt may be the source of a reused root.
SelectedWitness(a, t) ==
    /\ a # None /\ storageOf[a] = t /\ a \in witness /\ a \in complete
    /\ a \in eligible /\ CheckpointOutcome(a) /\ AttemptSettled(a)

\* warmStorageSession: the one idle session that still holds the root.
WarmSession(t) ==
    LET s == writer[t]
        g == lastComplete[s]
        c == ConversationOf[t]
    IN  /\ s # None
        /\ sessionState[s] = "idle" /\ s \notin sessionStop /\ active[s] = None
        /\ rootActive[t] = None /\ t \in dirty /\ t \notin quarantined
        /\ t \in rootPrepared /\ checkpoint[t] = None /\ storageOf[s] = t
        /\ s \in podBound /\ s \in supervisorKey
        /\ currentStorage[c] = t /\ currentSession[c] = s
        /\ g # None /\ latest[t] = g /\ workerSession[g] = s /\ storageOf[g] = t
        /\ g \in eligible /\ g \in complete /\ g \in execReceipt /\ g \in witness
        /\ CheckpointOutcome(g) /\ delivery[g] = "delivered" /\ recovery[g] = "none"
        /\ AttemptSettled(g) /\ CheckoutFenced(g)
        /\ prep[g] \in {"stopped", "prepared"}

\* A session is resident until it is closed and its resources are gone.
Resident(s) ==
    SessionExists(s) /\ ~ (sessionState[s] = "closed" /\ s \in resourcesCleaned)
Residents == {s \in Attempts : Resident(s)}

-----------------------------------------------------------------------------
(* requestSessionStop: the part every stop of a session shares.            *)

DrainingState(s) ==
    IF sessionState[s] \in {"closed", "quarantined"} THEN sessionState[s] ELSE "draining"

\* The stop record is written once and keeps the turn that was active then.
RecordStop(s, turn) ==
    /\ sessionStop' = sessionStop \cup {s}
    /\ stopActive' = IF s \in sessionStop THEN stopActive
                     ELSE [stopActive EXCEPT ![s] = turn]
    /\ UNCHANGED <<writersStopped, stopReceipt, evidence, preparedFlush>>

\* Mutant: only the worker's authority is revoked, the grant keeps no stop.
RevokeWithoutStop(turn) ==
    revoked' = revoked \cup ({turn} \ {None}) /\ UNCHANGED stopped

\* The active turn loses its execution authority with the session.
RevokeTurn(turn) ==
    /\ revoked' = revoked \cup ({turn} \ {None})
    /\ stopped' = stopped \cup ({turn} \ {None})

-----------------------------------------------------------------------------
Init ==
    /\ workerSession = [a \in Attempts |-> None]
    /\ storageOf = [a \in Attempts |-> None]
    /\ selection = [a \in Attempts |-> None]
    /\ fence = [a \in Attempts |-> None]
    /\ state = [a \in Attempts |-> "unknown"]
    /\ prep = [a \in Attempts |-> "none"]
    /\ prepBy = [a \in Attempts |-> 0]
    /\ checkoutBy = [a \in Attempts |-> 0]
    /\ source = [a \in Attempts |-> "none"]
    /\ kind = [a \in Attempts |-> "none"]
    /\ delivery = [a \in Attempts |-> "none"]
    /\ recovery = [a \in Attempts |-> "none"]
    /\ sessionState = [s \in Attempts |-> "unknown"]
    /\ active = [s \in Attempts |-> None]
    /\ lastComplete = [s \in Attempts |-> None]
    /\ stopActive = [s \in Attempts |-> None]
    /\ stopReceipt = [s \in Attempts |-> "none"]
    /\ evidence = [s \in Attempts |-> "none"]
    /\ rootActive = [t \in Tasks |-> None]
    /\ writer = [t \in Tasks |-> None]
    /\ latest = [t \in Tasks |-> None]
    /\ checkpoint = [t \in Tasks |-> None]
    /\ currentStorage = [c \in Conversations |-> None]
    /\ currentSession = [c \in Conversations |-> None]
    /\ pod = [s \in Attempts |-> "none"]
    /\ seal = [s \in Attempts |-> "none"]
    /\ backend = [a \in Attempts |-> "dispatched"]
    /\ incarnation = 1
    /\ eligible = {} /\ revoked = {} /\ stopped = {} /\ complete = {}
    /\ cleaned = {} /\ checkoutClosed = {} /\ needsFlush = {} /\ accepted = {}
    /\ startConfirmed = {} /\ execReceipt = {} /\ witness = {}
    /\ resultReceipt = {} /\ resourcesCleaned = {} /\ podRequested = {}
    /\ podBound = {} /\ supervisorKey = {} /\ sessionStop = {}
    /\ writersStopped = {} /\ preparedFlush = {} /\ dirty = {}
    /\ quarantined = {} /\ rootPrepared = {} /\ prepWriter = {}
    /\ checkoutWriter = {} /\ unsynced = {} /\ ambiguous = {} /\ gone = {}
=============================================================================
