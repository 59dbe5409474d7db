----------------------------- MODULE Validation -----------------------------
(***************************************************************************)
(* What Store.write demands of every registry before it is published, and  *)
(* what Open demands of the journal it finds (validate.go,                 *)
(* session_validate.go): a transaction whose result fails one of these     *)
(* checks is refused as a whole, and a controller whose journal fails one  *)
(* does not start.  Digests, signatures, identifiers and sizes are left    *)
(* out; every check that relates two records is kept.                      *)
(***************************************************************************)
EXTENDS Outbox

Exists(a) == state[a] # "unknown"

\* ObserveSessionStop copies the evidence to the grant of the active turn.
StopEvidence(a) ==
    LET s == workerSession[a]
    IN  IF s # None /\ stopActive[s] = a THEN evidence[s] ELSE "none"

\* validateRegistry: what holds of every grant.
GrantAuthorityValid(a) ==
    LET s == workerSession[a] IN
    /\ a \in cleaned => state[a] = "closed"
    /\ a \in startConfirmed =>
          /\ s \in podBound /\ s \in supervisorKey
          /\ state[a] \notin {"intent", "assigned", "ready", "offered", "starting"}
    /\ checkoutBy[a] # 0 => a \in needsFlush /\ state[a] # "closed"
    /\ a \in needsFlush => prep[a] = "prepared"
    /\ a \in stopped => a \in revoked
    /\ StopEvidence(a) # "none" => checkoutBy[a] = 0 /\ PreparationSettled(a)

\* validatePendingSessionGrant, and the closure of a claim without a root.
PendingGrantValid(a) ==
    /\ state[a] \in {"waiting_storage", "unexecuted", "closed"}
    /\ a \notin accepted \cup execReceipt \cup witness \cup complete
    /\ state[a] = "unexecuted" => source[a] = "controller"
    /\ state[a] = "closed" /\ a \notin stopped =>
          source[a] = "controller" /\ a \in cleaned /\ DeliverySettled(a)

\* validateSessionGrant: the switch on the state of a reserved turn.
TurnStateValid(a, s, t) ==
    CASE state[a] = "intent" -> TRUE
      [] state[a] \in {"assigned", "ready", "offered", "starting", "started",
                       "terminal_received"} ->
            /\ s \in podBound /\ s \in supervisorKey /\ prep[a] = "prepared"
            /\ state[a] = "terminal_received" => source[a] # "none"
      [] state[a] = "quarantined" ->
            t \in quarantined /\ sessionState[s] \in {"quarantined", "draining"}
      [] state[a] = "closed" -> a \in complete
      [] OTHER -> FALSE

\* validateSessionGrant: a reserved turn, its session and its root.
SessionGrantValid(a, s, t) ==
    /\ SessionExists(s) /\ t # None /\ latest[t] # None /\ storageOf[s] = t
    /\ ConversationOf[TaskOf[a]] = ConversationOf[t]
    /\ selection[a] # None /\ a \notin cleaned
    /\ a \in execReceipt =>
          source[a] = "worker" /\ CheckoutFenced(a) /\ prep[a] \in {"stopped", "prepared"}
    /\ a \in witness => delivery[a] = "delivered" /\ a \in resultReceipt
    /\ IF a \in complete
       THEN /\ state[a] = "closed" /\ a \in revoked
            /\ \/ a \in execReceipt /\ a \in witness
               \/ sessionState[s] = "closed" /\ evidence[s] # "none"
       ELSE active[s] = a /\ rootActive[t] = a /\ writer[t] = s
    /\ TurnStateValid(a, s, t)

GrantValid(a) ==
    /\ GrantAuthorityValid(a)
    /\ IF workerSession[a] = None THEN PendingGrantValid(a)
       ELSE SessionGrantValid(a, workerSession[a], storageOf[a])

\* validateConversationStorage: the checkpoint of a root.
CheckpointValid(t) ==
    LET a == checkpoint[t]
        s == workerSession[a]
    IN  /\ storageOf[a] = t /\ a \in complete /\ a \in witness /\ a \in eligible
        /\ CheckpointOutcome(a)
        /\ s # None /\ sessionState[s] = "closed"
        /\ SessionStoppedClean(s) /\ EvidenceHolds(s)
        /\ rootActive[t] = None /\ t \notin dirty => a = latest[t]

StorageValid(t) ==
    /\ storageOf[latest[t]] = t /\ ConversationOf[TaskOf[latest[t]]] = ConversationOf[t]
    /\ IF writer[t] # None
       THEN /\ storageOf[writer[t]] = t /\ SessionExists(writer[t])
            /\ sessionState[writer[t]] # "closed"
            /\ active[writer[t]] = rootActive[t]
       ELSE rootActive[t] = None
    /\ checkpoint[t] # None => CheckpointValid(t)

\* validateRegistry: the outbox record of a grant.
TerminalValid(a) ==
    LET s == workerSession[a] IN
    /\ state[a] \in {"terminal_received", "quarantined", "unexecuted", "closed"}
    /\ recovery[a] # "none" =>
          /\ source[a] = "worker" /\ delivery[a] = "received" /\ a \notin resultReceipt
          /\ a \in stopped /\ StopEvidence(a) = "terminated" /\ a \in checkoutClosed
    /\ source[a] = "worker" =>
          /\ s \in podBound /\ s \in supervisorKey
          /\ delivery[a] # "received" => a \in resultReceipt
    /\ source[a] = "controller" =>
          /\ kind[a] = "fail" /\ a \notin resultReceipt
          /\ state[a] # "terminal_received"
          /\ state[a] = "closed" /\ s # None =>
                \/ a \in stopped /\ StopEvidence(a) # "none"
                \/ PreparationSettled(a) /\ s \notin podBound \cup podRequested
    /\ a \in resultReceipt => AuthenticResult(a)

\* validateConversations: the switch on the state of a session.
SessionStateValid(s, t) ==
    CASE sessionState[s] \in {"creating", "reserved", "running", "finishing"} ->
            active[s] # None /\ s \notin sessionStop
      [] sessionState[s] = "idle" ->
            /\ active[s] = None /\ s \notin sessionStop /\ lastComplete[s] # None
            /\ t \in dirty /\ t \notin quarantined /\ checkpoint[t] = None
      [] sessionState[s] \in {"draining", "quarantined"} -> s \in sessionStop
      [] OTHER -> /\ active[s] = None /\ s \in sessionStop /\ evidence[s] # "none"
                  /\ writer[t] # s

\* validateConversations: the stop record of a session.
StopRecordValid(s) ==
    /\ s \in writersStopped => SessionWritersFenced(s)
    /\ stopReceipt[s] = "clean" => s \in writersStopped
    /\ evidence[s] # "none" => EvidenceHolds(s)
    /\ stopActive[s] # None => workerSession[stopActive[s]] = s

\* validateConversations: a session, its root and its turns.
SessionValid(s) ==
    LET t == storageOf[s] IN
    /\ t # None /\ latest[t] # None /\ ConversationOf[t] = ConversationOf[TaskOf[s]]
    /\ s \in supervisorKey => s \in podBound
    /\ active[s] # None =>
          /\ workerSession[active[s]] = s /\ active[s] \notin complete
          /\ rootActive[t] = active[s]
    /\ lastComplete[s] # None =>
          /\ workerSession[lastComplete[s]] = s
          /\ lastComplete[s] \in complete \cap execReceipt \cap witness
    /\ SessionStateValid(s, t)
    /\ s \in resourcesCleaned => sessionState[s] = "closed"
    /\ sessionState[s] # "closed" => writer[t] = s
    /\ \A r \in Residents :
          s \in Residents /\ ConversationOf[TaskOf[r]] = ConversationOf[TaskOf[s]] => r = s
    /\ s \in sessionStop => StopRecordValid(s)

\* validateConversations: the heads of a conversation.
ConversationValid(c) ==
    currentSession[c] # None =>
        /\ currentStorage[c] # None /\ SessionExists(currentSession[c])
        /\ ConversationOf[currentStorage[c]] = c
        /\ storageOf[currentSession[c]] = currentStorage[c]

\* Store.write never refuses the result of a transaction whose own guards
\* passed, and Open never refuses a journal this controller wrote: in every
\* order of transactions, restarts and outside events, every record of the
\* registry agrees with every other one as validate demands.  A refusal would
\* repeat on every retry and leave the session, its root and its slot stuck.
RegistryValid ==
    /\ \A a \in Attempts : Exists(a) => GrantValid(a)
    /\ \A t \in Tasks : latest[t] # None => StorageValid(t)
    /\ \A a \in Attempts : source[a] # "none" => TerminalValid(a)
    /\ \A s \in Attempts : SessionExists(s) => SessionValid(s)
    /\ \A c \in Conversations : ConversationValid(c)
=============================================================================
