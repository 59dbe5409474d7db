--------------------------- MODULE SessionProofs ----------------------------
(***************************************************************************)
(* The worker sessions of the registry, for any number of attempts, tasks  *)
(* and conversations, any bounds and restarts: their types, the lease of a *)
(* root, the stop of a session and of its turn, the outcome of a turn,     *)
(* what the outbox calls delivered and the promise it implements; then who *)
(* may write a root, what a root that is recorded clean proves, and that   *)
(* every registry the transactions publish is valid.                       *)
(***************************************************************************)
EXTENDS WorkerSessions, FiniteSetTheorems, TLAPS

\* Identities once bound stay bound: a reserved grant has a root and a
\* session, a session is named by the grant that created it, only reserved
\* grants are prepared or have a worker's result, a waiting claim is not
\* reserved, only sessions are stopped.
Bindings ==
    /\ \A a \in Attempts : workerSession[a] # None =>
          storageOf[a] # None /\ SessionExists(workerSession[a])
    /\ \A s \in Attempts : SessionExists(s) => workerSession[s] = s
    /\ \A a \in Attempts : prep[a] # "none" \/ source[a] = "worker" => workerSession[a] # None
    /\ \A a \in Attempts : state[a] \in {"unknown", "waiting_storage"} => workerSession[a] = None
    /\ \A s \in sessionStop : SessionExists(s)

TypeInv == TypeOK /\ Bindings

USE DEF claimVars, authorityVars, writerVars, turnVars, outboxVars, sessionVars,
        podVars, stopVars, storageVars, conversationVars, processVars, clusterVars,
        backendVars, journalVars, worldVars, vars

\* The identities and incarnations that the constants provide.
LEMMA Identities ==
    /\ None \notin Attempts /\ None \notin Tasks /\ Fresh \notin Tasks
    /\ \A a \in Attempts : TaskOf[a] \in Tasks /\ ConversationOf[TaskOf[a]] \in Conversations
    /\ 0 \in Incarnations /\ 1 \in Incarnations
    /\ ResultKinds \subseteq {"complete", "fail"}
BY AttemptsAssumption, TasksAssumption, BoundsAssumption DEF Incarnations

\* The initial registry is well typed and binds nothing.
LEMMA TypeInit == Init => TypeInv
BY Identities, TasksAssumption, BoundsAssumption
DEF Init, TypeInv, TypeOK, GrantTypeOK, OutboxTypeOK, SessionTypeOK, StorageTypeOK,
    WorldTypeOK, Bindings, SessionExists, GrantStates, SessionStates, DeliveryStates,
    Incarnations

\* Claims, selections and reservations keep types and bindings.
LEMMA ReservationType == TypeInv /\ ReservationNext => TypeInv'
<1> USE Identities DEF TypeInv, TypeOK, GrantTypeOK, OutboxTypeOK, SessionTypeOK,
        StorageTypeOK, WorldTypeOK, Bindings, SessionExists, GrantStates, SessionStates,
        DeliveryStates
<1>1. ASSUME TypeInv, NEW a \in Attempts, QueueClaim(a) PROVE TypeInv'
      BY <1>1 DEF QueueClaim
<1>2. ASSUME TypeInv, NEW a \in Attempts, NEW choice \in Tasks \cup {Fresh}, NEW reuse \in BOOLEAN, RecordSelection(a, choice, reuse)
      PROVE  TypeInv'
      BY <1>2 DEF RecordSelection
<1>3. ASSUME TypeInv, NEW a \in Attempts, ReserveWarm(a) PROVE TypeInv'
      BY <1>3 DEF ReserveWarm, Reservable, SelectedWarm, WarmSession, Reserve, TakeRoot
<1>4. ASSUME TypeInv, NEW a \in Attempts, NEW t \in Tasks, ReserveNew(a, t)
      PROVE  TypeInv'
      BY <1>4 DEF ReserveNew, Reservable, Reserve, TakeRoot
<1>5. ASSUME TypeInv, NEW a \in Attempts, DrainCurrent(a) PROVE TypeInv'
      BY <1>5 DEF DrainCurrent, DrainIdle, RecordStop, RevokeTurn
<1>6. ASSUME TypeInv, NEW a \in Attempts, NEW s \in Attempts, DrainForCapacity(a, s)
      PROVE  TypeInv'
      BY <1>6 DEF DrainForCapacity, DrainIdle, RecordStop, RevokeTurn
<1>7. ASSUME TypeInv, NEW s \in Attempts, ExpireSession(s) PROVE TypeInv'
      BY <1>7 DEF ExpireSession, DrainIdle, RecordStop, RevokeTurn
<1> HIDE DEF TypeInv
<1> QED BY <1>1, <1>2, <1>3, <1>4, <1>5, <1>6, <1>7 DEF ReservationNext

\* Preparation, Pods, assignment and checkouts keep types and bindings.
LEMMA TurnControlType == TypeInv /\ TurnControlNext => TypeInv'
<1> USE Identities DEF TypeInv, TypeOK, GrantTypeOK, OutboxTypeOK, SessionTypeOK,
        StorageTypeOK, WorldTypeOK, Bindings, SessionExists, GrantStates, SessionStates,
        DeliveryStates
<1>1. ASSUME TypeInv, NEW a \in Attempts, BeginPreparation(a) PROVE TypeInv'
      BY <1>1 DEF BeginPreparation, StartWriter, CurrentSessionTurn
<1>2. ASSUME TypeInv, NEW a \in Attempts, CheckpointPreparation(a)
      PROVE  TypeInv'
      BY <1>2 DEF CheckpointPreparation
<1>3. ASSUME TypeInv, NEW a \in Attempts, NEW prepared \in BOOLEAN, CompletePreparation(a, prepared)
      PROVE  TypeInv'
      BY <1>3 DEF CompletePreparation
<1>4. ASSUME TypeInv, NEW a \in Attempts, InterruptPreparation(a) PROVE TypeInv'
      BY <1>4 DEF InterruptPreparation, DrainingState, RecordStop, RevokeTurn
<1>5. ASSUME TypeInv, NEW a \in Attempts, PublishTurn(a) PROVE TypeInv'
      BY <1>5 DEF PublishTurn, GrantStep, CurrentSessionTurn
<1>6. ASSUME TypeInv, NEW a \in Attempts, AcceptTurn(a) PROVE TypeInv'
      BY <1>6 DEF AcceptTurn
<1>7. ASSUME TypeInv, NEW a \in Attempts, Admit(a) PROVE TypeInv'
      BY <1>7 DEF Admit, GrantStep
<1>8. ASSUME TypeInv, NEW a \in Attempts, Offer(a) PROVE TypeInv'
      BY <1>8 DEF Offer, GrantStep
<1>9. ASSUME TypeInv, NEW a \in Attempts, BeginStart(a) PROVE TypeInv'
      BY <1>9 DEF BeginStart, GrantStep
<1>10. ASSUME TypeInv, NEW a \in Attempts, MarkStarted(a) PROVE TypeInv'
      BY <1>10 DEF MarkStarted, GrantStep, CurrentSessionTurn
<1>11. ASSUME TypeInv, NEW a \in Attempts, BeginCheckout(a) PROVE TypeInv'
      BY <1>11 DEF BeginCheckout, StartWriter
<1>12. ASSUME TypeInv, NEW a \in Attempts, CompleteCheckout(a) PROVE TypeInv'
      BY <1>12 DEF CompleteCheckout
<1>13. ASSUME TypeInv, NEW a \in Attempts, CloseCheckouts(a) PROVE TypeInv'
      BY <1>13 DEF CloseCheckouts
<1>14. ASSUME TypeInv, NEW a \in Attempts, CheckoutsFlushed(a) PROVE TypeInv'
      BY <1>14 DEF CheckoutsFlushed, SyncTaskFilesystem
<1>15. ASSUME TypeInv, NEW s \in Attempts, SetSessionResources(s) PROVE TypeInv'
      BY <1>15 DEF SetSessionResources
<1>16. ASSUME TypeInv, NEW s \in Attempts, BindSessionPod(s) PROVE TypeInv'
      BY <1>16 DEF BindSessionPod
<1>17. ASSUME TypeInv, NEW s \in Attempts, AdmitSession(s) PROVE TypeInv'
      BY <1>17 DEF AdmitSession
<1> HIDE DEF TypeInv
<1> QED BY <1>1, <1>2, <1>3, <1>4, <1>5, <1>6, <1>7, <1>8, <1>9, <1>10, <1>11,
           <1>12, <1>13, <1>14, <1>15, <1>16, <1>17 DEF TurnControlNext

\* Results, failures, their delivery and turn completion keep types and bindings.
LEMMA OutboxType == TypeInv /\ OutboxNext => TypeInv'
<1> USE Identities DEF TypeInv, TypeOK, GrantTypeOK, OutboxTypeOK, SessionTypeOK,
        StorageTypeOK, WorldTypeOK, Bindings, SessionExists, GrantStates, SessionStates,
        DeliveryStates, Outcomes
<1>1. ASSUME TypeInv, NEW a \in Attempts, NEW k \in ResultKinds \cup {"cancel-ack"}, ReceiveTerminal(a, k)
      PROVE  TypeInv'
      <2>1. k \in {"complete", "fail", "cancel-ack"}
            BY <1>1
      <2>2. workerSession[a] \in Attempts
            BY <1>1 DEF ReceiveTerminal, CurrentSessionTurn
      <2> QED BY <1>1, <2>1, <2>2 DEF ReceiveTerminal
<1>2. ASSUME TypeInv, NEW a \in Attempts, RecordResultReceipt(a) PROVE TypeInv'
      BY <1>2 DEF RecordResultReceipt, OutboxStep
<1>3. ASSUME TypeInv, NEW a \in Attempts, RecordTurnExecutionReceipt(a)
      PROVE  TypeInv'
      BY <1>3 DEF RecordTurnExecutionReceipt, WorkerHeard
<1>4. ASSUME TypeInv, NEW a \in Attempts, ReceiveFailure(a) PROVE TypeInv'
      <2>1. CASE LeaveUnexecuted(a)
            BY <1>4, <2>1 DEF ReceiveFailure, RecordFailure, LeaveUnexecuted
      <2>2. CASE QuarantineTurn(a, workerSession[a])
            <3>1. workerSession[a] \in Attempts /\ SessionExists(workerSession[a])
                  BY <1>4, <2>2 DEF QuarantineTurn
            <3> QED BY <1>4, <2>2, <3>1 DEF ReceiveFailure, RecordFailure, QuarantineTurn,
                       DrainingState, RecordStop, RevokeTurn
      <2> QED BY <1>4, <2>1, <2>2 DEF ReceiveFailure
<1>5. ASSUME TypeInv, NEW a \in Attempts, RecordRecoveryFailure(a)
      PROVE  TypeInv'
      BY <1>5 DEF RecordRecoveryFailure
<1>6. ASSUME TypeInv, NEW a \in Attempts, BeginForward(a) PROVE TypeInv'
      BY <1>6 DEF BeginForward, SetDelivery, OutboxStep
<1>7. ASSUME TypeInv, NEW a \in Attempts, RejectTerminal(a) PROVE TypeInv'
      BY <1>7 DEF RejectTerminal, SetDelivery, OutboxStep
<1>8. ASSUME TypeInv, NEW a \in Attempts, NEW outcome \in Outcomes, FinishForward(a, outcome)
      PROVE  TypeInv'
      BY <1>8 DEF FinishForward, SetDelivery, AmbiguousAfter, OutboxStep
<1>9. ASSUME TypeInv, NEW a \in Attempts, NEW outcome \in Outcomes, FinishRecoveryForward(a, outcome)
      PROVE  TypeInv'
      BY <1>9 DEF FinishRecoveryForward, SetRecovery, AmbiguousAfter, OutboxStep
<1>10. ASSUME TypeInv, NEW a \in Attempts, RecordCompletionWitness(a)
      PROVE  TypeInv'
      BY <1>10 DEF RecordCompletionWitness
<1>11. ASSUME TypeInv, NEW a \in Attempts, BeginFailureForward(a) PROVE TypeInv'
      BY <1>11 DEF BeginFailureForward, SetDelivery, OutboxStep
<1>12. ASSUME TypeInv, NEW a \in Attempts, RejectFailure(a) PROVE TypeInv'
      BY <1>12 DEF RejectFailure, SetDelivery, OutboxStep
<1>13. ASSUME TypeInv, NEW a \in Attempts, BeginRecoveryForward(a)
      PROVE  TypeInv'
      BY <1>13 DEF BeginRecoveryForward, SetRecovery, OutboxStep
<1>14. ASSUME TypeInv, NEW a \in Attempts, RejectRecoveryFailure(a)
      PROVE  TypeInv'
      BY <1>14 DEF RejectRecoveryFailure, SetRecovery, OutboxStep
<1>15. ASSUME TypeInv, NEW a \in Attempts, NEW keep \in BOOLEAN, CompleteTurn(a, keep)
      PROVE  TypeInv'
      <2>1. SettleTurn(a, workerSession[a], storageOf[a])
            BY <1>15 DEF CompleteTurn
      <2>2. workerSession[a] \in Attempts /\ SessionExists(workerSession[a])
            BY <1>15, <2>1 DEF SettleTurn
      <2>3. CASE RetainSession(a, workerSession[a])
            BY <1>15, <2>1, <2>2, <2>3 DEF SettleTurn, EndTurn, KeepRoot, RetainSession
      <2>4. CASE ReleaseSession(workerSession[a])
            BY <1>15, <2>1, <2>2, <2>4
            DEF SettleTurn, EndTurn, KeepRoot, ReleaseSession, DrainingState, RecordStop
      <2> QED BY <1>15, <2>3, <2>4 DEF CompleteTurn
<1>16. ASSUME TypeInv, NEW a \in Attempts, RecoverClosedCheckpoint(a)
      PROVE  TypeInv'
      BY <1>16 DEF RecoverClosedCheckpoint
<1> HIDE DEF TypeInv
<1> QED BY <1>1, <1>2, <1>3, <1>4, <1>5, <1>6, <1>7, <1>8, <1>9, <1>10, <1>11,
           <1>12, <1>13, <1>14, <1>15, <1>16 DEF OutboxNext

\* Session stops and releases keep types and bindings.
LEMMA SessionStopType == TypeInv /\ SessionStopNext => TypeInv'
<1> USE Identities DEF TypeInv, TypeOK, GrantTypeOK, OutboxTypeOK, SessionTypeOK,
        StorageTypeOK, WorldTypeOK, Bindings, SessionExists, GrantStates, SessionStates,
        DeliveryStates
<1>1. ASSUME TypeInv, NEW s \in Attempts, RequestSessionStop(s) PROVE TypeInv'
      BY <1>1 DEF RequestSessionStop, StopSession, DrainingState, RecordStop, RevokeTurn
<1>2. ASSUME TypeInv, NEW s \in Attempts, QuarantineSession(s) PROVE TypeInv'
      BY <1>2 DEF QuarantineSession, DrainingState, RecordStop, RevokeTurn
<1>3. ASSUME TypeInv, NEW s \in Attempts, RecordSessionControllerFlush(s)
      PROVE  TypeInv'
      BY <1>3 DEF RecordSessionControllerFlush, SyncTaskFilesystem
<1>4. ASSUME TypeInv, NEW s \in Attempts, RecordSessionStopReceipt(s)
      PROVE  TypeInv'
      BY <1>4 DEF RecordSessionStopReceipt
<1>5. ASSUME TypeInv, NEW s \in Attempts, ObserveSessionStop(s) PROVE TypeInv'
      BY <1>5 DEF ObserveSessionStop, ObservedEnd
<1>6. ASSUME TypeInv, NEW s \in Attempts, CloseSession(s) PROVE TypeInv'
      BY <1>6 DEF CloseSession
<1>7. ASSUME TypeInv, NEW s \in Attempts, MarkSessionCleaned(s) PROVE TypeInv'
      BY <1>7 DEF MarkSessionCleaned
<1>8. ASSUME TypeInv, NEW a \in Attempts, RequestStop(a) PROVE TypeInv'
      <2>1. CASE workerSession[a] = None
            BY <1>8, <2>1 DEF RequestStop, RevokeTurn
      <2>2. CASE workerSession[a] # None
            <3>1. workerSession[a] \in Attempts /\ SessionExists(workerSession[a])
                  BY <1>8, <2>2
            <3>2. /\ sessionState' = [sessionState EXCEPT ![workerSession[a]] =
                                        DrainingState(workerSession[a])]
                  /\ RecordStop(workerSession[a], active[workerSession[a]]) /\ RevokeTurn(a)
                  /\ UNCHANGED <<claimVars, state, complete, cleaned, writerVars, turnVars,
                        outboxVars, active, lastComplete, resourcesCleaned, podVars,
                        storageVars, conversationVars, worldVars>>
                  BY <1>8, <2>2 DEF RequestStop
            <3>3. /\ DrainingState(workerSession[a]) \in SessionStates \ {"unknown"}
                  /\ active[workerSession[a]] \in Attempts \cup {None}
                  BY <1>8, <3>1 DEF DrainingState
            <3> QED BY <1>8, <3>1, <3>2, <3>3 DEF RecordStop, RevokeTurn
      <2> QED BY <2>1, <2>2
<1>9. ASSUME TypeInv, NEW a \in Attempts, CloseStopped(a) PROVE TypeInv'
      BY <1>9 DEF CloseStopped
<1>10. ASSUME TypeInv, NEW a \in Attempts, MarkCleaned(a) PROVE TypeInv'
      BY <1>10 DEF MarkCleaned
<1> HIDE DEF TypeInv
<1> QED BY <1>1, <1>2, <1>3, <1>4, <1>5, <1>6, <1>7, <1>8, <1>9, <1>10 DEF
           SessionStopNext

\* The cluster, the backend and restarts keep types and bindings.
LEMMA ClusterType == TypeInv /\ ClusterNext => TypeInv'
<1> USE Identities DEF TypeInv, TypeOK, GrantTypeOK, OutboxTypeOK, SessionTypeOK,
        StorageTypeOK, WorldTypeOK, Bindings, SessionExists, GrantStates, SessionStates,
        DeliveryStates
<1>1. ASSUME TypeInv, NEW s \in Attempts, PodCommits(s) PROVE TypeInv'
      BY <1>1 DEF PodCommits, SetPod
<1>2. ASSUME TypeInv, NEW s \in Attempts, PodRuns(s) PROVE TypeInv'
      BY <1>2 DEF PodRuns, SetPod
<1>3. ASSUME TypeInv, NEW s \in Attempts, PodNeverStarts(s) PROVE TypeInv'
      BY <1>3 DEF PodNeverStarts, SetPod
<1>4. ASSUME TypeInv, NEW s \in Attempts, PodTerminates(s) PROVE TypeInv'
      BY <1>4 DEF PodTerminates, SetPod
<1>5. ASSUME TypeInv, NEW s \in Attempts, PodLost(s) PROVE TypeInv'
      BY <1>5 DEF PodLost, SetPod
<1>6. ASSUME TypeInv, NEW s \in Attempts, NEW outcome \in {"clean", "unclean"}, Seal(s, outcome)
      PROVE  TypeInv'
      BY <1>6 DEF Seal
<1>7. ASSUME TypeInv, NEW a \in Attempts, WriterExits(a) PROVE TypeInv'
      BY <1>7 DEF WriterExits
<1>8. ASSUME TypeInv, NEW a \in Attempts, NEW b \in {"running", "result", "failure", "cancelled"},
             SetBackend(a, b)
      PROVE  TypeInv'
      BY <1>8 DEF SetBackend
<1>9. ASSUME NEW a \in Attempts, BackendStarts(a) \/ BackendCommits(a) \/ BackendEnds(a)
      PROVE  \E b \in {"running", "result", "failure", "cancelled"} : SetBackend(a, b)
      BY <1>9 DEF BackendStarts, BackendCommits, BackendEnds
<1>10. ASSUME TypeInv, Restart PROVE TypeInv'
      BY <1>10, BoundsAssumption DEF Restart, Incarnations
<1>11. ASSUME TypeInv, NEW i \in Incarnations, ContainerTerminates(i)
      PROVE  TypeInv'
      BY <1>11 DEF ContainerTerminates
<1> HIDE DEF TypeInv
<1>12. ASSUME TypeInv, NEW a \in Attempts, BackendStarts(a) \/ BackendCommits(a) \/ BackendEnds(a)
       PROVE  TypeInv'
       BY <1>8, <1>9, <1>12
<1> QED BY <1>1, <1>2, <1>3, <1>4, <1>5, <1>6, <1>7, <1>10, <1>11, <1>12
           DEF ClusterNext

\* Types and bindings together are inductive: every transaction, from
\* QueueClaim to MarkSessionCleaned, keeps them.
THEOREM TypeInvariant == Spec => []TypeInv
<1>1. TypeInv /\ UNCHANGED vars => TypeInv'
      BY DEF TypeInv, TypeOK, GrantTypeOK, OutboxTypeOK, SessionTypeOK, StorageTypeOK,
             WorldTypeOK, Bindings, SessionExists
<1>2. TypeInv /\ Next => TypeInv'
      BY ReservationType, TurnControlType, OutboxType, SessionStopType, ClusterType DEF Next
<1> QED BY TypeInit, <1>1, <1>2, PTL DEF Spec

\* Every field of the registry keeps its range in every behaviour: no
\* transaction writes an absent identity where a record is required.
THEOREM TypeCorrect == Spec => []TypeOK
BY TypeInvariant, PTL DEF TypeInv

-----------------------------------------------------------------------------
(***************************************************************************)
(* The writer lease of a root and the stop of a session, for any number of *)
(* attempts, tasks and conversations: session, turn and root name each     *)
(* other, and a stop of one is a stop of all of them.                      *)
(***************************************************************************)

\* Whose turn a session runs: the turn of a session belongs to it, a grant
\* that is not closed is the turn of its session, a closed session has no
\* turn, and a stopped grant has lost its authority.
TurnOwnership ==
    /\ \A s \in Attempts : Closed(s) => active[s] = None
    /\ \A s \in Attempts : active[s] # None =>
          workerSession[active[s]] = s /\ SessionExists(s)
    /\ \A a \in Attempts : workerSession[a] # None /\ state[a] # "closed" =>
          active[workerSession[a]] = a
    /\ stopped \subseteq revoked

LeaseInv == TurnOwnership /\ LeaseAgreement /\ StopAgreement

leaseVars == <<workerSession, storageOf, state, revoked, stopped, active, sessionState,
               sessionStop, stopActive, rootActive, writer, dirty>>

\* Nothing is leased and nothing is stopped at first.
LEMMA LeaseInit == Init => LeaseInv
BY Identities DEF Init, LeaseInv, TurnOwnership, LeaseAgreement, StopAgreement, Closed,
                  SessionExists

\* A transaction that touches none of these fields keeps the agreement.
LEMMA LeaseFrame == LeaseInv /\ UNCHANGED leaseVars => LeaseInv'
BY DEF leaseVars, LeaseInv, TurnOwnership, LeaseAgreement, StopAgreement, Closed, SessionExists

\* requestSessionStop keeps the agreement, whoever calls it.
LEMMA StopStep ==
    ASSUME TypeInv, LeaseInv, NEW s \in Attempts, SessionExists(s),
           NEW st \in {"draining", "quarantined", "closed"}, st = "closed" <=> Closed(s),
           sessionState' = [sessionState EXCEPT ![s] = st],
           RecordStop(s, active[s]), RevokeTurn(active[s]),
           UNCHANGED <<workerSession, storageOf, active, writer, rootActive, dirty>>,
           \A a \in Attempts : state[a] = "closed" => state'[a] = "closed"
    PROVE  LeaseInv'
<1> USE Identities DEF TypeInv, TypeOK, GrantTypeOK, SessionTypeOK, StorageTypeOK, Bindings,
        LeaseInv, SessionExists, Closed, RecordStop, RevokeTurn
<1>1. TurnOwnership'
      BY DEF TurnOwnership
<1>2. LeaseAgreement'
      BY DEF LeaseAgreement
<1>3. StopAgreement'
      BY DEF StopAgreement, TurnOwnership
<1> QED BY <1>1, <1>2, <1>3

\* A grant that moves on within its turn, with the session's state, keeps it.
LEMMA TurnStep ==
    ASSUME TypeInv, LeaseInv, NEW a \in Attempts, workerSession[a] # None,
           active[workerSession[a]] = a,
           NEW st \in {"reserved", "running", "finishing"},
           \/ sessionState' = sessionState
           \/ /\ workerSession[a] \notin sessionStop
              /\ sessionState' = [sessionState EXCEPT ![workerSession[a]] = st],
           revoked \subseteq revoked',
           UNCHANGED <<workerSession, storageOf, stopped, active, sessionStop, stopActive,
                       rootActive, writer, dirty>>,
           \A b \in Attempts : state[b] = "closed" => state'[b] = "closed"
    PROVE  LeaseInv'
<1> USE Identities DEF TypeInv, TypeOK, GrantTypeOK, SessionTypeOK, StorageTypeOK, Bindings,
        LeaseInv, SessionExists, Closed
<1>1. workerSession[a] \in Attempts /\ ~ Closed(workerSession[a]) /\ SessionExists(workerSession[a])
      BY DEF TurnOwnership
<1>2. TurnOwnership'
      BY <1>1 DEF TurnOwnership
<1>3. LeaseAgreement'
      BY <1>1 DEF LeaseAgreement
<1>4. StopAgreement'
      BY <1>1 DEF StopAgreement, TurnOwnership
<1> QED BY <1>2, <1>3, <1>4

\* A new turn takes a free root for a session without a turn and a stop.
LEMMA ReserveStep ==
    ASSUME TypeInv, LeaseInv, NEW a \in Attempts, NEW s \in Attempts, NEW t \in Tasks,
           workerSession[a] = None, a \notin revoked,
           Reserve(a, s, t), rootActive[t] = None,
           NEW st \in {"creating", "reserved"}, sessionState' = [sessionState EXCEPT ![s] = st],
           \/ s = a /\ writer[t] = None
           \/ /\ s = writer[t] /\ storageOf[s] = t /\ active[s] = None
              /\ s \notin sessionStop /\ SessionExists(s)
    PROVE  LeaseInv'
<1> USE Identities DEF TypeInv, TypeOK, GrantTypeOK, SessionTypeOK, StorageTypeOK, Bindings,
        LeaseInv, SessionExists, Closed
<1> USE DEF Reserve, TakeRoot
<1>1. \A r \in Attempts : SessionExists(r) => r # a
      OBVIOUS
<1>2. a \notin sessionStop /\ active[a] = None
      BY DEF TurnOwnership
<1>3. s \notin sessionStop /\ active[s] = None
      BY <1>2
<1>4. TurnOwnership'
      BY <1>1, <1>2, <1>3 DEF TurnOwnership
<1>5. LeaseAgreement'
      <2>1. \A r \in Attempts : SessionExists(r)' /\ ~ Closed(r)' =>
               /\ storageOf'[r] # None
               /\ writer'[storageOf'[r]] = r /\ rootActive'[storageOf'[r]] = active'[r]
               /\ storageOf'[r] \in dirty'
            BY <1>1, <1>2, <1>3 DEF LeaseAgreement
      <2>2. \A u \in Tasks : writer'[u] # None =>
               /\ sessionState'[writer'[u]] \notin {"unknown", "closed"}
               /\ storageOf'[writer'[u]] = u
            <3> SUFFICES ASSUME NEW u \in Tasks, writer'[u] # None
                         PROVE  /\ sessionState'[writer'[u]] \notin {"unknown", "closed"}
                                /\ storageOf'[writer'[u]] = u
                OBVIOUS
            <3>1. CASE u = t
                  BY <3>1
            <3>2. CASE u # t
                  <4>1. /\ writer'[u] = writer[u] /\ writer[u] \in Attempts
                        /\ SessionExists(writer[u]) /\ ~ Closed(writer[u])
                        /\ storageOf[writer[u]] = u
                        BY <3>2 DEF LeaseAgreement
                  <4>2. writer[u] # s /\ writer[u] # a
                        BY <1>1, <3>2, <4>1
                  <4> QED BY <4>1, <4>2
            <3> QED BY <3>1, <3>2
      <2>3. \A u \in Tasks : writer'[u] = None => rootActive'[u] = None
            BY DEF LeaseAgreement
      <2> QED BY <2>1, <2>2, <2>3 DEF LeaseAgreement
<1>6. StopAgreement'
      <2>1. a \notin stopped
            BY DEF TurnOwnership
      <2>2. \A r \in Attempts \ {s} : active'[r] = active[r] /\ sessionState'[r] = sessionState[r]
            OBVIOUS
      <2>3. /\ active'[s] = a /\ sessionState'[s] = st
            /\ UNCHANGED <<sessionStop, stopActive, stopped, revoked>>
            OBVIOUS
      <2> QED BY <1>3, <2>1, <2>2, <2>3 DEF StopAgreement
<1> QED BY <1>4, <1>5, <1>6

\* CompleteTurn: root, grant and session let go of the turn together.
LEMMA CompleteStep ==
    ASSUME TypeInv, LeaseInv, NEW a \in Attempts, NEW keep \in BOOLEAN, CompleteTurn(a, keep)
    PROVE  LeaseInv'
<1> USE Identities DEF TypeInv, TypeOK, GrantTypeOK, SessionTypeOK, StorageTypeOK, Bindings,
        LeaseInv, SessionExists, Closed
<1> DEFINE s == workerSession[a]
           t == storageOf[a]
<1>1. SettleTurn(a, s, t)
      BY DEF CompleteTurn
<1>2. /\ s \in Attempts /\ t \in Tasks /\ SessionExists(s) /\ ~ Closed(s) /\ storageOf[s] = t
      /\ active[s] = a /\ writer[t] = s
      BY <1>1 DEF SettleTurn, LeaseAgreement, TurnOwnership
<1>3. /\ rootActive' = [rootActive EXCEPT ![t] = None]
      /\ dirty' = dirty \cup {t}
      /\ active' = [active EXCEPT ![s] = None]
      /\ state' = [state EXCEPT ![a] = "closed"]
      /\ revoked \subseteq revoked'
      /\ UNCHANGED <<workerSession, storageOf, stopped, writer>>
      BY <1>1 DEF SettleTurn, EndTurn, KeepRoot
<1>4. PICK st \in {"idle", "draining", "quarantined"} :
         /\ sessionState' = [sessionState EXCEPT ![s] = st]
         /\ st = "idle" <=> s \notin sessionStop'
         /\ sessionStop' \in {sessionStop, sessionStop \cup {s}}
         /\ \A r \in Attempts \ {s} : stopActive'[r] = stopActive[r]
      <2>1. CASE RetainSession(a, s)
            BY <2>1 DEF RetainSession
      <2>2. CASE ReleaseSession(s)
            <3>1. DrainingState(s) \in {"draining", "quarantined"}
                  BY <1>2 DEF DrainingState
            <3>2. /\ sessionStop' = sessionStop \cup {s}
                  /\ \A r \in Attempts \ {s} : stopActive'[r] = stopActive[r]
                  BY <2>2 DEF ReleaseSession, RecordStop
            <3> QED BY <1>2, <2>2, <3>1, <3>2 DEF ReleaseSession
      <2> QED BY <2>1, <2>2 DEF CompleteTurn
<1>5. TurnOwnership'
      BY <1>2, <1>3, <1>4 DEF TurnOwnership
<1>6. LeaseAgreement'
      BY <1>2, <1>3, <1>4 DEF LeaseAgreement
<1>7. StopAgreement'
      BY <1>2, <1>3, <1>4 DEF StopAgreement
<1> QED BY <1>5, <1>6, <1>7

\* CloseSession: the lease, the turn and the session end together.
LEMMA CloseStep ==
    ASSUME TypeInv, LeaseInv, NEW s \in Attempts, CloseSession(s)
    PROVE  LeaseInv'
<1> USE Identities DEF TypeInv, TypeOK, GrantTypeOK, SessionTypeOK, StorageTypeOK, Bindings,
        LeaseInv, SessionExists, Closed
<1> DEFINE t == storageOf[s]
<1>1. /\ s \in sessionStop /\ SessionExists(s) /\ ~ Closed(s) /\ t \in Tasks
      /\ writer[t] = s /\ rootActive[t] = active[s]
      BY DEF CloseSession, LeaseAgreement
<1>2. /\ sessionState' = [sessionState EXCEPT ![s] = "closed"]
      /\ active' = [active EXCEPT ![s] = None]
      /\ writer' = [writer EXCEPT ![t] = None]
      /\ rootActive'[t] = None
      /\ \A u \in Tasks \ {t} : rootActive'[u] = rootActive[u]
      /\ dirty \ {t} \subseteq dirty'
      /\ state' = [b \in Attempts |-> IF b \in {active[s]} \ {None} THEN "closed" ELSE state[b]]
      /\ revoked \subseteq revoked'
      /\ UNCHANGED <<workerSession, storageOf, stopped, sessionStop, stopActive>>
      BY <1>1 DEF CloseSession
<1>3. TurnOwnership'
      BY <1>1, <1>2 DEF TurnOwnership
<1>4. LeaseAgreement'
      BY <1>1, <1>2 DEF LeaseAgreement
<1>5. StopAgreement'
      BY <1>1, <1>2 DEF StopAgreement
<1> QED BY <1>3, <1>4, <1>5

\* Claims and reservations.
LEMMA ReservationLease == TypeInv /\ LeaseInv /\ ReservationNext => LeaseInv'
<1> SUFFICES ASSUME TypeInv, LeaseInv, ReservationNext PROVE LeaseInv'
    OBVIOUS
<1>1. ASSUME NEW a \in Attempts, QueueClaim(a) PROVE LeaseInv'
      BY <1>1 DEF QueueClaim, TypeInv, TypeOK, GrantTypeOK, LeaseInv, TurnOwnership,
                  LeaseAgreement, StopAgreement, Closed, SessionExists
<1>2. ASSUME NEW a \in Attempts, NEW choice \in Tasks \cup {Fresh}, NEW reuse \in BOOLEAN,
             RecordSelection(a, choice, reuse)
      PROVE  LeaseInv'
      BY <1>2, LeaseFrame DEF RecordSelection, leaseVars
<1>3. ASSUME NEW a \in Attempts, ReserveWarm(a) PROVE LeaseInv'
      <2>1. selection[a] \in Tasks /\ writer[selection[a]] \in Attempts
            BY <1>3, Identities DEF ReserveWarm, SelectedWarm, TypeInv, TypeOK, StorageTypeOK
      <2>2. /\ storageOf[writer[selection[a]]] = selection[a]
            /\ SessionExists(writer[selection[a]])
            BY <2>1, Identities DEF LeaseInv, LeaseAgreement
      <2>3. workerSession[a] = None /\ a \notin revoked /\ rootActive[selection[a]] = None
            BY <1>3 DEF ReserveWarm, Reservable, SelectedWarm
      <2>4. active[writer[selection[a]]] = None /\ writer[selection[a]] \notin sessionStop
            BY <1>3 DEF ReserveWarm, SelectedWarm, WarmSession
      <2>5. /\ Reserve(a, writer[selection[a]], selection[a])
            /\ sessionState' = [sessionState EXCEPT ![writer[selection[a]]] = "reserved"]
            BY <1>3 DEF ReserveWarm
      <2> QED BY <2>1, <2>2, <2>3, <2>4, <2>5, ReserveStep
<1>4. ASSUME NEW a \in Attempts, NEW t \in Tasks, ReserveNew(a, t) PROVE LeaseInv'
      <2>1. /\ workerSession[a] = None /\ a \notin revoked
            /\ rootActive[t] = None /\ writer[t] = None
            /\ Reserve(a, a, t) /\ sessionState' = [sessionState EXCEPT ![a] = "creating"]
            BY <1>4 DEF ReserveNew, Reservable, ReservableRoot
      <2> QED BY <2>1, ReserveStep
<1>5. ASSUME NEW s \in Attempts, DrainIdle(s) PROVE LeaseInv'
      <2>1. SessionExists(s) /\ ("draining" = "closed" <=> Closed(s))
            BY <1>5 DEF DrainIdle, SessionExists, Closed
      <2> QED BY <1>5, <2>1, StopStep DEF DrainIdle
<1>6. ASSUME NEW a \in Attempts, DrainCurrent(a) PROVE LeaseInv'
      <2>1. currentSession[ConversationOf[TaskOf[a]]] \in Attempts
            BY <1>6, Identities DEF DrainCurrent, TypeInv, TypeOK, StorageTypeOK
      <2> QED BY <1>5, <1>6, <2>1 DEF DrainCurrent
<1>7. ASSUME NEW a \in Attempts, NEW s \in Attempts, DrainForCapacity(a, s) PROVE LeaseInv'
      BY <1>5, <1>7 DEF DrainForCapacity
<1>8. ASSUME NEW s \in Attempts, ExpireSession(s) PROVE LeaseInv'
      BY <1>5, <1>8 DEF ExpireSession
<1> QED BY <1>1, <1>2, <1>3, <1>4, <1>6, <1>7, <1>8 DEF ReservationNext

\* Preparation, Pods, assignment and checkouts.
LEMMA TurnControlLease == TypeInv /\ LeaseInv /\ TurnControlNext => LeaseInv'
<1> SUFFICES ASSUME TypeInv, LeaseInv, TurnControlNext PROVE LeaseInv'
    OBVIOUS
<1>1. ASSUME NEW a \in Attempts, BeginPreparation(a) PROVE LeaseInv'
      BY <1>1, LeaseFrame DEF BeginPreparation, leaseVars
<1>2. ASSUME NEW a \in Attempts, CheckpointPreparation(a) PROVE LeaseInv'
      BY <1>2, LeaseFrame DEF CheckpointPreparation, leaseVars
<1>3. ASSUME NEW a \in Attempts, NEW prepared \in BOOLEAN, CompletePreparation(a, prepared)
      PROVE  LeaseInv'
      BY <1>3, LeaseFrame DEF CompletePreparation, leaseVars
<1>4. ASSUME NEW a \in Attempts, InterruptPreparation(a) PROVE LeaseInv'
      <2> DEFINE s == workerSession[a]
      <2>1. s \in Attempts /\ SessionExists(s)
            BY <1>4, Identities DEF InterruptPreparation, TypeInv, TypeOK, GrantTypeOK, Bindings
      <2>2. /\ DrainingState(s) \in {"draining", "quarantined", "closed"}
            /\ DrainingState(s) = "closed" <=> Closed(s)
            BY DEF DrainingState, Closed
      <2> QED BY <1>4, <2>1, <2>2, StopStep DEF InterruptPreparation
<1>5. ASSUME NEW a \in Attempts, PublishTurn(a) PROVE LeaseInv'
      <2>1. \A b \in Attempts : state[b] = "closed" => state'[b] = "closed"
            BY <1>5 DEF PublishTurn, GrantStep, TypeInv, TypeOK, GrantTypeOK
      <2> QED BY <1>5, <2>1, TurnStep DEF PublishTurn, GrantStep, CurrentSessionTurn
<1>6. ASSUME NEW a \in Attempts, AcceptTurn(a) PROVE LeaseInv'
      BY <1>6, LeaseFrame DEF AcceptTurn, leaseVars
<1>7. ASSUME NEW a \in Attempts, Admit(a) \/ Offer(a) \/ BeginStart(a) PROVE LeaseInv'
      <2>1. /\ workerSession[a] # None /\ active[workerSession[a]] = a
            /\ UNCHANGED <<workerSession, storageOf, revoked, stopped, active, sessionState,
                           sessionStop, stopActive, rootActive, writer, dirty>>
            BY <1>7 DEF Admit, Offer, BeginStart, GrantStep, CurrentSessionTurn
      <2>2. \A b \in Attempts : state[b] = "closed" => state'[b] = "closed"
            BY <1>7 DEF Admit, Offer, BeginStart, GrantStep, TypeInv, TypeOK, GrantTypeOK
      <2> QED BY <2>1, <2>2, TurnStep
<1>8. ASSUME NEW a \in Attempts, MarkStarted(a) PROVE LeaseInv'
      <2>1. workerSession[a] # None /\ active[workerSession[a]] = a /\ a \notin revoked
            BY <1>8 DEF MarkStarted, GrantStep, CurrentSessionTurn
      <2>2. workerSession[a] \notin sessionStop
            BY <2>1, Identities DEF TypeInv, TypeOK, GrantTypeOK, Bindings, LeaseInv, StopAgreement
      <2>3. \A b \in Attempts : state[b] = "closed" => state'[b] = "closed"
            BY <1>8 DEF MarkStarted, GrantStep, TypeInv, TypeOK, GrantTypeOK
      <2> QED BY <1>8, <2>1, <2>2, <2>3, TurnStep DEF MarkStarted, GrantStep
<1>9. ASSUME NEW a \in Attempts, BeginCheckout(a) PROVE LeaseInv'
      BY <1>9, LeaseFrame DEF BeginCheckout, leaseVars
<1>10. ASSUME NEW a \in Attempts, CompleteCheckout(a) PROVE LeaseInv'
      BY <1>10, LeaseFrame DEF CompleteCheckout, leaseVars
<1>11. ASSUME NEW a \in Attempts, CloseCheckouts(a) PROVE LeaseInv'
      BY <1>11 DEF CloseCheckouts, LeaseInv, TurnOwnership, LeaseAgreement, StopAgreement,
                   Closed, SessionExists
<1>12. ASSUME NEW a \in Attempts, CheckoutsFlushed(a) PROVE LeaseInv'
      BY <1>12, LeaseFrame DEF CheckoutsFlushed, leaseVars
<1>13. ASSUME NEW s \in Attempts,
              SetSessionResources(s) \/ BindSessionPod(s) \/ AdmitSession(s)
       PROVE  LeaseInv'
      BY <1>13, LeaseFrame DEF SetSessionResources, BindSessionPod, AdmitSession, leaseVars
<1> QED BY <1>1, <1>2, <1>3, <1>4, <1>5, <1>6, <1>7, <1>8, <1>9, <1>10, <1>11, <1>12,
           <1>13 DEF TurnControlNext

\* Results, failures, delivery and the completion of turns.
LEMMA OutboxLease == TypeInv /\ LeaseInv /\ OutboxNext => LeaseInv'
<1> SUFFICES ASSUME TypeInv, LeaseInv, OutboxNext PROVE LeaseInv'
    OBVIOUS
<1>1. ASSUME NEW a \in Attempts, NEW k \in ResultKinds \cup {"cancel-ack"}, ReceiveTerminal(a, k)
      PROVE  LeaseInv'
      <2>1. workerSession[a] # None /\ active[workerSession[a]] = a
            BY <1>1 DEF ReceiveTerminal, CurrentSessionTurn
      <2>2. \A b \in Attempts : state[b] = "closed" => state'[b] = "closed"
            BY <1>1 DEF ReceiveTerminal, TypeInv, TypeOK, GrantTypeOK
      <2>3. \/ sessionState' = sessionState
            \/ /\ workerSession[a] \notin sessionStop
               /\ sessionState' = [sessionState EXCEPT ![workerSession[a]] = "finishing"]
            BY <1>1 DEF ReceiveTerminal
      <2>4. revoked \subseteq revoked' /\ UNCHANGED <<workerSession, storageOf, stopped, active,
                     sessionStop, stopActive, rootActive, writer, dirty>>
            BY <1>1 DEF ReceiveTerminal
      <2> QED BY <2>1, <2>2, <2>3, <2>4, TurnStep
<1>2. ASSUME NEW a \in Attempts, RecordTurnExecutionReceipt(a) PROVE LeaseInv'
      <2>1. workerSession[a] # None /\ active[workerSession[a]] = a
            BY <1>2 DEF RecordTurnExecutionReceipt, WorkerHeard
      <2>2. \/ sessionState' = sessionState
            \/ /\ workerSession[a] \notin sessionStop
               /\ sessionState' = [sessionState EXCEPT ![workerSession[a]] = "finishing"]
            BY <1>2 DEF RecordTurnExecutionReceipt
      <2>3. revoked \subseteq revoked' /\ UNCHANGED <<workerSession, storageOf, state, stopped,
                     active, sessionStop, stopActive, rootActive, writer, dirty>>
            BY <1>2 DEF RecordTurnExecutionReceipt
      <2> QED BY <2>1, <2>2, <2>3, TurnStep
<1>3. ASSUME NEW a \in Attempts, ReceiveFailure(a) PROVE LeaseInv'
      <2> DEFINE s == workerSession[a]
      <2>1. /\ RecordFailure(a)
            /\ \A b \in Attempts : state[b] = "closed" => state'[b] = "closed"
            BY <1>3 DEF ReceiveFailure, RecordFailure, QuarantineTurn, LeaveUnexecuted, TypeInv,
                        TypeOK, GrantTypeOK
      <2>2. CASE QuarantineTurn(a, s)
            <3>1. s \in Attempts /\ SessionExists(s)
                  BY <2>2, Identities DEF QuarantineTurn, TypeInv, TypeOK, GrantTypeOK, Bindings
            <3>2. /\ DrainingState(s) \in {"draining", "quarantined", "closed"}
                  /\ DrainingState(s) = "closed" <=> Closed(s)
                  BY DEF DrainingState, Closed
            <3> QED BY <2>1, <2>2, <3>1, <3>2, StopStep DEF RecordFailure, QuarantineTurn
      <2>3. CASE LeaveUnexecuted(a)
            BY <2>1, <2>3 DEF RecordFailure, LeaveUnexecuted, LeaseInv, TurnOwnership,
                              LeaseAgreement, StopAgreement, Closed, SessionExists
      <2> QED BY <1>3, <2>2, <2>3 DEF ReceiveFailure
<1>4. ASSUME NEW a \in Attempts, RecordRecoveryFailure(a) PROVE LeaseInv'
      BY <1>4 DEF RecordRecoveryFailure, LeaseInv, TurnOwnership, LeaseAgreement, StopAgreement,
                  Closed, SessionExists
<1>5. ASSUME NEW a \in Attempts, NEW outcome \in Outcomes,
             \/ RecordResultReceipt(a) \/ BeginForward(a) \/ RejectTerminal(a)
             \/ FinishForward(a, outcome) \/ FinishRecoveryForward(a, outcome)
             \/ RecordCompletionWitness(a) \/ BeginFailureForward(a) \/ RejectFailure(a)
             \/ BeginRecoveryForward(a) \/ RejectRecoveryFailure(a)
      PROVE  LeaseInv'
      <2>1. UNCHANGED leaseVars
            BY <1>5 DEF leaseVars, RecordResultReceipt, BeginForward, RejectTerminal,
               FinishForward, FinishRecoveryForward, RecordCompletionWitness,
               BeginFailureForward, RejectFailure, BeginRecoveryForward,
               RejectRecoveryFailure, OutboxStep
      <2> QED BY <2>1, LeaseFrame
<1>6. ASSUME NEW a \in Attempts, NEW keep \in BOOLEAN, CompleteTurn(a, keep) PROVE LeaseInv'
      BY <1>6, CompleteStep
<1>7. ASSUME NEW a \in Attempts, RecoverClosedCheckpoint(a) PROVE LeaseInv'
      <2>1. /\ writer[storageOf[a]] = None /\ dirty' = dirty \ {storageOf[a]}
            /\ UNCHANGED <<workerSession, storageOf, state, revoked, stopped, active,
                           sessionState, sessionStop, stopActive, rootActive, writer>>
            BY <1>7 DEF RecoverClosedCheckpoint
      <2> QED BY <2>1, Identities DEF LeaseInv, TurnOwnership, LeaseAgreement, StopAgreement,
                          Closed, SessionExists
<1>8. "received" \in Outcomes
      BY DEF Outcomes
<1> QED BY <1>1, <1>2, <1>3, <1>4, <1>5, <1>6, <1>7, <1>8 DEF OutboxNext

\* Stops and releases.
LEMMA SessionStopLease == TypeInv /\ LeaseInv /\ SessionStopNext => LeaseInv'
<1> SUFFICES ASSUME TypeInv, LeaseInv, SessionStopNext PROVE LeaseInv'
    OBVIOUS
<1>1. ASSUME NEW s \in Attempts
      PROVE  /\ DrainingState(s) \in {"draining", "quarantined", "closed"}
             /\ DrainingState(s) = "closed" <=> Closed(s)
      BY DEF DrainingState, Closed
<1>2. ASSUME NEW s \in Attempts, RequestSessionStop(s) PROVE LeaseInv'
      BY <1>1, <1>2, StopStep DEF RequestSessionStop, StopSession
<1>3. ASSUME NEW s \in Attempts, QuarantineSession(s) PROVE LeaseInv'
      <2>1. "quarantined" = "closed" <=> Closed(s)
            BY <1>3 DEF QuarantineSession, Closed
      <2> QED BY <1>3, <2>1, StopStep DEF QuarantineSession
<1>4. ASSUME NEW s \in Attempts,
             \/ RecordSessionControllerFlush(s) \/ RecordSessionStopReceipt(s)
             \/ ObserveSessionStop(s) \/ MarkSessionCleaned(s)
      PROVE  LeaseInv'
      <2>1. UNCHANGED leaseVars
            BY <1>4 DEF leaseVars, RecordSessionControllerFlush, RecordSessionStopReceipt,
               ObserveSessionStop, MarkSessionCleaned
      <2> QED BY <2>1, LeaseFrame
<1>5. ASSUME NEW s \in Attempts, CloseSession(s) PROVE LeaseInv'
      BY <1>5, CloseStep
<1>6. ASSUME NEW a \in Attempts, RequestStop(a) PROVE LeaseInv'
      <2> DEFINE s == workerSession[a]
      <2>1. CASE s # None
            <3>1. s \in Attempts /\ SessionExists(s) /\ active[s] = a
                  BY <1>6, <2>1, Identities DEF RequestStop, TypeInv, TypeOK, GrantTypeOK, Bindings,
                     LeaseInv, TurnOwnership
            <3>2. /\ sessionState' = [sessionState EXCEPT ![s] = DrainingState(s)]
                  /\ RecordStop(s, active[s]) /\ RevokeTurn(active[s])
                  /\ UNCHANGED <<workerSession, storageOf, state, active, writer, rootActive, dirty>>
                  BY <1>6, <2>1, <3>1 DEF RequestStop
            <3> QED BY <1>1, <3>1, <3>2, StopStep
      <2>2. CASE s = None
            <3>1. /\ stopped' = stopped \cup {a} /\ revoked' = revoked \cup {a}
                  /\ UNCHANGED <<workerSession, storageOf, state, active, sessionState, sessionStop,
                                 stopActive, rootActive, writer, dirty>>
                  BY <1>6, <2>2, Identities DEF RequestStop, RevokeTurn
            <3>2. \A r \in Attempts : active[r] # a
                  BY <2>2, Identities DEF LeaseInv, TurnOwnership
            <3> QED BY <3>1, <3>2 DEF LeaseInv, TurnOwnership, LeaseAgreement, StopAgreement,
                                      Closed, SessionExists
      <2> QED BY <2>1, <2>2
<1>7. ASSUME NEW a \in Attempts, CloseStopped(a) PROVE LeaseInv'
      BY <1>7 DEF CloseStopped, TypeInv, TypeOK, GrantTypeOK, LeaseInv, TurnOwnership,
                  LeaseAgreement, StopAgreement, Closed, SessionExists
<1>8. ASSUME NEW a \in Attempts, MarkCleaned(a) PROVE LeaseInv'
      BY <1>8, LeaseFrame DEF MarkCleaned, leaseVars
<1> QED BY <1>2, <1>3, <1>4, <1>5, <1>6, <1>7, <1>8 DEF SessionStopNext

\* The cluster, the backend and a restart write none of these fields.
LEMMA ClusterLease == LeaseInv /\ ClusterNext => LeaseInv'
<1>1. ClusterNext => UNCHANGED leaseVars
      BY DEF ClusterNext, leaseVars, PodCommits, PodRuns, PodNeverStarts, PodTerminates,
             PodLost, SetPod, Seal, WriterExits, BackendStarts, BackendCommits, BackendEnds,
             SetBackend, Restart, ContainerTerminates
<1> QED BY <1>1, LeaseFrame

\* The lease invariant is inductive relative to the types: ReserveTurn,
\* CompleteTurn, CloseSession and every stop keep session, turn and root in
\* agreement.
THEOREM LeaseInvariant == Spec => []LeaseInv
<1>1. LeaseInv /\ UNCHANGED vars => LeaseInv'
      BY LeaseFrame DEF leaseVars
<1>2. TypeInv /\ LeaseInv /\ Next => LeaseInv'
      BY ReservationLease, TurnControlLease, OutboxLease, SessionStopLease, ClusterLease DEF Next
<1> QED BY LeaseInit, TypeInvariant, <1>1, <1>2, PTL DEF Spec

\* Lease and session agree in every behaviour (ReserveTurn, CompleteTurn,
\* CloseSession): a live session holds the lease of its root and runs the turn
\* the root names, and nothing else holds a lease.
THEOREM LeaseSafe == Spec => []LeaseAgreement
BY LeaseInvariant, PTL DEF LeaseInv

\* The stop intents of a session and of its turn agree in every behaviour
\* (requestSessionStop and the transactions that call it).
THEOREM StopSafe == Spec => []StopAgreement
BY LeaseInvariant, PTL DEF LeaseInv

-----------------------------------------------------------------------------
(* A stop is final.  The step relation of StopIsFinal, without the session *)
(* state that StopAgreement already fixes.                                 *)

StopKept ==
    \A s \in sessionStop :
        /\ s \in sessionStop' /\ stopActive'[s] = stopActive[s]
        /\ active'[s] \in {active[s], None}
        /\ active[s] # None =>
             \/ state'[active[s]] = state[active[s]]
             \/ state'[active[s]] \in {"terminal_received", "quarantined", "closed"}

\* Stop records are only added, and nothing else about a turn changes.
LEMMA StopAdded ==
    ASSUME TypeInv, NEW s \in Attempts, NEW turn, RecordStop(s, turn), UNCHANGED <<active, state>>
    PROVE  StopKept
BY DEF StopKept, RecordStop, TypeInv, TypeOK, SessionTypeOK

\* Reservations take only sessions that are not stopped.
LEMMA ReservationStop == TypeInv /\ LeaseInv /\ ReservationNext => StopKept
<1> SUFFICES ASSUME TypeInv, LeaseInv, ReservationNext PROVE StopKept
    OBVIOUS
<1> USE Identities DEF TypeInv, TypeOK, GrantTypeOK, SessionTypeOK
<1>1. ASSUME NEW a \in Attempts, QueueClaim(a) PROVE StopKept
      <2>1. workerSession[a] = None
            BY <1>1 DEF QueueClaim, Bindings
      <2>2. \A s \in Attempts : active[s] # a
            BY <2>1 DEF LeaseInv, TurnOwnership
      <2> QED BY <1>1, <2>2 DEF QueueClaim, StopKept
<1>2. ASSUME NEW a \in Attempts, NEW choice \in Tasks \cup {Fresh}, NEW reuse \in BOOLEAN,
             RecordSelection(a, choice, reuse)
      PROVE  StopKept
      BY <1>2 DEF RecordSelection, StopKept
<1>3. ASSUME NEW a \in Attempts, NEW s \in Attempts \ sessionStop, NEW t \in Tasks,
             workerSession[a] = None, Reserve(a, s, t)
      PROVE  StopKept
      <2>1. \A r \in Attempts : active[r] # a
            BY <1>3 DEF LeaseInv, TurnOwnership
      <2> QED BY <1>3, <2>1 DEF Reserve, StopKept
<1>4. ASSUME NEW a \in Attempts, ReserveWarm(a) PROVE StopKept
      <2>1. /\ selection[a] \in Tasks /\ writer[selection[a]] \in Attempts \ sessionStop
            /\ workerSession[a] = None
            BY <1>4 DEF ReserveWarm, Reservable, SelectedWarm, WarmSession, StorageTypeOK
      <2> QED BY <1>3, <1>4, <2>1 DEF ReserveWarm
<1>5. ASSUME NEW a \in Attempts, NEW t \in Tasks, ReserveNew(a, t) PROVE StopKept
      <2>1. workerSession[a] = None /\ a \notin sessionStop
            BY <1>5 DEF ReserveNew, Reservable, Bindings
      <2> QED BY <1>3, <1>5, <2>1 DEF ReserveNew
<1>6. ASSUME NEW s \in Attempts, DrainIdle(s) PROVE StopKept
      BY <1>6, StopAdded DEF DrainIdle
<1>7. ASSUME NEW a \in Attempts, DrainCurrent(a) PROVE StopKept
      <2>1. currentSession[ConversationOf[TaskOf[a]]] \in Attempts
            BY <1>7 DEF DrainCurrent, StorageTypeOK
      <2> QED BY <1>6, <1>7, <2>1 DEF DrainCurrent
<1> HIDE DEF TypeInv
<1> QED BY <1>1, <1>2, <1>4, <1>5, <1>6, <1>7 DEF ReservationNext, DrainForCapacity, ExpireSession

\* Start authority is refused to a turn whose session is stopped.
LEMMA TurnControlStop == TypeInv /\ LeaseInv /\ TurnControlNext => StopKept
<1> SUFFICES ASSUME TypeInv, LeaseInv, TurnControlNext PROVE StopKept
    OBVIOUS
<1> USE Identities DEF TypeInv, TypeOK, GrantTypeOK, SessionTypeOK
<1>1. ASSUME NEW a \in Attempts, InterruptPreparation(a) PROVE StopKept
      BY <1>1, StopAdded DEF InterruptPreparation
<1>2. ASSUME NEW a \in Attempts, NEW from, NEW to, GrantStep(a, from, to), UNCHANGED active
      PROVE  StopKept
      <2>1. \A s \in sessionStop : active[s] # a
            BY <1>2 DEF GrantStep, Bindings, LeaseInv, StopAgreement
      <2> QED BY <1>2, <2>1 DEF GrantStep, StopKept
<1>3. ASSUME NEW a \in Attempts,
             \/ PublishTurn(a) \/ Admit(a) \/ Offer(a) \/ BeginStart(a) \/ MarkStarted(a)
      PROVE  StopKept
      BY <1>2, <1>3 DEF PublishTurn, Admit, Offer, BeginStart, MarkStarted
<1>4. ASSUME UNCHANGED <<active, state, sessionStop, stopActive>> PROVE StopKept
      BY <1>4 DEF StopKept
<1>5. ASSUME NEW a \in Attempts, NEW prepared \in BOOLEAN,
             \/ BeginPreparation(a) \/ CheckpointPreparation(a)
             \/ CompletePreparation(a, prepared) \/ AcceptTurn(a)
             \/ BeginCheckout(a) \/ CompleteCheckout(a) \/ CloseCheckouts(a)
             \/ CheckoutsFlushed(a) \/ SetSessionResources(a) \/ BindSessionPod(a)
             \/ AdmitSession(a)
      PROVE  StopKept
      <2>1. UNCHANGED <<active, state, sessionStop, stopActive>>
            BY <1>5 DEF BeginPreparation, CheckpointPreparation, CompletePreparation, AcceptTurn,
               BeginCheckout, CompleteCheckout, CloseCheckouts, CheckoutsFlushed,
               SetSessionResources, BindSessionPod, AdmitSession
      <2> QED BY <1>4, <2>1
<1> HIDE DEF TypeInv
<1> QED BY <1>1, <1>3, <1>5 DEF TurnControlNext

\* Results and failures of a stopped turn are still recorded, and end it.
LEMMA OutboxStop == TypeInv /\ LeaseInv /\ OutboxNext => StopKept
<1> SUFFICES ASSUME TypeInv, LeaseInv, OutboxNext PROVE StopKept
    OBVIOUS
<1> USE Identities DEF TypeInv, TypeOK, GrantTypeOK, SessionTypeOK
<1>1. ASSUME NEW a \in Attempts, NEW k \in ResultKinds \cup {"cancel-ack"}, ReceiveTerminal(a, k)
      PROVE  StopKept
      BY <1>1 DEF ReceiveTerminal, StopKept
<1>2. ASSUME NEW a \in Attempts, ReceiveFailure(a) PROVE StopKept
      <2>1. UNCHANGED active
            BY <1>2 DEF ReceiveFailure, RecordFailure
      <2>2. CASE QuarantineTurn(a, workerSession[a])
            BY <2>1, <2>2 DEF QuarantineTurn, RecordStop, StopKept
      <2>3. CASE LeaveUnexecuted(a)
            <3>1. \A s \in Attempts : active[s] # a
                  BY <2>3 DEF LeaveUnexecuted, LeaseInv, TurnOwnership
            <3> QED BY <2>1, <2>3, <3>1 DEF LeaveUnexecuted, StopKept
      <2> QED BY <1>2, <2>2, <2>3 DEF ReceiveFailure
<1>3. ASSUME NEW a \in Attempts, NEW keep \in BOOLEAN, CompleteTurn(a, keep) PROVE StopKept
      <2>1. /\ workerSession[a] \in Attempts
            /\ active' = [active EXCEPT ![workerSession[a]] = None]
            /\ state' = [state EXCEPT ![a] = "closed"]
            BY <1>3 DEF CompleteTurn, SettleTurn, EndTurn, KeepRoot
      <2>2. CASE RetainSession(a, workerSession[a])
            BY <2>1, <2>2 DEF RetainSession, StopKept
      <2>3. CASE ReleaseSession(workerSession[a])
            BY <2>1, <2>3 DEF ReleaseSession, RecordStop, StopKept
      <2> QED BY <1>3, <2>2, <2>3 DEF CompleteTurn
<1>4. ASSUME UNCHANGED <<active, state, sessionStop, stopActive>> PROVE StopKept
      BY <1>4 DEF StopKept
<1>5. ASSUME NEW a \in Attempts, NEW outcome \in Outcomes,
             \/ RecordResultReceipt(a) \/ RecordTurnExecutionReceipt(a)
             \/ RecordRecoveryFailure(a) \/ BeginForward(a) \/ RejectTerminal(a)
             \/ FinishForward(a, outcome) \/ FinishRecoveryForward(a, outcome)
             \/ RecordCompletionWitness(a) \/ BeginFailureForward(a) \/ RejectFailure(a)
             \/ BeginRecoveryForward(a) \/ RejectRecoveryFailure(a)
             \/ RecoverClosedCheckpoint(a)
      PROVE  StopKept
      <2>1. UNCHANGED <<active, state, sessionStop, stopActive>>
            BY <1>5 DEF RecordResultReceipt, RecordTurnExecutionReceipt, RecordRecoveryFailure,
               BeginForward, RejectTerminal, FinishForward, FinishRecoveryForward,
               RecordCompletionWitness, BeginFailureForward, RejectFailure,
               BeginRecoveryForward, RejectRecoveryFailure, RecoverClosedCheckpoint, OutboxStep
      <2> QED BY <1>4, <2>1
<1>6. "received" \in Outcomes
      BY DEF Outcomes
<1> HIDE DEF TypeInv
<1> QED BY <1>1, <1>2, <1>3, <1>5, <1>6 DEF OutboxNext

\* The stop itself never changes what it recorded.
LEMMA SessionStopStop == TypeInv /\ LeaseInv /\ SessionStopNext => StopKept
<1> SUFFICES ASSUME TypeInv, LeaseInv, SessionStopNext PROVE StopKept
    OBVIOUS
<1> USE Identities DEF TypeInv, TypeOK, GrantTypeOK, SessionTypeOK
<1>1. ASSUME NEW s \in Attempts, RequestSessionStop(s) \/ QuarantineSession(s) PROVE StopKept
      BY <1>1, StopAdded DEF RequestSessionStop, StopSession, QuarantineSession
<1>2. ASSUME NEW s \in Attempts, CloseSession(s) PROVE StopKept
      <2>1. /\ active' = [active EXCEPT ![s] = None]
            /\ state' = [b \in Attempts |-> IF b \in {active[s]} \ {None} THEN "closed" ELSE state[b]]
            /\ UNCHANGED <<sessionStop, stopActive>>
            BY <1>2 DEF CloseSession
      <2> QED BY <2>1 DEF StopKept
<1>3. ASSUME NEW a \in Attempts, RequestStop(a) PROVE StopKept
      <2>1. CASE workerSession[a] # None
            BY <1>3, <2>1, StopAdded DEF RequestStop
      <2>2. CASE workerSession[a] = None
            BY <1>3, <2>2 DEF RequestStop, StopKept
      <2> QED BY <2>1, <2>2
<1>4. ASSUME NEW a \in Attempts, CloseStopped(a) PROVE StopKept
      BY <1>4 DEF CloseStopped, StopKept
<1>5. ASSUME NEW s \in Attempts,
             \/ RecordSessionControllerFlush(s) \/ RecordSessionStopReceipt(s)
             \/ ObserveSessionStop(s) \/ MarkSessionCleaned(s) \/ MarkCleaned(s)
      PROVE  StopKept
      <2>1. UNCHANGED <<active, state, sessionStop, stopActive>>
            BY <1>5 DEF RecordSessionControllerFlush, RecordSessionStopReceipt,
               ObserveSessionStop, MarkSessionCleaned, MarkCleaned
      <2> QED BY <2>1 DEF StopKept
<1> HIDE DEF TypeInv
<1> QED BY <1>1, <1>2, <1>3, <1>4, <1>5 DEF SessionStopNext

\* A stop is final in every behaviour: a stopped session takes no turn, its
\* turn gains no start authority, and the record keeps the turn it fenced
\* (requestSessionStop against ReserveTurn, PublishTurn and the start handler).
THEOREM StopFinal == Spec => StopIsFinal
<1>1. ASSUME TypeInv, TypeInv', LeaseInv, LeaseInv', [Next]_vars
      PROVE  [\A s \in sessionStop :
                /\ s \in sessionStop' /\ active'[s] \in {active[s], None}
                /\ stopActive'[s] = stopActive[s]
                /\ sessionState'[s] \in {"draining", "quarantined", "closed"}
                /\ active[s] # None =>
                     \/ state'[active[s]] = state[active[s]]
                     \/ state'[active[s]] \in {"terminal_received", "quarantined", "closed"}
             ]_vars
      <2>1. CASE UNCHANGED vars
            BY <2>1
      <2>2. CASE Next
            <3>1. ClusterNext => StopKept
                  BY DEF ClusterNext, PodCommits, PodRuns, PodNeverStarts, PodTerminates,
                     PodLost, SetPod, Seal, WriterExits, BackendStarts, BackendCommits,
                     BackendEnds, SetBackend, Restart, ContainerTerminates, StopKept
            <3>2. StopKept
                  BY <1>1, <2>2, <3>1, ReservationStop, TurnControlStop, OutboxStop,
                     SessionStopStop DEF Next
            <3>3. \A s \in sessionStop : sessionState'[s] \in {"draining", "quarantined", "closed"}
                  BY <1>1, <3>2 DEF StopKept, TypeInv, TypeOK, SessionTypeOK, Bindings,
                     LeaseInv, StopAgreement, SessionExists
            <3> QED BY <3>2, <3>3 DEF StopKept
      <2> QED BY <1>1, <2>1, <2>2
<1> QED BY <1>1, TypeInvariant, LeaseInvariant, PTL DEF Spec, StopIsFinal

-----------------------------------------------------------------------------
(***************************************************************************)
(* The outcome of a turn, for any number of attempts: no turn is closed    *)
(* without one, and an authenticated result is never replaced, whatever    *)
(* the order of results, receipts, failures, stops and restarts.           *)
(***************************************************************************)

\* What the outbox record of an attempt may look like: a receipt belongs to
\* a native result that was not replaced, a native result leaves "received"
\* only with a receipt, a witness needs one, and nothing is delivered before
\* there is an outcome.
OutboxShape ==
    \A a \in Attempts :
        /\ a \in resultReceipt => source[a] = "worker" /\ recovery[a] = "none"
        /\ source[a] = "worker" /\ delivery[a] # "received" => a \in resultReceipt
        /\ a \in witness => a \in resultReceipt
        /\ recovery[a] # "none" => source[a] = "worker"
        /\ source[a] = "none" => delivery[a] = "none"

OutcomeInv == OutboxShape /\ NoLostOutcome

\* The step relation of OutcomeFinal.
OutcomeStep ==
    \A a \in Attempts :
        /\ source[a] # "none" => source'[a] = source[a] /\ kind'[a] = kind[a]
        /\ a \in resultReceipt => a \in resultReceipt' /\ recovery'[a] = "none"
        /\ delivery[a] \in {"delivered", "rejected"} => delivery'[a] = delivery[a]
        /\ recovery[a] \in {"delivered", "rejected"} => recovery'[a] = recovery[a]

outcomeVars == <<source, kind, delivery, resultReceipt, recovery, witness, state, workerSession>>

\* The empty outbox satisfies the invariant.
LEMMA OutcomeInit == Init => OutcomeInv
BY DEF Init, OutcomeInv, OutboxShape, NoLostOutcome

\* A transaction that leaves outbox records and grant states alone keeps it.
LEMMA OutcomeFrame ==
    OutcomeInv /\ UNCHANGED outcomeVars => OutcomeInv' /\ OutcomeStep
BY DEF outcomeVars, OutcomeInv, OutboxShape, NoLostOutcome, OutcomeStep

\* Outbox records stay as they are while a grant moves on without closing,
\* or a claim is reserved.
LEMMA GrantMoves ==
    ASSUME TypeInv, OutcomeInv, UNCHANGED <<source, kind, delivery, resultReceipt, recovery, witness>>,
           \A a \in Attempts : workerSession'[a] # None /\ state'[a] = "closed" =>
              workerSession[a] # None /\ state[a] = "closed"
    PROVE  OutcomeInv' /\ OutcomeStep
BY DEF OutcomeInv, OutboxShape, NoLostOutcome, OutcomeStep

\* Claims and reservations.
LEMMA ReservationOutcome ==
    TypeInv /\ OutcomeInv /\ ReservationNext => OutcomeInv' /\ OutcomeStep
<1> SUFFICES ASSUME TypeInv, OutcomeInv, ReservationNext PROVE OutcomeInv' /\ OutcomeStep
    OBVIOUS
<1>1. ASSUME NEW a \in Attempts, QueueClaim(a) PROVE OutcomeInv' /\ OutcomeStep
      BY <1>1, GrantMoves DEF QueueClaim, TypeInv, TypeOK, GrantTypeOK
<1>2. ASSUME NEW a \in Attempts, NEW s, NEW t, Reserve(a, s, t) PROVE OutcomeInv' /\ OutcomeStep
      BY <1>2, GrantMoves DEF Reserve, TypeInv, TypeOK, GrantTypeOK
<1>3. ASSUME NEW s \in Attempts \cup {None}, DrainIdle(s) PROVE OutcomeInv' /\ OutcomeStep
      BY <1>3, OutcomeFrame DEF DrainIdle, outcomeVars
<1>4. ASSUME NEW a \in Attempts, NEW choice \in Tasks \cup {Fresh}, NEW reuse \in BOOLEAN,
             RecordSelection(a, choice, reuse)
      PROVE  OutcomeInv' /\ OutcomeStep
      BY <1>4, OutcomeFrame DEF RecordSelection, outcomeVars
<1>5. ASSUME NEW a \in Attempts, DrainCurrent(a) PROVE OutcomeInv' /\ OutcomeStep
      <2>1. currentSession[ConversationOf[TaskOf[a]]] \in Attempts
            BY <1>5, Identities DEF DrainCurrent, TypeInv, TypeOK, StorageTypeOK
      <2> QED BY <1>3, <1>5, <2>1 DEF DrainCurrent
<1>6. ASSUME NEW a \in Attempts, ReserveWarm(a) PROVE OutcomeInv' /\ OutcomeStep
      BY <1>2, <1>6 DEF ReserveWarm
<1>7. ASSUME NEW a \in Attempts, NEW t \in Tasks, ReserveNew(a, t) PROVE OutcomeInv' /\ OutcomeStep
      BY <1>2, <1>7 DEF ReserveNew
<1> QED BY <1>1, <1>3, <1>4, <1>5, <1>6, <1>7 DEF ReservationNext, DrainForCapacity, ExpireSession

\* Preparation, Pods, assignment and checkouts.
LEMMA TurnControlOutcome ==
    TypeInv /\ OutcomeInv /\ TurnControlNext => OutcomeInv' /\ OutcomeStep
<1> SUFFICES ASSUME TypeInv, OutcomeInv, TurnControlNext PROVE OutcomeInv' /\ OutcomeStep
    OBVIOUS
<1>1. ASSUME NEW a \in Attempts, NEW from, NEW to \in GrantStates \ {"closed"},
             GrantStep(a, from, to), UNCHANGED witness
      PROVE  OutcomeInv' /\ OutcomeStep
      BY <1>1, GrantMoves DEF GrantStep, TypeInv, TypeOK, GrantTypeOK
<1>2. ASSUME NEW a \in Attempts,
             \/ PublishTurn(a) \/ Admit(a) \/ Offer(a) \/ BeginStart(a) \/ MarkStarted(a)
      PROVE  OutcomeInv' /\ OutcomeStep
      <2>1. {"assigned", "ready", "offered", "starting", "started"} \subseteq GrantStates \ {"closed"}
            BY DEF GrantStates
      <2> QED BY <1>1, <1>2, <2>1 DEF PublishTurn, Admit, Offer, BeginStart, MarkStarted
<1>3. ASSUME NEW a \in Attempts, NEW prepared \in BOOLEAN,
             \/ BeginPreparation(a) \/ CheckpointPreparation(a)
             \/ CompletePreparation(a, prepared) \/ InterruptPreparation(a) \/ AcceptTurn(a)
             \/ BeginCheckout(a) \/ CompleteCheckout(a) \/ CloseCheckouts(a)
             \/ CheckoutsFlushed(a) \/ SetSessionResources(a) \/ BindSessionPod(a)
             \/ AdmitSession(a)
      PROVE  OutcomeInv' /\ OutcomeStep
      <2>1. UNCHANGED outcomeVars
            BY <1>3 DEF outcomeVars, BeginPreparation, CheckpointPreparation, CompletePreparation,
               InterruptPreparation, AcceptTurn, BeginCheckout, CompleteCheckout,
               CloseCheckouts, CheckoutsFlushed, SetSessionResources, BindSessionPod,
               AdmitSession
      <2> QED BY <2>1, OutcomeFrame
<1> QED BY <1>2, <1>3 DEF TurnControlNext

\* Results, failures and their delivery.
LEMMA OutboxOutcome ==
    TypeInv /\ OutcomeInv /\ OutboxNext => OutcomeInv' /\ OutcomeStep
<1> SUFFICES ASSUME TypeInv, OutcomeInv, OutboxNext PROVE OutcomeInv' /\ OutcomeStep
    OBVIOUS
<1> USE Identities DEF TypeInv, TypeOK, GrantTypeOK, OutboxTypeOK, OutcomeInv, OutboxShape,
        NoLostOutcome, OutcomeStep
<1>1. ASSUME NEW a \in Attempts, NEW k \in ResultKinds \cup {"cancel-ack"}, ReceiveTerminal(a, k)
      PROVE  OutcomeInv' /\ OutcomeStep
      BY <1>1 DEF ReceiveTerminal
<1>2. ASSUME NEW a \in Attempts, RecordResultReceipt(a) PROVE OutcomeInv' /\ OutcomeStep
      BY <1>2 DEF RecordResultReceipt, AuthenticResult, OutboxStep
<1>3. ASSUME NEW a \in Attempts, RecordTurnExecutionReceipt(a) PROVE OutcomeInv' /\ OutcomeStep
      BY <1>3 DEF RecordTurnExecutionReceipt
<1>4. ASSUME NEW a \in Attempts, ReceiveFailure(a) PROVE OutcomeInv' /\ OutcomeStep
      <2>1. RecordFailure(a)
            BY <1>4 DEF ReceiveFailure
      <2>2. \E st \in {"quarantined", "unexecuted"} : state' = [state EXCEPT ![a] = st]
            BY <1>4 DEF ReceiveFailure, QuarantineTurn, LeaveUnexecuted
      <2> QED BY <2>1, <2>2 DEF RecordFailure
<1>5. ASSUME NEW a \in Attempts, RecordRecoveryFailure(a) PROVE OutcomeInv' /\ OutcomeStep
      BY <1>5 DEF RecordRecoveryFailure
<1>6. ASSUME NEW a \in Attempts, BeginForward(a) \/ RejectTerminal(a)
      PROVE  OutcomeInv' /\ OutcomeStep
      BY <1>6 DEF BeginForward, RejectTerminal, Deliverable, SetDelivery, OutboxStep
<1>7. ASSUME NEW a \in Attempts, NEW outcome \in Outcomes, FinishForward(a, outcome)
      PROVE  OutcomeInv' /\ OutcomeStep
      <2>1. /\ delivery[a] = "forwarding" /\ delivery' = [delivery EXCEPT ![a] = outcome]
            /\ UNCHANGED <<source, kind, resultReceipt, recovery, witness, state, workerSession>>
            BY <1>7 DEF FinishForward, SetDelivery, OutboxStep
      <2> QED BY <2>1
<1>8. ASSUME NEW a \in Attempts, NEW outcome \in Outcomes, FinishRecoveryForward(a, outcome)
      PROVE  OutcomeInv' /\ OutcomeStep
      <2>1. /\ recovery[a] = "forwarding" /\ outcome # "none"
            /\ recovery' = [recovery EXCEPT ![a] = outcome]
            /\ UNCHANGED <<source, kind, resultReceipt, delivery, witness, state, workerSession>>
            BY <1>8 DEF FinishRecoveryForward, SetRecovery, OutboxStep, Outcomes
      <2> QED BY <2>1
<1>9. ASSUME NEW a \in Attempts, RecordCompletionWitness(a) PROVE OutcomeInv' /\ OutcomeStep
      BY <1>9 DEF RecordCompletionWitness
<1>10. ASSUME NEW a \in Attempts, BeginFailureForward(a) \/ RejectFailure(a)
       PROVE  OutcomeInv' /\ OutcomeStep
       BY <1>10 DEF BeginFailureForward, RejectFailure, SetDelivery, OutboxStep
<1>11. ASSUME NEW a \in Attempts, BeginRecoveryForward(a) \/ RejectRecoveryFailure(a)
       PROVE  OutcomeInv' /\ OutcomeStep
       BY <1>11 DEF BeginRecoveryForward, RejectRecoveryFailure, SetRecovery, OutboxStep
<1>12. ASSUME NEW a \in Attempts, NEW keep \in BOOLEAN, CompleteTurn(a, keep)
       PROVE  OutcomeInv' /\ OutcomeStep
       <2>1. /\ a \in witness /\ state' = [state EXCEPT ![a] = "closed"]
             /\ UNCHANGED <<source, kind, delivery, resultReceipt, recovery, witness, workerSession>>
             BY <1>12 DEF CompleteTurn, SettleTurn, EndTurn, KeepRoot
       <2> QED BY <2>1
<1>13. ASSUME NEW a \in Attempts, RecoverClosedCheckpoint(a) PROVE OutcomeInv' /\ OutcomeStep
       BY <1>13 DEF RecoverClosedCheckpoint
<1> HIDE DEF TypeInv, OutcomeInv, OutcomeStep
<1> QED BY <1>1, <1>2, <1>3, <1>4, <1>5, <1>6, <1>7, <1>8, <1>9, <1>10, <1>11, <1>12, <1>13
        DEF OutboxNext

\* Stops and releases: CloseSession refuses a turn without a kept outcome.
LEMMA SessionStopOutcome ==
    TypeInv /\ OutcomeInv /\ SessionStopNext => OutcomeInv' /\ OutcomeStep
<1> SUFFICES ASSUME TypeInv, OutcomeInv, SessionStopNext PROVE OutcomeInv' /\ OutcomeStep
    OBVIOUS
<1>1. ASSUME NEW s \in Attempts, CloseSession(s) PROVE OutcomeInv' /\ OutcomeStep
      <2>1. /\ active[s] # None => OutcomeKept(active[s])
            /\ state' = [b \in Attempts |-> IF b \in {active[s]} \ {None} THEN "closed" ELSE state[b]]
            /\ UNCHANGED <<source, kind, delivery, resultReceipt, recovery, witness, workerSession>>
            BY <1>1 DEF CloseSession
      <2> QED BY <2>1 DEF OutcomeKept, OutcomeInv, OutboxShape, NoLostOutcome, OutcomeStep
<1>2. ASSUME NEW a \in Attempts, CloseStopped(a) PROVE OutcomeInv' /\ OutcomeStep
      BY <1>2, GrantMoves DEF CloseStopped, TypeInv, TypeOK, GrantTypeOK
<1>3. ASSUME NEW s \in Attempts,
             \/ RequestSessionStop(s) \/ QuarantineSession(s)
             \/ RecordSessionControllerFlush(s) \/ RecordSessionStopReceipt(s)
             \/ ObserveSessionStop(s) \/ MarkSessionCleaned(s) \/ RequestStop(s) \/ MarkCleaned(s)
      PROVE  OutcomeInv' /\ OutcomeStep
      <2>1. UNCHANGED outcomeVars
            BY <1>3 DEF outcomeVars, RequestSessionStop, QuarantineSession,
               RecordSessionControllerFlush, RecordSessionStopReceipt, ObserveSessionStop,
               MarkSessionCleaned, RequestStop, MarkCleaned
      <2> QED BY <2>1, OutcomeFrame
<1> QED BY <1>1, <1>2, <1>3 DEF SessionStopNext

\* The world: a restart makes requests in flight uncertain, nothing else.
LEMMA ClusterOutcome ==
    TypeInv /\ OutcomeInv /\ ClusterNext => OutcomeInv' /\ OutcomeStep
<1> SUFFICES ASSUME TypeInv, OutcomeInv, ClusterNext PROVE OutcomeInv' /\ OutcomeStep
    OBVIOUS
<1>1. CASE Restart
      <2>1. \A a \in Attempts :
               /\ delivery'[a] = IF delivery[a] = "forwarding" THEN "uncertain" ELSE delivery[a]
               /\ recovery'[a] = IF recovery[a] = "forwarding" THEN "uncertain" ELSE recovery[a]
            BY <1>1 DEF Restart
      <2>2. UNCHANGED <<source, kind, resultReceipt, witness, state, workerSession>>
            BY <1>1 DEF Restart
      <2> QED BY <2>1, <2>2 DEF OutcomeInv, OutboxShape, NoLostOutcome, OutcomeStep
<1>2. CASE ~ Restart
      <2>1. UNCHANGED outcomeVars
            BY <1>2 DEF ClusterNext, outcomeVars, PodCommits, PodRuns, PodNeverStarts,
               PodTerminates, PodLost, SetPod, Seal, WriterExits, BackendStarts,
               BackendCommits, BackendEnds, SetBackend, ContainerTerminates
      <2> QED BY <2>1, OutcomeFrame
<1> QED BY <1>1, <1>2

\* Every step keeps the outcome invariant and is a step OutcomeFinal allows.
LEMMA OutcomeNext == TypeInv /\ OutcomeInv /\ [Next]_vars => OutcomeInv' /\ [OutcomeStep]_vars
<1>1. OutcomeInv /\ UNCHANGED vars => OutcomeInv'
      BY OutcomeFrame DEF outcomeVars
<1>2. TypeInv /\ OutcomeInv /\ Next => OutcomeInv' /\ OutcomeStep
      BY ReservationOutcome, TurnControlOutcome, OutboxOutcome, SessionStopOutcome,
         ClusterOutcome DEF Next
<1> QED BY <1>1, <1>2

\* The outcome invariant is inductive relative to the types: outbox records
\* keep their shape from ReceiveTerminal and ReceiveFailure to delivery.
THEOREM OutcomeInvariant == Spec => []OutcomeInv
BY OutcomeInit, TypeInvariant, OutcomeNext, PTL DEF Spec

\* No turn is closed without an outcome, and an unauthenticated result is
\* replaced only by a recovery failure (CloseSession, CompleteTurn,
\* reconcileSessionStop).
THEOREM OutcomeNeverLost == Spec => []NoLostOutcome
BY OutcomeInvariant, PTL DEF OutcomeInv

\* An outcome, once authenticated or settled, is never replaced in any
\* behaviour (ReceiveTerminal, ReceiveFailure, RecordRecoveryFailure,
\* RecordResultReceipt, Store.Open).
THEOREM OutcomeIsFinal == Spec => OutcomeFinal
BY TypeInvariant, OutcomeInvariant, OutcomeNext, PTL DEF Spec, OutcomeFinal, OutcomeStep

-----------------------------------------------------------------------------
(* What the backend accepted.                                              *)

\* A record is delivered only against the status of the backend it asked
\* for, the controller itself only reports failures, and no status the
\* backend committed is taken back.
AcceptInv ==
    /\ DeliveredIsAccepted
    /\ \A a \in Attempts : source[a] = "controller" => kind[a] = "fail"

acceptVars == <<witness, backend, source, kind, delivery, recovery>>

\* Nothing is delivered at first.
LEMMA AcceptInit == Init => AcceptInv
BY DEF Init, AcceptInv, DeliveredIsAccepted

\* A step that leaves outcomes and the backend alone keeps what is said of them.
LEMMA AcceptFrame == AcceptInv /\ UNCHANGED acceptVars => AcceptInv'
BY DEF AcceptInv, DeliveredIsAccepted, acceptVars

outcomeRecords == <<source, kind, delivery, resultReceipt, recovery, backend, ambiguous>>

\* Only the outbox and the world touch these records.
LEMMA OutcomesElsewhere ==
    ReservationNext \/ TurnControlNext \/ SessionStopNext \/ UNCHANGED vars
        => UNCHANGED <<witness, outcomeRecords>>
<1>1. ASSUME ReservationNext PROVE UNCHANGED <<witness, outcomeRecords>>
      <2>1. ASSUME NEW a \in Attempts, NEW t \in Tasks, NEW s \in Attempts,
                   NEW choice \in Tasks \cup {Fresh}, NEW reuse \in BOOLEAN,
                   \/ QueueClaim(a) \/ RecordSelection(a, choice, reuse) \/ ReserveWarm(a)
                   \/ ReserveNew(a, t) \/ DrainCurrent(a) \/ DrainForCapacity(a, s)
                   \/ ExpireSession(s)
            PROVE  UNCHANGED <<witness, outcomeRecords>>
            BY <2>1 DEF outcomeRecords, QueueClaim, RecordSelection, ReserveWarm, ReserveNew,
               Reserve, DrainCurrent, DrainForCapacity, ExpireSession, DrainIdle
      <2> QED BY <1>1, <2>1, Identities DEF ReservationNext
<1>2. TurnControlNext => UNCHANGED <<witness, outcomeRecords>>
      BY DEF TurnControlNext, outcomeRecords, BeginPreparation, CheckpointPreparation,
             CompletePreparation, InterruptPreparation, PublishTurn, AcceptTurn, Admit, Offer,
             BeginStart, MarkStarted, GrantStep, BeginCheckout, CompleteCheckout,
             CloseCheckouts, CheckoutsFlushed, SetSessionResources, BindSessionPod,
             AdmitSession
<1>3. ASSUME SessionStopNext PROVE UNCHANGED <<witness, outcomeRecords>>
      <2>1. ASSUME NEW s \in Attempts,
                   \/ RequestSessionStop(s) \/ QuarantineSession(s)
                   \/ RecordSessionControllerFlush(s) \/ RecordSessionStopReceipt(s)
                   \/ ObserveSessionStop(s) \/ CloseSession(s) \/ MarkSessionCleaned(s)
                   \/ RequestStop(s) \/ CloseStopped(s) \/ MarkCleaned(s)
            PROVE  UNCHANGED <<witness, outcomeRecords>>
            BY <2>1 DEF outcomeRecords, RequestSessionStop, QuarantineSession,
               RecordSessionControllerFlush, RecordSessionStopReceipt, ObserveSessionStop,
               CloseSession, MarkSessionCleaned, RequestStop, CloseStopped, MarkCleaned
      <2> QED BY <1>3, <2>1 DEF SessionStopNext
<1>4. UNCHANGED vars => UNCHANGED <<witness, outcomeRecords>>
      BY DEF outcomeRecords
<1> QED BY <1>1, <1>2, <1>3, <1>4

\* The other transactions keep what is said of outcomes and the backend.
LEMMA AcceptElsewhere ==
    AcceptInv /\ (ReservationNext \/ TurnControlNext \/ SessionStopNext \/ UNCHANGED vars) => AcceptInv'
BY OutcomesElsewhere, AcceptFrame DEF acceptVars, outcomeRecords

\* A delivery is recorded when the answer, or the row, says so.
LEMMA OutboxAccept == TypeInv /\ AcceptInv /\ OutboxNext => AcceptInv'
<1> SUFFICES ASSUME TypeInv, AcceptInv, OutboxNext PROVE AcceptInv'
    OBVIOUS
<1> USE DEF AcceptInv, DeliveredIsAccepted, TypeInv, TypeOK, OutboxTypeOK, WorldTypeOK
<1>1. ASSUME NEW a \in Attempts, NEW k \in ResultKinds \cup {"cancel-ack"}, ReceiveTerminal(a, k)
      PROVE  AcceptInv'
      BY <1>1 DEF ReceiveTerminal
<1>2. ASSUME NEW a \in Attempts, ReceiveFailure(a) PROVE AcceptInv'
      <2>1. /\ source' = [source EXCEPT ![a] = "controller"] /\ kind' = [kind EXCEPT ![a] = "fail"]
            /\ delivery' = [delivery EXCEPT ![a] = "received"]
            /\ UNCHANGED <<recovery, witness, backend>>
            BY <1>2 DEF ReceiveFailure, RecordFailure
      <2> QED BY <2>1
<1>3. ASSUME NEW a \in Attempts, RecordRecoveryFailure(a) PROVE AcceptInv'
      BY <1>3 DEF RecordRecoveryFailure
<1>4. ASSUME NEW a \in Attempts, NEW d \in {"forwarding", "rejected"}, SetDelivery(a, d), OutboxStep
      PROVE  AcceptInv'
      BY <1>4 DEF SetDelivery, OutboxStep
<1>5. ASSUME NEW a \in Attempts, NEW d \in {"forwarding", "rejected"}, SetRecovery(a, d), OutboxStep
      PROVE  AcceptInv'
      BY <1>5 DEF SetRecovery, OutboxStep
<1>6. ASSUME NEW a \in Attempts, NEW outcome \in Outcomes, FinishForward(a, outcome)
      PROVE  AcceptInv'
      <2>1. source[a] = "controller" /\ outcome = "delivered" => backend[a] = "failure"
            BY <1>6 DEF FinishForward, Outcome
      <2> QED BY <1>6, <2>1 DEF FinishForward, SetDelivery, OutboxStep
<1>7. ASSUME NEW a \in Attempts, NEW outcome \in Outcomes, FinishRecoveryForward(a, outcome)
      PROVE  AcceptInv'
      <2>1. outcome = "delivered" => backend[a] = "failure"
            BY <1>7 DEF FinishRecoveryForward, Outcome
      <2> QED BY <1>7, <2>1 DEF FinishRecoveryForward, SetRecovery, OutboxStep
<1>8. ASSUME NEW a \in Attempts, RecordCompletionWitness(a) PROVE AcceptInv'
      BY <1>8 DEF RecordCompletionWitness
<1> HIDE DEF AcceptInv, TypeInv
<1>9. ASSUME NEW a \in Attempts,
             \/ BeginForward(a) \/ RejectTerminal(a) \/ BeginFailureForward(a)
             \/ RejectFailure(a) \/ BeginRecoveryForward(a) \/ RejectRecoveryFailure(a)
      PROVE  AcceptInv'
      BY <1>4, <1>5, <1>9 DEF BeginForward, RejectTerminal, BeginFailureForward, RejectFailure,
                              BeginRecoveryForward, RejectRecoveryFailure
<1>10. ASSUME NEW a \in Attempts, NEW keep \in BOOLEAN,
              \/ RecordResultReceipt(a) \/ RecordTurnExecutionReceipt(a)
              \/ CompleteTurn(a, keep) \/ RecoverClosedCheckpoint(a)
       PROVE  AcceptInv'
       <2>1. UNCHANGED acceptVars
             BY <1>10 DEF acceptVars, RecordResultReceipt, RecordTurnExecutionReceipt,
                CompleteTurn, SettleTurn, RecoverClosedCheckpoint, OutboxStep
       <2> QED BY <2>1, AcceptFrame
<1>11. TRUE \in BOOLEAN
       OBVIOUS
<1> QED BY <1>1, <1>2, <1>3, <1>6, <1>7, <1>8, <1>9, <1>10, <1>11 DEF OutboxNext

\* The backend decides once, and a restart forgets answers, not decisions.
LEMMA ClusterAccept == TypeInv /\ AcceptInv /\ ClusterNext => AcceptInv'
<1> SUFFICES ASSUME TypeInv, AcceptInv, ClusterNext PROVE AcceptInv'
    OBVIOUS
<1>1. ASSUME NEW a \in Attempts, NEW b, backend[a] \in {"dispatched", "running"}, SetBackend(a, b)
      PROVE  AcceptInv'
      BY <1>1 DEF SetBackend, AcceptInv, DeliveredIsAccepted, TypeInv, TypeOK, WorldTypeOK
<1>2. ASSUME NEW a \in Attempts, BackendStarts(a) \/ BackendCommits(a) \/ BackendEnds(a)
      PROVE  AcceptInv'
      BY <1>1, <1>2 DEF BackendStarts, BackendCommits, BackendEnds
<1>3. CASE Restart
      <2>1. \A a \in Attempts :
               /\ delivery'[a] = "delivered" => delivery[a] = "delivered"
               /\ recovery'[a] = "delivered" => recovery[a] = "delivered"
            BY <1>3 DEF Restart
      <2>2. UNCHANGED <<witness, backend, source, kind>>
            BY <1>3 DEF Restart
      <2> QED BY <2>1, <2>2 DEF AcceptInv, DeliveredIsAccepted
<1>4. ASSUME NEW s \in Attempts, NEW outcome \in {"clean", "unclean"}, NEW i \in Incarnations,
             \/ PodCommits(s) \/ PodRuns(s) \/ PodNeverStarts(s) \/ PodTerminates(s)
             \/ PodLost(s) \/ Seal(s, outcome) \/ WriterExits(s)
      PROVE  AcceptInv'
      <2>1. UNCHANGED acceptVars
            BY <1>4 DEF acceptVars, PodCommits, PodRuns, PodNeverStarts, PodTerminates, PodLost,
               SetPod, Seal, WriterExits
      <2> QED BY <2>1, AcceptFrame
<1>5. ASSUME NEW i \in Incarnations, ContainerTerminates(i) PROVE AcceptInv'
      BY <1>5, AcceptFrame DEF acceptVars, ContainerTerminates
<1>6. 0 \in Incarnations
      BY Identities
<1> QED BY <1>2, <1>3, <1>4, <1>5, <1>6 DEF ClusterNext

\* Deliveries, failures and the backend's row keep to each other in every
\* behaviour (RecordCompletionWitness, FinishForward, ReceiveFailure).
THEOREM AcceptInvariant == Spec => []AcceptInv
<1>1. TypeInv /\ AcceptInv /\ [Next]_vars => AcceptInv'
      BY AcceptElsewhere, OutboxAccept, ClusterAccept DEF Next
<1> QED BY <1>1, AcceptInit, TypeInvariant, PTL DEF Spec

\* What the outbox calls delivered is what the backend holds, in every order
\* of requests, lost answers, restarts and commits (RecordCompletionWitness,
\* FinishForward, FinishRecoveryForward).
THEOREM DeliverySafe == Spec => []DeliveredIsAccepted
<1>1. AcceptInv => DeliveredIsAccepted
      BY DEF AcceptInv
<1> QED BY <1>1, AcceptInvariant, PTL

-----------------------------------------------------------------------------
(***************************************************************************)
(* The promise of OutcomeDelivery is kept, for any number of attempts and  *)
(* restarts: every step of the outbox and of the backend is a step of the  *)
(* promise, and no other step touches what it speaks of.                   *)
(***************************************************************************)

\* A cancellation is acknowledged only after the backend recorded it, and a
\* request of unknown fate was sent for an outcome that was proven.
FateInv ==
    /\ \A a \in Attempts : source[a] = "worker" /\ kind[a] = "cancel-ack" => backend[a] = "cancelled"
    /\ ambiguous \subseteq Proven

PromiseInv == TypeInv /\ OutcomeInv /\ AcceptInv /\ FateInv

promised == <<[a \in Attempts |-> OutcomeOf(a)], Proven,
              [a \in Attempts |-> RowOf(a)], [a \in Attempts |-> VerdictOf(a)]>>

\* What is shown of every step: it keeps the invariant and the promise.
PromiseStep == FateInv' /\ [Promise!Next]_promised

\* Nothing is promised at first.
LEMMA PromiseInit == Init => FateInv /\ Promise!Init
BY DEF Init, FateInv, Promise!Init, OutcomeOf, Proven, RowOf, VerdictOf

\* A step that leaves outcomes and the backend alone is a stutter.
LEMMA PromiseFrame == FateInv /\ UNCHANGED outcomeRecords => PromiseStep
<1> SUFFICES ASSUME FateInv, UNCHANGED outcomeRecords PROVE PromiseStep
    OBVIOUS
<1>1. /\ \A a \in Attempts : /\ OutcomeOf(a)' = OutcomeOf(a) /\ RowOf(a)' = RowOf(a)
                             /\ VerdictOf(a)' = VerdictOf(a)
      /\ Proven' = Proven
      BY DEF outcomeRecords, OutcomeOf, Proven, RowOf, VerdictOf
<1> QED BY <1>1 DEF PromiseStep, FateInv, promised, outcomeRecords

\* A step of the worker's or the controller's records for one attempt.
LEMMA RecordsOf ==
    ASSUME TypeInv, NEW a \in Attempts, UNCHANGED backend,
           \A b \in Attempts \ {a} :
              /\ source'[b] = source[b] /\ kind'[b] = kind[b] /\ delivery'[b] = delivery[b]
              /\ recovery'[b] = recovery[b] /\ (b \in resultReceipt' <=> b \in resultReceipt)
    PROVE  /\ \A b \in Attempts : RowOf(b)' = RowOf(b)
           /\ \A b \in Attempts \ {a} :
                 /\ OutcomeOf(b)' = OutcomeOf(b) /\ VerdictOf(b)' = VerdictOf(b)
                 /\ b \in Proven' <=> b \in Proven
BY DEF OutcomeOf, Proven, RowOf, VerdictOf

\* Such a step is a stutter if it changes neither outcome, proof nor verdict
\* of its attempt.
LEMMA RecordsStutter ==
    ASSUME PromiseInv, NEW a \in Attempts, UNCHANGED backend,
           \A b \in Attempts \ {a} :
              /\ source'[b] = source[b] /\ kind'[b] = kind[b] /\ delivery'[b] = delivery[b]
              /\ recovery'[b] = recovery[b] /\ (b \in resultReceipt' <=> b \in resultReceipt),
           OutcomeOf(a)' = OutcomeOf(a), VerdictOf(a)' = VerdictOf(a),
           a \in Proven' <=> a \in Proven
    PROVE  UNCHANGED promised
<1>1. \A b \in Attempts : OutcomeOf(b)' = OutcomeOf(b) /\ VerdictOf(b)' = VerdictOf(b)
                          /\ RowOf(b)' = RowOf(b) /\ (b \in Proven' <=> b \in Proven)
      BY RecordsOf DEF PromiseInv
<1>2. Proven \subseteq Attempts /\ Proven' \subseteq Attempts
      BY DEF Proven
<1> QED BY <1>1, <1>2 DEF promised

\* A step that settles the delivery, or the recovery, of one attempt, or
\* leaves it open.
LEMMA VerdictStep ==
    ASSUME PromiseInv, NEW a \in Attempts, NEW d \in DeliveryStates \ {"none"},
           \/ SetDelivery(a, d) /\ recovery[a] = "none" /\ source[a] # "none"
           \/ SetRecovery(a, d) /\ recovery[a] # "none",
           a \in Proven, VerdictOf(a) = "open", UNCHANGED backend,
           d = "delivered" => RowOf(a) = OutcomeOf(a)
    PROVE  [Promise!Next]_promised /\ UNCHANGED Proven
<1>1. /\ \A b \in Attempts : /\ OutcomeOf(b)' = OutcomeOf(b) /\ RowOf(b)' = RowOf(b)
                             /\ b \in Proven' <=> b \in Proven
      /\ \A b \in Attempts \ {a} : VerdictOf(b)' = VerdictOf(b)
      /\ VerdictOf(a)' = IF d \in {"delivered", "rejected"} THEN d ELSE "open"
      BY DEF SetDelivery, SetRecovery, OutcomeOf, Proven, RowOf, VerdictOf, PromiseInv,
             TypeInv, TypeOK, OutboxTypeOK
<1>2. Proven \subseteq Attempts /\ Proven' \subseteq Attempts
      BY DEF Proven
<1>3. UNCHANGED Proven
      BY <1>1, <1>2
<1>4. CASE d = "delivered"
      BY <1>1, <1>3, <1>4 DEF Promise!Next, Promise!Deliver, promised
<1>5. CASE d = "rejected"
      BY <1>1, <1>3, <1>5 DEF Promise!Next, Promise!Refuse, promised
<1>6. CASE d \notin {"delivered", "rejected"}
      BY <1>1, <1>3, <1>6 DEF promised
<1> QED BY <1>3, <1>4, <1>5, <1>6

\* What is sent, or has been answered, was proven.
LEMMA SentIsProven ==
    ASSUME PromiseInv, NEW a \in Attempts,
           \/ Deliverable(a) \/ source[a] = "controller" \/ recovery[a] # "none"
           \/ delivery[a] \in {"forwarding", "uncertain"}
    PROVE  a \in Proven
BY DEF PromiseInv, OutcomeInv, OutboxShape, Deliverable, Proven, OutcomeOf, TypeInv, TypeOK,
       OutboxTypeOK

\* A step that gives one attempt another outcome.
LEMMA OutcomeChanges ==
    ASSUME NEW a \in Attempts, NEW o, OutcomeOf(a)' = o,
           \A b \in Attempts \ {a} : OutcomeOf(b)' = OutcomeOf(b),
           \A b \in Attempts : RowOf(b)' = RowOf(b) /\ VerdictOf(b)' = VerdictOf(b)
    PROVE  /\ [b \in Attempts |-> OutcomeOf(b)]'
                = [[b \in Attempts |-> OutcomeOf(b)] EXCEPT ![a] = o]
           /\ [b \in Attempts |-> RowOf(b)]' = [b \in Attempts |-> RowOf(b)]
           /\ [b \in Attempts |-> VerdictOf(b)]' = [b \in Attempts |-> VerdictOf(b)]
OBVIOUS

\* The worker's result and its receipt.
LEMMA ResultPromise ==
    ASSUME PromiseInv, NEW a \in Attempts, NEW k \in ResultKinds \cup {"cancel-ack"},
           ReceiveTerminal(a, k) \/ RecordResultReceipt(a)
    PROVE  PromiseStep
<1> USE Identities DEF PromiseInv, TypeInv, TypeOK, OutboxTypeOK, WorldTypeOK, OutcomeInv, OutboxShape
<1>1. CASE ReceiveTerminal(a, k)
      <2>1. /\ \A b \in Attempts \ {a} : OutcomeOf(b)' = OutcomeOf(b)
            /\ OutcomeOf(a) = "none"
            /\ OutcomeOf(a)' = IF k = "cancel-ack" THEN "cancelled" ELSE "result"
            /\ k = "cancel-ack" => RowOf(a) = "cancelled"
            /\ \A b \in Attempts : RowOf(b)' = RowOf(b) /\ VerdictOf(b)' = VerdictOf(b)
            BY <1>1 DEF ReceiveTerminal, OutcomeOf, RowOf, VerdictOf
      <2>2. Proven' = Proven
            BY <1>1, <2>1 DEF Proven, ReceiveTerminal
      <2>3. FateInv'
            BY <1>1, <2>2 DEF FateInv, ReceiveTerminal
      <2>4. PICK o \in {"result", "cancelled"} :
               OutcomeOf(a)' = o /\ (o = "cancelled" => RowOf(a) = "cancelled")
            BY <2>1
      <2>5. Promise!Offer(a, o)
            BY <2>1, <2>2, <2>4, OutcomeChanges DEF Promise!Offer
      <2> QED BY <2>3, <2>5 DEF PromiseStep, Promise!Next
<1>2. CASE RecordResultReceipt(a)
      <2>1. /\ \A b \in Attempts : /\ OutcomeOf(b)' = OutcomeOf(b) /\ RowOf(b)' = RowOf(b)
                                   /\ VerdictOf(b)' = VerdictOf(b)
            /\ OutcomeOf(a) \in {"result", "cancelled"}
            BY <1>2 DEF RecordResultReceipt, AuthenticResult, OutboxStep, OutcomeOf, RowOf, VerdictOf
      <2>2. Proven' = Proven \cup {a}
            BY <1>2, <2>1 DEF Proven, RecordResultReceipt
      <2>3. FateInv'
            BY <1>2, <2>2 DEF FateInv, RecordResultReceipt, OutboxStep
      <2>4. Promise!Next
            BY <2>1, <2>2 DEF Promise!Next, Promise!Prove
      <2> QED BY <2>3, <2>4 DEF PromiseStep
<1> QED BY <1>1, <1>2

\* The controller's failures: only an outcome that is not proven is replaced.
LEMMA FailurePromise ==
    ASSUME PromiseInv, NEW a \in Attempts, ReceiveFailure(a) \/ RecordRecoveryFailure(a)
    PROVE  PromiseStep
<1> USE DEF PromiseInv, TypeInv, TypeOK, OutboxTypeOK, WorldTypeOK, OutcomeInv, OutboxShape
<1>1. /\ \A b \in Attempts \ {a} :
            /\ source'[b] = source[b] /\ kind'[b] = kind[b] /\ delivery'[b] = delivery[b]
            /\ recovery'[b] = recovery[b]
      /\ UNCHANGED <<backend, resultReceipt, ambiguous>>
      /\ a \notin resultReceipt /\ recovery[a] = "none"
      /\ \/ source[a] = "none" /\ source'[a] = "controller" /\ kind'[a] = "fail"
               /\ delivery'[a] = "received" /\ recovery'[a] = "none"
         \/ source[a] = "worker" /\ source'[a] = "worker" /\ kind'[a] = kind[a]
               /\ delivery[a] = "received" /\ recovery'[a] = "received"
      BY DEF ReceiveFailure, RecordFailure, RecordRecoveryFailure
<1>2. /\ \A b \in Attempts \ {a} : OutcomeOf(b)' = OutcomeOf(b)
      /\ OutcomeOf(a) # "failure" /\ OutcomeOf(a)' = "failure"
      /\ \A b \in Attempts : RowOf(b)' = RowOf(b) /\ VerdictOf(b)' = VerdictOf(b)
      BY <1>1 DEF OutcomeOf, RowOf, VerdictOf
<1>3. a \notin Proven /\ Proven' = Proven \cup {a}
      BY <1>1, <1>2 DEF Proven
<1>4. FateInv'
      BY <1>1, <1>3 DEF FateInv
<1>5. Promise!Fail(a)
      BY <1>2, <1>3, OutcomeChanges DEF Promise!Fail
<1> QED BY <1>4, <1>5 DEF PromiseStep, Promise!Next

\* Requests: what is begun, rejected or answered is a proven outcome without
\* a verdict, and "delivered" is answered only for the row it became.
LEMMA ForwardPromise ==
    ASSUME PromiseInv, NEW a \in Attempts, NEW outcome \in Outcomes,
           \/ BeginForward(a) \/ RejectTerminal(a) \/ BeginFailureForward(a) \/ RejectFailure(a)
           \/ BeginRecoveryForward(a) \/ RejectRecoveryFailure(a)
           \/ FinishForward(a, outcome) \/ FinishRecoveryForward(a, outcome)
    PROVE  PromiseStep
<1>1. OutboxStep /\ (UNCHANGED ambiguous \/ ambiguous' = ambiguous \cup {a})
      BY DEF BeginForward, RejectTerminal, BeginFailureForward, RejectFailure,
             BeginRecoveryForward, RejectRecoveryFailure, FinishForward, FinishRecoveryForward,
             AmbiguousAfter
<1>2. PICK d \in {"forwarding"} \cup Outcomes :
         \/ /\ SetDelivery(a, d) /\ delivery[a] \in {"received", "uncertain", "forwarding"}
            /\ Deliverable(a) \/ source[a] = "controller" \/ FinishForward(a, d)
            /\ d = "delivered" => FinishForward(a, d)
         \/ /\ SetRecovery(a, d) /\ recovery[a] \in {"received", "uncertain", "forwarding"}
            /\ recovery[a] # "none" /\ (d = "delivered" => FinishRecoveryForward(a, d))
      BY DEF BeginForward, RejectTerminal, BeginFailureForward, RejectFailure,
             BeginRecoveryForward, RejectRecoveryFailure, FinishForward, FinishRecoveryForward,
             Outcomes
<1>3. d \in DeliveryStates \ {"none"}
      BY <1>2 DEF Outcomes, DeliveryStates
<1>4. a \in Proven
      <2>1. FinishForward(a, d) => delivery[a] = "forwarding"
            BY DEF FinishForward
      <2> QED BY <1>2, <2>1, SentIsProven
<1>5. UNCHANGED backend
      BY <1>1 DEF OutboxStep
<1>6. [Promise!Next]_promised /\ UNCHANGED Proven
      <2>1. CASE SetRecovery(a, d) /\ recovery[a] \in {"received", "uncertain", "forwarding"}
                 /\ recovery[a] # "none" /\ (d = "delivered" => FinishRecoveryForward(a, d))
            <3>1. VerdictOf(a) = "open"
                  BY <2>1 DEF VerdictOf
            <3>2. d = "delivered" => RowOf(a) = OutcomeOf(a)
                  BY <2>1 DEF FinishRecoveryForward, Outcome, RowOf, OutcomeOf
            <3> QED BY <1>3, <1>4, <1>5, <2>1, <3>1, <3>2, VerdictStep
      <2>2. CASE SetDelivery(a, d) /\ delivery[a] \in {"received", "uncertain", "forwarding"}
                 /\ (Deliverable(a) \/ source[a] = "controller" \/ FinishForward(a, d))
                 /\ (d = "delivered" => FinishForward(a, d))
            <3>1. recovery[a] = "none" /\ source[a] # "none"
                  BY <2>2 DEF PromiseInv, OutcomeInv, OutboxShape, Deliverable, FinishForward
            <3>2. VerdictOf(a) = "open"
                  BY <2>2, <3>1 DEF VerdictOf
            <3>3. d = "delivered" => RowOf(a) = OutcomeOf(a)
                  BY <2>2, <3>1 DEF FinishForward, Outcome, TurnCanSettle, RowOf, OutcomeOf, FateInv,
                     PromiseInv, AcceptInv, TypeInv, TypeOK, OutboxTypeOK
            <3> QED BY <1>3, <1>4, <1>5, <2>2, <3>1, <3>2, <3>3, VerdictStep
      <2> QED BY <1>2, <2>1, <2>2
<1>7. FateInv'
      <2>1. UNCHANGED <<source, kind, backend>>
            BY <1>1, <1>2 DEF SetDelivery, SetRecovery, OutboxStep
      <2> QED BY <1>1, <1>4, <1>6, <2>1 DEF FateInv, PromiseInv
<1> QED BY <1>6, <1>7 DEF PromiseStep

\* The witness: the row is the result, whether or not it was known.
LEMMA WitnessPromise ==
    ASSUME PromiseInv, NEW a \in Attempts, RecordCompletionWitness(a)
    PROVE  PromiseStep
<1>1. /\ a \in Proven /\ RowOf(a) = "result" /\ OutcomeOf(a) = "result"
      /\ source[a] # "none" /\ recovery[a] = "none" /\ UNCHANGED backend
      /\ SetDelivery(a, "delivered") /\ UNCHANGED <<source, kind, ambiguous>>
      /\ delivery[a] # "rejected" /\ "delivered" \in DeliveryStates \ {"none"}
      BY DEF RecordCompletionWitness, TurnCanSettle, Proven, RowOf, OutcomeOf, SetDelivery,
             DeliveryStates
<1>2. [Promise!Next]_promised /\ UNCHANGED Proven
      <2>1. CASE delivery[a] = "delivered"
            <3>1. UNCHANGED <<source, kind, delivery, resultReceipt, recovery, backend>>
                  BY <1>1, <2>1 DEF SetDelivery, PromiseInv, TypeInv, TypeOK, OutboxTypeOK
            <3>2. PromiseStep
                  BY <1>1, <3>1, PromiseFrame DEF PromiseInv, outcomeRecords
            <3>3. UNCHANGED Proven
                  BY <3>1 DEF Proven, OutcomeOf
            <3> QED BY <3>2, <3>3 DEF PromiseStep
      <2>2. CASE delivery[a] # "delivered"
            <3>1. VerdictOf(a) = "open"
                  BY <1>1, <2>2 DEF VerdictOf
            <3> QED BY <1>1, <3>1, VerdictStep
      <2> QED BY <2>1, <2>2
<1>3. FateInv'
      BY <1>1, <1>2 DEF FateInv, PromiseInv
<1> QED BY <1>2, <1>3 DEF PromiseStep

\* The outbox as a whole.
LEMMA OutboxPromise == PromiseInv /\ OutboxNext => PromiseStep
<1> SUFFICES ASSUME PromiseInv, OutboxNext PROVE PromiseStep
    OBVIOUS
<1>1. ASSUME NEW a \in Attempts, NEW keep \in BOOLEAN,
             \/ RecordTurnExecutionReceipt(a) \/ CompleteTurn(a, keep) \/ RecoverClosedCheckpoint(a)
      PROVE  PromiseStep
      <2>1. UNCHANGED outcomeRecords
            BY <1>1 DEF outcomeRecords, RecordTurnExecutionReceipt, CompleteTurn, SettleTurn,
               RecoverClosedCheckpoint
      <2> QED BY <2>1, PromiseFrame DEF PromiseInv
<1>2. "received" \in Outcomes /\ "cancel-ack" \in ResultKinds \cup {"cancel-ack"} /\ TRUE \in BOOLEAN
      BY DEF Outcomes
<1> QED BY <1>1, <1>2, ResultPromise, FailurePromise, ForwardPromise, WitnessPromise DEF OutboxNext

\* The backend takes what was proven; a restart forgets answers only.
LEMMA ClusterPromise == PromiseInv /\ ClusterNext => PromiseStep
<1> SUFFICES ASSUME PromiseInv, ClusterNext PROVE PromiseStep
    OBVIOUS
<1>1. ASSUME NEW a \in Attempts, NEW how \in {"result", "failure", "cancelled"}, SetBackend(a, how),
             backend[a] \in {"dispatched", "running"},
             \/ how = OutcomeOf(a) /\ a \in Proven
             \/ how \in {"cancelled", "failure"}
      PROVE  PromiseStep
      <2>1. /\ \A b \in Attempts : OutcomeOf(b)' = OutcomeOf(b) /\ VerdictOf(b)' = VerdictOf(b)
            /\ \A b \in Attempts \ {a} : RowOf(b)' = RowOf(b)
            /\ RowOf(a) = "open" /\ RowOf(a)' = how
            BY <1>1 DEF SetBackend, OutcomeOf, RowOf, VerdictOf, PromiseInv, TypeInv, TypeOK, WorldTypeOK
      <2>2. UNCHANGED Proven
            BY <1>1, <2>1 DEF SetBackend, Proven
      <2>3. FateInv'
            BY <1>1, <2>2 DEF FateInv, PromiseInv, SetBackend, TypeInv, TypeOK, WorldTypeOK
      <2>4. /\ [b \in Attempts |-> RowOf(b)]' = [[b \in Attempts |-> RowOf(b)] EXCEPT ![a] = how]
            /\ [b \in Attempts |-> OutcomeOf(b)]' = [b \in Attempts |-> OutcomeOf(b)]
            /\ [b \in Attempts |-> VerdictOf(b)]' = [b \in Attempts |-> VerdictOf(b)]
            BY <2>1
      <2>5. CASE how = OutcomeOf(a) /\ a \in Proven /\ how # "cancelled"
            <3>1. Promise!Accept(a)
                  BY <2>1, <2>2, <2>4, <2>5 DEF Promise!Accept
            <3> QED BY <2>3, <3>1 DEF PromiseStep, Promise!Next
      <2>6. CASE how \in {"cancelled", "failure"}
            <3>1. Promise!End(a, how)
                  BY <2>1, <2>2, <2>4 DEF Promise!End
            <3> QED BY <2>3, <2>6, <3>1 DEF PromiseStep, Promise!Next
      <2> QED BY <1>1, <2>5, <2>6
<1>2. ASSUME NEW a \in Attempts, BackendStarts(a) PROVE PromiseStep
      <2>1. /\ \A b \in Attempts : /\ OutcomeOf(b)' = OutcomeOf(b) /\ RowOf(b)' = RowOf(b)
                                   /\ VerdictOf(b)' = VerdictOf(b)
            /\ Proven' = Proven
            BY <1>2 DEF BackendStarts, SetBackend, OutcomeOf, Proven, RowOf, VerdictOf, PromiseInv,
               TypeInv, TypeOK, WorldTypeOK
      <2>2. FateInv'
            BY <1>2, <2>1 DEF FateInv, PromiseInv, BackendStarts, SetBackend, TypeInv, TypeOK, WorldTypeOK
      <2> QED BY <2>1, <2>2 DEF PromiseStep, promised
<1>3. ASSUME NEW a \in Attempts, BackendCommits(a) PROVE PromiseStep
      <2>1. a \in Proven
            BY <1>3, SentIsProven DEF BackendCommits, PromiseInv, FateInv
      <2>2. \E how \in {"result", "failure"} : SetBackend(a, how) /\ how = OutcomeOf(a)
            BY <1>3 DEF BackendCommits, OutcomeOf
      <2>3. backend[a] \in {"dispatched", "running"}
            BY <1>3 DEF BackendCommits
      <2> QED BY <1>1, <2>1, <2>2, <2>3
<1>4. ASSUME NEW a \in Attempts, BackendEnds(a) PROVE PromiseStep
      BY <1>1, <1>4 DEF BackendEnds
<1>5. CASE Restart
      <2>1. \A b \in Attempts : /\ OutcomeOf(b)' = OutcomeOf(b) /\ RowOf(b)' = RowOf(b)
                                /\ VerdictOf(b)' = VerdictOf(b)
            BY <1>5 DEF Restart, OutcomeOf, RowOf, VerdictOf
      <2>2. Proven' = Proven
            BY <1>5, <2>1 DEF Restart, Proven
      <2>3. ambiguous' \subseteq Proven
            <3>1. \A a \in Attempts : "forwarding" \in {delivery[a], recovery[a]} => a \in Proven
                  BY SentIsProven
            <3>2. ambiguous \subseteq Proven
                  BY DEF PromiseInv, FateInv
            <3> QED BY <1>5, <3>1, <3>2 DEF Restart
      <2>4. FateInv'
            BY <1>5, <2>2, <2>3 DEF FateInv, PromiseInv, Restart
      <2> QED BY <2>1, <2>2, <2>4 DEF PromiseStep, promised
<1>6. ASSUME NEW s \in Attempts, NEW outcome \in {"clean", "unclean"}, NEW i \in Incarnations,
             \/ PodCommits(s) \/ PodRuns(s) \/ PodNeverStarts(s) \/ PodTerminates(s)
             \/ PodLost(s) \/ Seal(s, outcome) \/ WriterExits(s)
      PROVE  PromiseStep
      <2>1. UNCHANGED outcomeRecords
            BY <1>6 DEF outcomeRecords, PodCommits, PodRuns, PodNeverStarts, PodTerminates, PodLost,
               SetPod, Seal, WriterExits
      <2> QED BY <2>1, PromiseFrame DEF PromiseInv
<1>7. ASSUME NEW i \in Incarnations, ContainerTerminates(i) PROVE PromiseStep
      BY <1>7, PromiseFrame DEF outcomeRecords, ContainerTerminates, PromiseInv
<1>8. 0 \in Incarnations
      BY Identities
<1> QED BY <1>2, <1>3, <1>4, <1>5, <1>6, <1>7, <1>8 DEF ClusterNext

\* Claims, preparation, checkouts and session stops are stutters.
LEMMA PromiseElsewhere ==
    FateInv /\ (ReservationNext \/ TurnControlNext \/ SessionStopNext \/ UNCHANGED vars)
        => PromiseStep
BY OutcomesElsewhere, PromiseFrame

\* Every step of the controller, the cluster and the backend keeps it.
LEMMA PromiseNext == PromiseInv /\ [Next]_vars => PromiseStep
BY PromiseElsewhere, OutboxPromise, ClusterPromise DEF Next, PromiseInv

\* Requests of unknown fate were sent for proven outcomes, in every
\* behaviour (BeginForward, FinishForward, Store.Open).
THEOREM FateInvariant == Spec => []FateInv
<1>1. TypeInv /\ OutcomeInv /\ AcceptInv /\ FateInv /\ [Next]_vars => FateInv'
      BY PromiseNext DEF PromiseInv, PromiseStep
<1>2. Init => FateInv
      BY PromiseInit
<1> QED BY <1>1, <1>2, TypeInvariant, OutcomeInvariant, AcceptInvariant, PTL DEF Spec

\* The outbox implements the promise of OutcomeDelivery: in every order of
\* results, failures, requests, lost answers, cancellations and restarts the
\* backend takes at most one outcome of an attempt, a proven one, and only
\* an outcome that its row carries is called delivered.
THEOREM PromiseKept == Spec => OutcomesDelivered
<1>1. Init => Promise!Init
      BY PromiseInit
<1>2. TypeInv /\ OutcomeInv /\ AcceptInv /\ FateInv /\ [Next]_vars => [Promise!Next]_promised
      BY PromiseNext DEF PromiseInv, PromiseStep
<1> QED BY <1>1, <1>2, TypeInvariant, OutcomeInvariant, AcceptInvariant, FateInvariant, PTL
        DEF Spec, OutcomesDelivered, Promise!Spec, promised

-----------------------------------------------------------------------------
(***************************************************************************)
(* Who may write a root, for any number of attempts, sessions and          *)
(* restarts: a session closes only when its Pod and the controller's       *)
(* helpers ended, no two processes write one root for different sessions,  *)
(* and the cluster holds no more workers than there are slots.             *)
(***************************************************************************)

-----------------------------------------------------------------------------
(* Pods and the evidence that they ended.                                  *)

\* A Pod exists only after its create request was recorded, only a Pod that
\* was seen is bound, and evidence of an end, which only a stopped session
\* has, names what Kubernetes can no longer take back.
PodInv ==
    /\ \A s \in podRequested : SessionExists(s)
    /\ \A s \in Attempts : pod[s] # "none" => s \in podRequested
    /\ \A s \in podBound : pod[s] # "none"
    /\ \A s \in Attempts :
          /\ Closed(s) => evidence[s] # "none"
          /\ evidence[s] # "none" => s \in sessionStop
          /\ evidence[s] = "terminated" => pod[s] = "terminated"
          /\ evidence[s] = "never-started" => pod[s] = "neverStarted"
          /\ evidence[s] = "no-worker" => s \notin podRequested

podInvVars == <<podRequested, podBound, pod, evidence, sessionStop, sessionState>>

\* No Pod is requested at first.
LEMMA PodInit == Init => PodInv
BY DEF Init, PodInv, Closed

\* A transaction that touches none of these fields keeps the facts.
LEMMA PodFrame == PodInv /\ UNCHANGED podInvVars => PodInv'
BY DEF podInvVars, PodInv, Closed, SessionExists

\* Sessions move between states that are not final, or are stopped, without
\* a word about their Pod.
LEMMA PodKept ==
    ASSUME TypeInv, PodInv, UNCHANGED <<podRequested, podBound, pod, evidence>>,
           sessionStop \subseteq sessionStop',
           \A s \in Attempts : /\ SessionExists(s) => SessionExists(s)'
                               /\ Closed(s)' => evidence[s] # "none"
    PROVE  PodInv'
BY DEF PodInv, TypeInv, TypeOK, SessionTypeOK, SessionExists, Closed

\* Claims and reservations.
LEMMA ReservationPod == TypeInv /\ PodInv /\ ReservationNext => PodInv'
<1> SUFFICES ASSUME TypeInv, PodInv, ReservationNext PROVE PodInv'
    OBVIOUS
<1>1. ASSUME NEW a \in Attempts, NEW choice \in Tasks \cup {Fresh}, NEW reuse \in BOOLEAN,
             QueueClaim(a) \/ RecordSelection(a, choice, reuse)
      PROVE  PodInv'
      BY <1>1, PodFrame DEF QueueClaim, RecordSelection, podInvVars
<1>2. ASSUME NEW s \in Attempts, NEW st \in {"creating", "reserved", "draining"},
             sessionState' = [sessionState EXCEPT ![s] = st],
             UNCHANGED <<podRequested, podBound, pod, evidence>>, sessionStop \subseteq sessionStop'
      PROVE  PodInv'
      <2>1. \A r \in Attempts : /\ SessionExists(r) => SessionExists(r)'
                                /\ Closed(r)' => Closed(r)
            BY <1>2 DEF TypeInv, TypeOK, SessionTypeOK, SessionExists, Closed
      <2> QED BY <1>2, <2>1, PodKept DEF PodInv
<1>3. ASSUME NEW s \in Attempts, DrainIdle(s) PROVE PodInv'
      BY <1>2, <1>3 DEF DrainIdle, RecordStop
<1>4. ASSUME NEW a \in Attempts, DrainCurrent(a) PROVE PodInv'
      <2>1. currentSession[ConversationOf[TaskOf[a]]] \in Attempts
            BY <1>4, Identities DEF DrainCurrent, TypeInv, TypeOK, StorageTypeOK
      <2> QED BY <1>3, <1>4, <2>1 DEF DrainCurrent
<1>5. ASSUME NEW a \in Attempts, ReserveWarm(a) PROVE PodInv'
      <2>1. writer[selection[a]] \in Attempts
            BY <1>5, Identities DEF ReserveWarm, SelectedWarm, TypeInv, TypeOK, StorageTypeOK
      <2> QED BY <1>2, <1>5, <2>1 DEF ReserveWarm, Reserve
<1>6. ASSUME NEW a \in Attempts, NEW t \in Tasks, ReserveNew(a, t) PROVE PodInv'
      BY <1>2, <1>6 DEF ReserveNew, Reserve
<1> QED BY <1>1, <1>3, <1>4, <1>5, <1>6 DEF ReservationNext, DrainForCapacity, ExpireSession

\* A create request is recorded by a session that runs and is not stopped.
LEMMA TurnControlPod == TypeInv /\ LeaseInv /\ PodInv /\ TurnControlNext => PodInv'
<1> SUFFICES ASSUME TypeInv, LeaseInv, PodInv, TurnControlNext PROVE PodInv'
    OBVIOUS
<1>1. ASSUME NEW a \in Attempts, InterruptPreparation(a) PROVE PodInv'
      <2>1. \A r \in Attempts : /\ SessionExists(r) => SessionExists(r)'
                                /\ Closed(r)' => Closed(r)
            BY <1>1 DEF InterruptPreparation, DrainingState, TypeInv, TypeOK, GrantTypeOK,
                        SessionTypeOK, SessionExists, Closed
      <2> QED BY <1>1, <2>1, PodKept DEF InterruptPreparation, RecordStop, PodInv
<1>2. ASSUME NEW a \in Attempts, PublishTurn(a) \/ MarkStarted(a) PROVE PodInv'
      <2>1. PICK st \in {"reserved", "running"} :
                sessionState' = [sessionState EXCEPT ![workerSession[a]] = st]
            BY <1>2 DEF PublishTurn, MarkStarted
      <2>2. \A r \in Attempts : /\ SessionExists(r) => SessionExists(r)'
                                /\ Closed(r)' => Closed(r)
            BY <2>1 DEF TypeInv, TypeOK, GrantTypeOK, SessionTypeOK, SessionExists, Closed
      <2> QED BY <1>2, <2>2, PodKept DEF PublishTurn, MarkStarted, GrantStep, PodInv
<1>3. ASSUME NEW s \in Attempts, SetSessionResources(s) PROVE PodInv'
      <2>1. SessionExists(s) /\ evidence[s] = "none"
            BY <1>3 DEF SetSessionResources, LeaseInv, TurnOwnership, PodInv
      <2> QED BY <1>3, <2>1 DEF SetSessionResources, PodInv, SessionExists, Closed
<1>4. ASSUME NEW s \in Attempts, BindSessionPod(s) PROVE PodInv'
      BY <1>4 DEF BindSessionPod, PodInv, SessionExists, Closed
<1>5. ASSUME NEW a \in Attempts, NEW prepared \in BOOLEAN,
             \/ BeginPreparation(a) \/ CheckpointPreparation(a)
             \/ CompletePreparation(a, prepared) \/ AcceptTurn(a)
             \/ Admit(a) \/ Offer(a) \/ BeginStart(a)
             \/ BeginCheckout(a) \/ CompleteCheckout(a) \/ CloseCheckouts(a)
             \/ CheckoutsFlushed(a) \/ AdmitSession(a)
      PROVE  PodInv'
      <2>1. UNCHANGED podInvVars
            BY <1>5 DEF podInvVars, BeginPreparation, CheckpointPreparation, CompletePreparation,
               AcceptTurn, Admit, Offer, BeginStart, GrantStep, BeginCheckout,
               CompleteCheckout, CloseCheckouts, CheckoutsFlushed, AdmitSession
      <2> QED BY <2>1, PodFrame
<1> QED BY <1>1, <1>2, <1>3, <1>4, <1>5 DEF TurnControlNext

\* Results, failures and the completion of turns do not touch Pods.
LEMMA OutboxPod == TypeInv /\ PodInv /\ OutboxNext => PodInv'
<1> SUFFICES ASSUME TypeInv, PodInv, OutboxNext PROVE PodInv'
    OBVIOUS
<1>1. ASSUME NEW s \in Attempts, NEW st \in {"finishing", "idle", DrainingState(s)},
             sessionState' = [sessionState EXCEPT ![s] = st],
             UNCHANGED <<podRequested, podBound, pod, evidence>>, sessionStop \subseteq sessionStop'
      PROVE  PodInv'
      <2>1. \A r \in Attempts : /\ SessionExists(r) => SessionExists(r)'
                                /\ Closed(r)' => Closed(r)
            BY <1>1 DEF TypeInv, TypeOK, SessionTypeOK, SessionExists, Closed, DrainingState
      <2> QED BY <1>1, <2>1, PodKept DEF PodInv
<1>2. ASSUME NEW a \in Attempts, NEW k \in ResultKinds \cup {"cancel-ack"},
             ReceiveTerminal(a, k) \/ RecordTurnExecutionReceipt(a)
      PROVE  PodInv'
      <2>1. CASE sessionState' = sessionState
            BY <1>2, <2>1, PodFrame DEF ReceiveTerminal, RecordTurnExecutionReceipt, podInvVars
      <2>2. CASE sessionState' = [sessionState EXCEPT ![workerSession[a]] = "finishing"]
            <3>1. workerSession[a] \in Attempts
                  BY <1>2 DEF ReceiveTerminal, RecordTurnExecutionReceipt, WorkerHeard, TypeInv,
                              TypeOK, GrantTypeOK
            <3> QED BY <1>1, <1>2, <2>2, <3>1 DEF ReceiveTerminal, RecordTurnExecutionReceipt
      <2> QED BY <1>2, <2>1, <2>2 DEF ReceiveTerminal, RecordTurnExecutionReceipt
<1>3. ASSUME NEW a \in Attempts, ReceiveFailure(a) PROVE PodInv'
      <2>1. RecordFailure(a)
            BY <1>3 DEF ReceiveFailure
      <2>2. CASE QuarantineTurn(a, workerSession[a])
            <3>1. workerSession[a] \in Attempts
                  BY <2>2 DEF QuarantineTurn, TypeInv, TypeOK, GrantTypeOK
            <3> QED BY <1>1, <2>1, <2>2, <3>1 DEF RecordFailure, QuarantineTurn, RecordStop
      <2>3. CASE LeaveUnexecuted(a)
            BY <2>1, <2>3, PodFrame DEF RecordFailure, LeaveUnexecuted, podInvVars
      <2> QED BY <1>3, <2>2, <2>3 DEF ReceiveFailure
<1>4. ASSUME NEW a \in Attempts, NEW keep \in BOOLEAN, CompleteTurn(a, keep) PROVE PodInv'
      <2>1. /\ workerSession[a] \in Attempts /\ UNCHANGED <<podRequested, podBound, pod>>
            BY <1>4 DEF CompleteTurn, SettleTurn, TypeInv, TypeOK, GrantTypeOK
      <2> QED BY <1>1, <1>4, <2>1 DEF CompleteTurn, RetainSession, ReleaseSession, RecordStop
<1>5. ASSUME NEW a \in Attempts, NEW outcome \in Outcomes,
             \/ RecordResultReceipt(a) \/ RecordRecoveryFailure(a)
             \/ BeginForward(a) \/ RejectTerminal(a) \/ FinishForward(a, outcome)
             \/ FinishRecoveryForward(a, outcome) \/ RecordCompletionWitness(a)
             \/ BeginFailureForward(a) \/ RejectFailure(a)
             \/ BeginRecoveryForward(a) \/ RejectRecoveryFailure(a)
             \/ RecoverClosedCheckpoint(a)
      PROVE  PodInv'
      <2>1. UNCHANGED podInvVars
            BY <1>5 DEF podInvVars, RecordResultReceipt, RecordRecoveryFailure, BeginForward,
               RejectTerminal, FinishForward, FinishRecoveryForward, RecordCompletionWitness,
               BeginFailureForward, RejectFailure, BeginRecoveryForward,
               RejectRecoveryFailure, RecoverClosedCheckpoint, OutboxStep
      <2> QED BY <2>1, PodFrame
<1>6. "received" \in Outcomes
      BY DEF Outcomes
<1> QED BY <1>2, <1>3, <1>4, <1>5, <1>6 DEF OutboxNext

\* Evidence is what Kubernetes reports of the Pod, and a session closes on it.
LEMMA SessionStopPod == TypeInv /\ LeaseInv /\ PodInv /\ SessionStopNext => PodInv'
<1> SUFFICES ASSUME TypeInv, LeaseInv, PodInv, SessionStopNext PROVE PodInv'
    OBVIOUS
<1>1. ASSUME NEW s \in Attempts, NEW st \in {"quarantined", DrainingState(s)},
             SessionExists(s), sessionState' = [sessionState EXCEPT ![s] = st],
             UNCHANGED <<podRequested, podBound, pod, evidence>>, sessionStop \subseteq sessionStop'
      PROVE  PodInv'
      <2>1. \A r \in Attempts : /\ SessionExists(r) => SessionExists(r)'
                                /\ Closed(r)' => Closed(r)
            BY <1>1 DEF TypeInv, TypeOK, SessionTypeOK, SessionExists, Closed, DrainingState
      <2> QED BY <1>1, <2>1, PodKept DEF PodInv
<1>2. ASSUME NEW s \in Attempts, RequestSessionStop(s) \/ QuarantineSession(s) PROVE PodInv'
      BY <1>1, <1>2 DEF RequestSessionStop, StopSession, QuarantineSession, RecordStop
<1>3. ASSUME NEW a \in Attempts, RequestStop(a) PROVE PodInv'
      <2>1. CASE workerSession[a] = None
            BY <1>3, <2>1, PodFrame DEF RequestStop, podInvVars
      <2>2. CASE workerSession[a] # None
            <3>1. workerSession[a] \in Attempts /\ SessionExists(workerSession[a])
                  BY <2>2 DEF TypeInv, TypeOK, GrantTypeOK, Bindings
            <3> QED BY <1>1, <1>3, <2>2, <3>1 DEF RequestStop, RecordStop
      <2> QED BY <2>1, <2>2
<1>4. ASSUME NEW s \in Attempts, ObserveSessionStop(s) PROVE PodInv'
      <2>1. /\ ObservedEnd(s) = "terminated" => pod[s] = "terminated"
            /\ ObservedEnd(s) = "never-started" => pod[s] = "neverStarted"
            /\ ObservedEnd(s) = "no-worker" => s \notin podRequested
            BY <1>4 DEF ObservedEnd, ObserveSessionStop
      <2>2. /\ evidence' = [evidence EXCEPT ![s] = ObservedEnd(s)] /\ s \in sessionStop
            /\ sessionState[s] # "closed"
            /\ UNCHANGED <<podRequested, podBound, pod, sessionStop, sessionState>>
            BY <1>4 DEF ObserveSessionStop
      <2> QED BY <2>1, <2>2 DEF PodInv, TypeInv, TypeOK, SessionTypeOK, SessionExists, Closed
<1>5. ASSUME NEW s \in Attempts, CloseSession(s) PROVE PodInv'
      <2>1. /\ evidence[s] # "none"
            /\ sessionState' = [sessionState EXCEPT ![s] = "closed"]
            /\ UNCHANGED <<podRequested, podBound, pod, evidence, sessionStop>>
            BY <1>5 DEF CloseSession, EvidenceHolds
      <2> QED BY <2>1 DEF PodInv, TypeInv, TypeOK, SessionTypeOK, SessionExists, Closed
<1>6. ASSUME NEW s \in Attempts,
             \/ RecordSessionControllerFlush(s) \/ RecordSessionStopReceipt(s)
             \/ MarkSessionCleaned(s) \/ CloseStopped(s) \/ MarkCleaned(s)
      PROVE  PodInv'
      <2>1. UNCHANGED podInvVars
            BY <1>6 DEF podInvVars, RecordSessionControllerFlush, RecordSessionStopReceipt,
               MarkSessionCleaned, CloseStopped, MarkCleaned
      <2> QED BY <2>1, PodFrame
<1> QED BY <1>2, <1>3, <1>4, <1>5, <1>6 DEF SessionStopNext

\* A Pod appears only on request, and one that ended stays ended.
LEMMA ClusterPod == TypeInv /\ PodInv /\ ClusterNext => PodInv'
<1> SUFFICES ASSUME TypeInv, PodInv, ClusterNext PROVE PodInv'
    OBVIOUS
<1>1. ASSUME NEW s \in Attempts, NEW p \in {"created", "running", "terminated", "neverStarted", "lost"},
             pod[s] \notin {"terminated", "neverStarted"}, s \in podRequested, SetPod(s, p)
      PROVE  PodInv'
      BY <1>1 DEF SetPod, PodInv, TypeInv, TypeOK, WorldTypeOK, SessionTypeOK, SessionExists, Closed
<1>2. ASSUME NEW s \in Attempts,
             \/ PodCommits(s) \/ PodRuns(s) \/ PodNeverStarts(s) \/ PodTerminates(s) \/ PodLost(s)
      PROVE  PodInv'
      <2>1. s \in podRequested /\ pod[s] \notin {"terminated", "neverStarted"}
            BY <1>2 DEF PodInv, PodCommits, PodRuns, PodNeverStarts, PodTerminates, PodLost
      <2> QED BY <1>1, <1>2, <2>1 DEF PodCommits, PodRuns, PodNeverStarts, PodTerminates, PodLost
<1>3. ASSUME NEW a \in Attempts, NEW outcome \in {"clean", "unclean"}, NEW i \in Incarnations,
             \/ Seal(a, outcome) \/ WriterExits(a) \/ BackendStarts(a) \/ BackendCommits(a)
             \/ BackendEnds(a) \/ Restart \/ ContainerTerminates(i)
      PROVE  PodInv'
      <2>1. UNCHANGED podInvVars
            BY <1>3 DEF podInvVars, Seal, WriterExits, BackendStarts, BackendCommits, BackendEnds,
               SetBackend, Restart, ContainerTerminates
      <2> QED BY <2>1, PodFrame
<1>4. CASE Restart
      BY <1>4, PodFrame DEF Restart, podInvVars
<1>5. ASSUME NEW i \in Incarnations, ContainerTerminates(i) PROVE PodInv'
      BY <1>5, PodFrame DEF ContainerTerminates, podInvVars
<1>6. 0 \in Incarnations
      BY Identities
<1> QED BY <1>2, <1>3, <1>4, <1>5, <1>6 DEF ClusterNext

\* Every step keeps the facts about Pods.
LEMMA PodStep == TypeInv /\ LeaseInv /\ PodInv /\ [Next]_vars => PodInv'
<1>1. PodInv /\ UNCHANGED vars => PodInv'
      BY PodFrame DEF podInvVars
<1> QED BY <1>1, ReservationPod, TurnControlPod, OutboxPod, SessionStopPod, ClusterPod DEF Next

-----------------------------------------------------------------------------
(* The controller's own writers.                                           *)

\* A helper that runs is recorded, in a container that is not proven gone,
\* and its grant is the turn its session runs.
Owned(a) == workerSession[a] # None /\ active[workerSession[a]] = a

HelperInv ==
    /\ gone \subseteq 1 .. incarnation - 1
    /\ \A a \in prepWriter : prep[a] = "running" /\ prepBy[a] \notin gone
    /\ \A a \in checkoutWriter : checkoutBy[a] # 0 /\ checkoutBy[a] \notin gone
    /\ \A a \in Attempts : prep[a] = "running" \/ checkoutBy[a] # 0 => Owned(a)

helperVars == <<gone, incarnation, prepWriter, prep, prepBy, checkoutWriter, checkoutBy>>
helperInvVars == <<helperVars, workerSession, active>>

\* No helper runs at first.
LEMMA HelperInit == Init => HelperInv
BY DEF Init, HelperInv

\* A transaction that leaves helpers alone may only end turns without one.
LEMMA HelperKept ==
    ASSUME HelperInv, UNCHANGED helperVars,
           \A a \in Attempts : (prep[a] = "running" \/ checkoutBy[a] # 0) /\ Owned(a) => Owned(a)'
    PROVE  HelperInv'
BY DEF HelperInv, helperVars

\* A step that leaves the helpers and their grants alone keeps their facts.
LEMMA HelperFrame == HelperInv /\ UNCHANGED helperInvVars => HelperInv'
BY DEF HelperInv, helperVars, helperInvVars, Owned

\* A reservation takes a session without a turn.
LEMMA ReservationHelper == TypeInv /\ LeaseInv /\ HelperInv /\ ReservationNext => HelperInv'
<1> SUFFICES ASSUME TypeInv, LeaseInv, HelperInv, ReservationNext PROVE HelperInv'
    OBVIOUS
<1>1. ASSUME NEW a \in Attempts, NEW s \in Attempts, NEW t \in Tasks,
             workerSession[a] = None, active[s] = None, Reserve(a, s, t)
      PROVE  HelperInv'
      <2>1. \A b \in Attempts : Owned(b) => Owned(b)'
            BY <1>1, Identities DEF Owned, Reserve, TypeInv, TypeOK, GrantTypeOK, SessionTypeOK
      <2> QED BY <1>1, <2>1, HelperKept DEF Reserve, helperVars
<1>2. ASSUME NEW a \in Attempts, ReserveWarm(a) PROVE HelperInv'
      <2>1. /\ selection[a] \in Tasks /\ writer[selection[a]] \in Attempts
            /\ workerSession[a] = None /\ active[writer[selection[a]]] = None
            BY <1>2, Identities DEF ReserveWarm, Reservable, SelectedWarm, WarmSession, TypeInv,
               TypeOK, StorageTypeOK
      <2> QED BY <1>1, <1>2, <2>1 DEF ReserveWarm
<1>3. ASSUME NEW a \in Attempts, NEW t \in Tasks, ReserveNew(a, t) PROVE HelperInv'
      <2>1. workerSession[a] = None /\ ~ SessionExists(a)
            BY <1>3, Identities DEF ReserveNew, Reservable, TypeInv, Bindings
      <2>2. active[a] = None
            BY <2>1 DEF LeaseInv, TurnOwnership
      <2> QED BY <1>1, <1>3, <2>1, <2>2 DEF ReserveNew
<1>4. ASSUME NEW a \in Attempts, NEW s \in Attempts \cup {None}, NEW choice \in Tasks \cup {Fresh},
             NEW reuse \in BOOLEAN,
             QueueClaim(a) \/ RecordSelection(a, choice, reuse) \/ DrainIdle(s)
      PROVE  HelperInv'
      BY <1>4, HelperFrame DEF QueueClaim, RecordSelection, DrainIdle, helperInvVars, helperVars
<1>5. ASSUME NEW a \in Attempts, DrainCurrent(a) PROVE HelperInv'
      BY <1>5, HelperFrame DEF DrainCurrent, DrainIdle, helperInvVars, helperVars
<1> QED BY <1>2, <1>3, <1>4, <1>5 DEF ReservationNext, DrainForCapacity, ExpireSession

\* Only the container that started a helper, or the proof that it is gone,
\* records its end.
LEMMA TurnControlHelper == TypeInv /\ LeaseInv /\ HelperInv /\ TurnControlNext => HelperInv'
<1> SUFFICES ASSUME TypeInv, LeaseInv, HelperInv, TurnControlNext PROVE HelperInv'
    OBVIOUS
<1> USE DEF HelperInv, Owned
<1>1. incarnation \in Nat \ {0} /\ incarnation \notin gone /\ Attempts \subseteq DOMAIN prep
      BY DEF TypeInv, TypeOK, GrantTypeOK, WorldTypeOK, Incarnations
<1>2. /\ prep \in [Attempts -> {"none", "running", "stopped", "prepared"}]
      /\ prepBy \in [Attempts -> Incarnations] /\ checkoutBy \in [Attempts -> Incarnations]
      /\ prepWriter \subseteq Attempts /\ checkoutWriter \subseteq Attempts
      BY DEF TypeInv, TypeOK, GrantTypeOK, WorldTypeOK
<1>3. ASSUME NEW a \in Attempts, BeginPreparation(a) PROVE HelperInv'
      BY <1>1, <1>2, <1>3 DEF BeginPreparation, CurrentSessionTurn
<1>4. ASSUME NEW a \in Attempts, NEW prepared \in BOOLEAN,
             CompletePreparation(a, prepared) \/ InterruptPreparation(a)
      PROVE  HelperInv'
      <2>1. /\ a \notin prepWriter
            /\ UNCHANGED <<gone, incarnation, prepWriter, prepBy, checkoutWriter, checkoutBy,
                           workerSession, active>>
            BY <1>4 DEF CompletePreparation, InterruptPreparation, ContainerGone
      <2>2. PICK p \in {"prepared", "stopped"} : prep' = [prep EXCEPT ![a] = p]
            BY <1>4 DEF CompletePreparation, InterruptPreparation
      <2> QED BY <1>2, <2>1, <2>2
<1>5. ASSUME NEW a \in Attempts, BeginCheckout(a) PROVE HelperInv'
      <2>1. workerSession[a] # None /\ active[workerSession[a]] = a
            BY <1>5 DEF BeginCheckout, TypeInv, Bindings, LeaseInv, TurnOwnership
      <2> QED BY <1>1, <1>2, <1>5, <2>1 DEF BeginCheckout
<1>6. ASSUME NEW a \in Attempts, CompleteCheckout(a) PROVE HelperInv'
      <2>1. a \notin checkoutWriter
            BY <1>6 DEF CompleteCheckout, ContainerGone
      <2> QED BY <1>2, <1>6, <2>1 DEF CompleteCheckout
<1>7. ASSUME NEW a \in Attempts,
             \/ CheckpointPreparation(a) \/ PublishTurn(a) \/ AcceptTurn(a) \/ Admit(a)
             \/ Offer(a) \/ BeginStart(a) \/ MarkStarted(a) \/ CloseCheckouts(a)
             \/ CheckoutsFlushed(a) \/ SetSessionResources(a) \/ BindSessionPod(a)
             \/ AdmitSession(a)
      PROVE  HelperInv'
      <2>1. UNCHANGED helperInvVars
            BY <1>7 DEF helperInvVars, helperVars, CheckpointPreparation, PublishTurn, AcceptTurn,
               Admit, Offer, BeginStart, MarkStarted, GrantStep, CloseCheckouts,
               CheckoutsFlushed, SetSessionResources, BindSessionPod, AdmitSession
      <2> QED BY <2>1, HelperFrame
<1> HIDE DEF HelperInv, Owned
<1> QED BY <1>3, <1>4, <1>5, <1>6, <1>7 DEF TurnControlNext

\* A turn completes only when its helpers are fenced.
LEMMA OutboxHelper == TypeInv /\ HelperInv /\ OutboxNext => HelperInv'
<1> SUFFICES ASSUME TypeInv, HelperInv, OutboxNext PROVE HelperInv'
    OBVIOUS
<1>1. ASSUME NEW a \in Attempts, NEW keep \in BOOLEAN, CompleteTurn(a, keep) PROVE HelperInv'
      <2>1. /\ prep[a] # "running" /\ checkoutBy[a] = 0 /\ active[workerSession[a]] = a
            /\ active' = [active EXCEPT ![workerSession[a]] = None]
            /\ UNCHANGED <<helperVars, workerSession>>
            BY <1>1 DEF CompleteTurn, SettleTurn, EndTurn, TurnWritersFenced, CheckoutFenced,
               PreparationSettled, helperVars
      <2>2. \A b \in Attempts \ {a} : Owned(b) => Owned(b)'
            BY <2>1 DEF Owned, TypeInv, TypeOK, GrantTypeOK, SessionTypeOK
      <2> QED BY <2>1, <2>2, HelperKept
<1>2. ASSUME NEW a \in Attempts, NEW outcome \in Outcomes, NEW k \in ResultKinds \cup {"cancel-ack"},
             \/ ReceiveTerminal(a, k) \/ RecordTurnExecutionReceipt(a) \/ ReceiveFailure(a)
             \/ RecordResultReceipt(a) \/ RecordRecoveryFailure(a)
             \/ BeginForward(a) \/ RejectTerminal(a) \/ FinishForward(a, outcome)
             \/ FinishRecoveryForward(a, outcome) \/ RecordCompletionWitness(a)
             \/ BeginFailureForward(a) \/ RejectFailure(a)
             \/ BeginRecoveryForward(a) \/ RejectRecoveryFailure(a)
             \/ RecoverClosedCheckpoint(a)
      PROVE  HelperInv'
      <2>1. UNCHANGED helperInvVars
            BY <1>2 DEF helperInvVars, helperVars, ReceiveTerminal, RecordTurnExecutionReceipt,
               ReceiveFailure, RecordFailure, RecordResultReceipt, RecordRecoveryFailure,
               BeginForward, RejectTerminal, FinishForward, FinishRecoveryForward,
               RecordCompletionWitness, BeginFailureForward, RejectFailure,
               BeginRecoveryForward, RejectRecoveryFailure, RecoverClosedCheckpoint, OutboxStep
      <2> QED BY <2>1, HelperFrame
<1>3. "received" \in Outcomes
      BY DEF Outcomes
<1> QED BY <1>1, <1>2, <1>3 DEF OutboxNext

\* So does a session: the evidence of its end covers its last turn's helpers.
LEMMA SessionStopHelper == TypeInv /\ HelperInv /\ SessionStopNext => HelperInv'
<1> SUFFICES ASSUME TypeInv, HelperInv, SessionStopNext PROVE HelperInv'
    OBVIOUS
<1>1. ASSUME NEW s \in Attempts, CloseSession(s) PROVE HelperInv'
      <2>1. /\ active' = [active EXCEPT ![s] = None] /\ UNCHANGED <<helperVars, workerSession>>
            /\ active[s] # None => prep[active[s]] # "running" /\ checkoutBy[active[s]] = 0
            BY <1>1 DEF CloseSession, EvidenceHolds, ValidSessionStopEvidence, StopTurn,
               PreparationSettled, helperVars
      <2>2. \A b \in Attempts : Owned(b) /\ b # active[s] => Owned(b)'
            BY <2>1 DEF Owned, TypeInv, TypeOK, GrantTypeOK, SessionTypeOK
      <2>3. \A b \in Attempts : b = active[s] => b # None
            BY Identities
      <2> QED BY <2>1, <2>2, <2>3, HelperKept
<1>2. ASSUME NEW s \in Attempts,
             \/ RequestSessionStop(s) \/ QuarantineSession(s) \/ RequestStop(s)
             \/ RecordSessionControllerFlush(s) \/ RecordSessionStopReceipt(s)
             \/ ObserveSessionStop(s) \/ MarkSessionCleaned(s) \/ CloseStopped(s)
             \/ MarkCleaned(s)
      PROVE  HelperInv'
      <2>1. UNCHANGED helperInvVars
            BY <1>2 DEF helperInvVars, helperVars, RequestSessionStop, QuarantineSession, RequestStop,
               RecordSessionControllerFlush, RecordSessionStopReceipt, ObserveSessionStop,
               MarkSessionCleaned, CloseStopped, MarkCleaned
      <2> QED BY <2>1, HelperFrame
<1> QED BY <1>1, <1>2 DEF SessionStopNext

\* A container that terminates takes its helpers with it; the one that runs is
\* never proven gone.
LEMMA ClusterHelper == TypeInv /\ HelperInv /\ ClusterNext => HelperInv'
<1> SUFFICES ASSUME TypeInv, HelperInv, ClusterNext PROVE HelperInv'
    OBVIOUS
<1>1. incarnation \in Nat \ {0}
      BY DEF TypeInv, TypeOK, WorldTypeOK, Incarnations
<1>2. CASE Restart
      BY <1>1, <1>2 DEF Restart, HelperInv, Owned
<1>3. ASSUME NEW i \in Incarnations, ContainerTerminates(i) PROVE HelperInv'
      BY <1>3 DEF ContainerTerminates, HelperInv, Owned
<1>4. ASSUME NEW a \in Attempts, WriterExits(a) PROVE HelperInv'
      BY <1>4 DEF WriterExits, HelperInv, Owned
<1>5. ASSUME NEW a \in Attempts, NEW outcome \in {"clean", "unclean"},
             \/ PodCommits(a) \/ PodRuns(a) \/ PodNeverStarts(a) \/ PodTerminates(a)
             \/ PodLost(a) \/ Seal(a, outcome) \/ BackendStarts(a) \/ BackendCommits(a)
             \/ BackendEnds(a)
      PROVE  HelperInv'
      <2>1. UNCHANGED helperInvVars
            BY <1>5 DEF helperInvVars, helperVars, PodCommits, PodRuns, PodNeverStarts,
               PodTerminates, PodLost, SetPod, Seal, BackendStarts, BackendCommits,
               BackendEnds, SetBackend
      <2> QED BY <2>1, HelperFrame
<1> QED BY <1>2, <1>3, <1>4, <1>5 DEF ClusterNext

\* Every step keeps the facts about helpers.
LEMMA HelperStep == TypeInv /\ LeaseInv /\ HelperInv /\ [Next]_vars => HelperInv'
<1>1. HelperInv /\ UNCHANGED vars => HelperInv'
      BY HelperFrame DEF helperInvVars, helperVars
<1> QED BY <1>1, ReservationHelper, TurnControlHelper, OutboxHelper, SessionStopHelper,
           ClusterHelper DEF Next

-----------------------------------------------------------------------------
(* Roots, sessions and turns.                                              *)

\* A turn writes the root of its session, a leased root was last taken by a
\* turn of its session, and the last turn of a root names it.
RootInv ==
    /\ \A a \in Attempts : workerSession[a] # None => storageOf[workerSession[a]] = storageOf[a]
    /\ \A t \in Tasks : writer[t] # None => latest[t] # None /\ workerSession[latest[t]] = writer[t]
    /\ \A t \in Tasks : latest[t] # None => storageOf[latest[t]] = t /\ workerSession[latest[t]] # None

rootVars == <<workerSession, storageOf, writer, latest>>

\* No root exists at first.
LEMMA RootInit == Init => RootInv
BY DEF Init, RootInv

\* A step that leaves roots and turns alone keeps their facts.
LEMMA RootFrame == RootInv /\ UNCHANGED rootVars => RootInv'
BY DEF RootInv, rootVars

\* A new turn takes the root of its session.
LEMMA ReservationRoot == TypeInv /\ LeaseInv /\ RootInv /\ ReservationNext => RootInv'
<1> SUFFICES ASSUME TypeInv, LeaseInv, RootInv, ReservationNext PROVE RootInv'
    OBVIOUS
<1> USE Identities DEF TypeInv, TypeOK, GrantTypeOK, SessionTypeOK, StorageTypeOK
<1>1. ASSUME NEW a \in Attempts, NEW s \in Attempts, NEW t \in Tasks,
             workerSession[a] = None, s # a => storageOf[s] = t, Reserve(a, s, t)
      PROVE  RootInv'
      <2>1. \A b \in Attempts : workerSession[b] # a
            BY <1>1 DEF Bindings
      <2>2. \A u \in Tasks : latest[u] # a
            BY <1>1 DEF RootInv
      <2>3. /\ workerSession' = [workerSession EXCEPT ![a] = s]
            /\ storageOf' = [storageOf EXCEPT ![a] = t]
            /\ writer' = [writer EXCEPT ![t] = s] /\ latest' = [latest EXCEPT ![t] = a]
            BY <1>1 DEF Reserve, TakeRoot
      <2> QED BY <1>1, <2>1, <2>2, <2>3 DEF RootInv
<1>2. ASSUME NEW a \in Attempts, ReserveWarm(a) PROVE RootInv'
      <2>1. /\ selection[a] \in Tasks /\ writer[selection[a]] \in Attempts
            /\ workerSession[a] = None /\ storageOf[writer[selection[a]]] = selection[a]
            BY <1>2 DEF ReserveWarm, Reservable, SelectedWarm, WarmSession
      <2> QED BY <1>1, <1>2, <2>1 DEF ReserveWarm
<1>3. ASSUME NEW a \in Attempts, NEW t \in Tasks, ReserveNew(a, t) PROVE RootInv'
      BY <1>1, <1>3 DEF ReserveNew, Reservable
<1>4. ASSUME NEW a \in Attempts, NEW choice \in Tasks \cup {Fresh},
             NEW reuse \in BOOLEAN, QueueClaim(a) \/ RecordSelection(a, choice, reuse)
      PROVE  RootInv'
      BY <1>4, RootFrame DEF QueueClaim, RecordSelection, rootVars
<1>5. ASSUME NEW s, DrainIdle(s) PROVE RootInv'
      BY <1>5, RootFrame DEF DrainIdle, rootVars
<1> HIDE DEF TypeInv
<1> QED BY <1>2, <1>3, <1>4, <1>5
        DEF ReservationNext, DrainCurrent, DrainForCapacity, ExpireSession

\* Nothing else names a root, and CloseSession only lets it go.
LEMMA RootStep == TypeInv /\ LeaseInv /\ RootInv /\ [Next]_vars => RootInv'
<1> SUFFICES ASSUME TypeInv, LeaseInv, RootInv, [Next]_vars PROVE RootInv'
    OBVIOUS
<1>1. CASE UNCHANGED vars
      BY <1>1, RootFrame DEF rootVars
<1>2. CASE TurnControlNext
      <2>1. UNCHANGED rootVars
            BY <1>2 DEF TurnControlNext, rootVars, BeginPreparation, CheckpointPreparation,
               CompletePreparation, InterruptPreparation, PublishTurn, AcceptTurn, Admit,
               Offer, BeginStart, MarkStarted, GrantStep, BeginCheckout, CompleteCheckout,
               CloseCheckouts, CheckoutsFlushed, SetSessionResources, BindSessionPod,
               AdmitSession
      <2> QED BY <2>1, RootFrame
<1>3. CASE OutboxNext
      <2>1. UNCHANGED rootVars
            BY <1>3 DEF OutboxNext, rootVars, ReceiveTerminal, RecordTurnExecutionReceipt,
               ReceiveFailure, RecordFailure, RecordResultReceipt, RecordRecoveryFailure,
               BeginForward, RejectTerminal, FinishForward, FinishRecoveryForward,
               RecordCompletionWitness, BeginFailureForward, RejectFailure,
               BeginRecoveryForward, RejectRecoveryFailure, RecoverClosedCheckpoint, OutboxStep,
               CompleteTurn, SettleTurn
      <2> QED BY <2>1, RootFrame
<1>4. ASSUME NEW s \in Attempts, CloseSession(s) PROVE RootInv'
      <2>1. /\ writer' = [writer EXCEPT ![storageOf[s]] = None]
            /\ UNCHANGED <<workerSession, storageOf, latest>>
            BY <1>4 DEF CloseSession
      <2> QED BY <2>1 DEF RootInv, TypeInv, TypeOK, StorageTypeOK
<1>5. ASSUME NEW s \in Attempts,
             \/ RequestSessionStop(s) \/ QuarantineSession(s) \/ RequestStop(s)
             \/ RecordSessionControllerFlush(s) \/ RecordSessionStopReceipt(s)
             \/ ObserveSessionStop(s) \/ MarkSessionCleaned(s) \/ CloseStopped(s)
             \/ MarkCleaned(s)
      PROVE  RootInv'
      <2>1. UNCHANGED rootVars
            BY <1>5 DEF rootVars, RequestSessionStop, QuarantineSession, RequestStop,
               RecordSessionControllerFlush, RecordSessionStopReceipt, ObserveSessionStop,
               MarkSessionCleaned, CloseStopped, MarkCleaned
      <2> QED BY <2>1, RootFrame
<1>6. CASE ClusterNext
      <2>1. UNCHANGED rootVars
            BY <1>6 DEF ClusterNext, rootVars, PodCommits, PodRuns, PodNeverStarts, PodTerminates,
               PodLost, SetPod, Seal, WriterExits, BackendStarts, BackendCommits, BackendEnds,
               SetBackend, Restart, ContainerTerminates
      <2> QED BY <2>1, RootFrame
<1> QED BY <1>1, <1>2, <1>3, <1>4, <1>5, <1>6, ReservationRoot DEF Next, SessionStopNext

\* The three inductive invariants at once, with what they rest on.
WriterInv == PodInv /\ HelperInv /\ RootInv

\* Pods, helpers and roots keep to the sessions that own them, in every order of
\* reservations, stops, lost Pods and restarts of the controller (ReserveTurn,
\* ObserveSessionStop, CompletePreparation, CompleteCheckout, CloseSession).
THEOREM WriterInvariant == Spec => []WriterInv
<1>1. Init => WriterInv
      BY PodInit, HelperInit, RootInit DEF WriterInv
<1>2. TypeInv /\ LeaseInv /\ WriterInv /\ [Next]_vars => WriterInv'
      BY PodStep, HelperStep, RootStep DEF WriterInv
<1> QED BY <1>1, <1>2, TypeInvariant, LeaseInvariant, PTL DEF Spec

-----------------------------------------------------------------------------
(* What follows.                                                           *)

\* Whatever may write a root belongs to the open session that holds its
\* lease: a Pod that may run, and a helper of the session's turn.
LEMMA WritersHoldLease ==
    ASSUME TypeInv, LeaseInv, WriterInv
    PROVE  /\ \A s \in Attempts : MayWrite(s) =>
                 /\ SessionExists(s) /\ ~ Closed(s)
                 /\ storageOf[s] \in Tasks /\ writer[storageOf[s]] = s
           /\ \A a \in ControllerWriters :
                 /\ a \in Attempts /\ workerSession[a] \in Attempts /\ active[workerSession[a]] = a
                 /\ SessionExists(workerSession[a]) /\ ~ Closed(workerSession[a])
                 /\ storageOf[a] \in Tasks /\ writer[storageOf[a]] = workerSession[a]
<1> USE Identities DEF TypeInv, TypeOK, GrantTypeOK, SessionTypeOK, WorldTypeOK
<1>1. ASSUME NEW s \in Attempts, SessionExists(s), ~ Closed(s)
      PROVE  storageOf[s] \in Tasks /\ writer[storageOf[s]] = s
      BY <1>1 DEF LeaseInv, LeaseAgreement
<1>2. ASSUME NEW s \in Attempts, MayWrite(s) PROVE SessionExists(s) /\ ~ Closed(s)
      BY <1>2 DEF MayWrite, WriterInv, PodInv
<1>3. ASSUME NEW a \in ControllerWriters
      PROVE  /\ a \in Attempts /\ workerSession[a] \in Attempts /\ active[workerSession[a]] = a
             /\ storageOf[workerSession[a]] = storageOf[a]
             /\ SessionExists(workerSession[a]) /\ ~ Closed(workerSession[a])
      <2>1. a \in Attempts /\ Owned(a)
            BY DEF ControllerWriters, WriterInv, HelperInv
      <2> QED BY <2>1 DEF Owned, WriterInv, RootInv, LeaseInv, TurnOwnership
<1> QED BY <1>1, <1>2, <1>3

\* CloseSession never precedes the end of what the session started
\* (ObserveSessionStop, CompletePreparation, CompleteCheckout): its Pod ended
\* or can no longer appear, and no helper of its turns runs.
THEOREM ClosedSafe == Spec => []ClosedMeansEnded
<1>1. TypeInv /\ LeaseInv /\ WriterInv => ClosedMeansEnded
      <2> SUFFICES ASSUME TypeInv, LeaseInv, WriterInv, NEW s \in Attempts, Closed(s)
                   PROVE  /\ \/ pod[s] \in {"terminated", "neverStarted"}
                             \/ pod[s] = "none" /\ s \notin podRequested
                          /\ \A a \in ControllerWriters : workerSession[a] # s
          BY DEF ClosedMeansEnded
      <2>1. evidence[s] \in {"terminated", "never-started", "no-worker"}
            BY DEF WriterInv, PodInv, TypeInv, TypeOK, SessionTypeOK
      <2> QED BY <2>1, WritersHoldLease DEF WriterInv, PodInv
<1> QED BY <1>1, TypeInvariant, LeaseInvariant, WriterInvariant, PTL

\* One writer per root (ReserveTurn against CloseSession, restarts and lost
\* Pods): no two Pods, no Pod and helper, no two helpers of different
\* sessions can write the same root.
THEOREM ExclusiveSafe == Spec => []ExclusiveWriter
<1>1. TypeInv /\ LeaseInv /\ WriterInv => ExclusiveWriter
      BY WritersHoldLease DEF ExclusiveWriter
<1> QED BY <1>1, TypeInvariant, LeaseInvariant, WriterInvariant, PTL

-----------------------------------------------------------------------------
(* Resident slots.                                                         *)

SlotInv == IsFiniteSet(Residents) /\ Cardinality(Residents) <= ResidentLimit

\* A session closes and leaves the cluster once, and none is created.
SessionsKept ==
    /\ \A s \in Attempts : /\ SessionExists(s)' <=> SessionExists(s)
                           /\ Closed(s) => Closed(s)'
    /\ resourcesCleaned \subseteq resourcesCleaned'

\* Only a reservation creates a session.
LEMMA SessionStep ==
    ASSUME TypeInv, LeaseInv, [Next]_vars
    PROVE  SessionsKept \/ \E a \in Attempts, t \in Tasks : ReserveNew(a, t)
<1>1. ASSUME NEW s \in Attempts, SessionExists(s), ~ Closed(s), NEW st, st # "unknown",
             sessionState' = [sessionState EXCEPT ![s] = st],
             resourcesCleaned \subseteq resourcesCleaned'
      PROVE  SessionsKept
      BY <1>1 DEF SessionsKept, SessionExists, Closed, TypeInv, TypeOK, SessionTypeOK
<1>2. ASSUME NEW s \in Attempts, SessionExists(s), UNCHANGED resourcesCleaned,
             sessionState' = [sessionState EXCEPT ![s] = DrainingState(s)]
      PROVE  SessionsKept
      BY <1>2 DEF SessionsKept, DrainingState, SessionExists, Closed, TypeInv, TypeOK,
                  SessionTypeOK
<1>3. ASSUME UNCHANGED <<sessionState, resourcesCleaned>> PROVE SessionsKept
      BY <1>3 DEF SessionsKept, SessionExists, Closed

\* The session of a running turn.
<1>4. ASSUME NEW a \in Attempts, workerSession[a] # None, active[workerSession[a]] = a,
             UNCHANGED resourcesCleaned,
             \/ \E st \in SessionStates \ {"unknown"} :
                   sessionState' = [sessionState EXCEPT ![workerSession[a]] = st]
             \/ UNCHANGED sessionState
      PROVE  SessionsKept
      <2>1. /\ workerSession[a] \in Attempts /\ SessionExists(workerSession[a])
            /\ ~ Closed(workerSession[a])
            BY <1>4, Identities DEF LeaseInv, TurnOwnership, TypeInv, TypeOK, GrantTypeOK
      <2> QED BY <1>1, <1>3, <1>4, <2>1

\* The session of any reserved turn.
<1>5. ASSUME NEW a \in Attempts, workerSession[a] # None, UNCHANGED resourcesCleaned,
             sessionState' = [sessionState EXCEPT ![workerSession[a]] =
                                 DrainingState(workerSession[a])]
      PROVE  SessionsKept
      <2>1. workerSession[a] \in Attempts /\ SessionExists(workerSession[a])
            BY <1>5 DEF TypeInv, TypeOK, GrantTypeOK, Bindings
      <2> QED BY <1>2, <1>5, <2>1
<1>6. ASSUME ReservationNext, ~ \E a \in Attempts, t \in Tasks : ReserveNew(a, t)
      PROVE  SessionsKept
      <2>1. ASSUME NEW s, DrainIdle(s) PROVE SessionsKept
            BY <2>1 DEF DrainIdle, SessionsKept, SessionExists, Closed, TypeInv, TypeOK,
                        SessionTypeOK
      <2>2. ASSUME NEW a \in Attempts, NEW choice \in Tasks \cup {Fresh}, NEW reuse \in BOOLEAN,
                   QueueClaim(a) \/ RecordSelection(a, choice, reuse)
            PROVE  SessionsKept
            BY <1>3, <2>2 DEF QueueClaim, RecordSelection
      <2>3. ASSUME NEW a \in Attempts, ReserveWarm(a) PROVE SessionsKept
            <3>1. /\ writer[selection[a]] \in Attempts
                  /\ sessionState[writer[selection[a]]] = "idle"
                  /\ sessionState' = [sessionState EXCEPT ![writer[selection[a]]] = "reserved"]
                  /\ UNCHANGED resourcesCleaned
                  BY <2>3 DEF ReserveWarm, Reserve, SelectedWarm, WarmSession, TypeInv, TypeOK,
                              StorageTypeOK
            <3> QED BY <1>1, <3>1 DEF SessionExists, Closed
      <2> QED BY <1>6, <2>1, <2>2, <2>3
              DEF ReservationNext, DrainCurrent, DrainForCapacity, ExpireSession
<1>7. ASSUME TurnControlNext PROVE SessionsKept
      <2>1. ASSUME NEW a \in Attempts, InterruptPreparation(a) PROVE SessionsKept
            BY <1>5, <2>1 DEF InterruptPreparation
      <2>2. ASSUME NEW a \in Attempts,
                   \/ PublishTurn(a) \/ Admit(a) \/ Offer(a) \/ BeginStart(a) \/ MarkStarted(a)
            PROVE  SessionsKept
            <3>1. CurrentSessionTurn(a)
                  BY <2>2 DEF PublishTurn, Admit, Offer, BeginStart, MarkStarted, GrantStep
            <3>2. /\ UNCHANGED resourcesCleaned
                  /\ \/ UNCHANGED sessionState
                     \/ \E st \in {"reserved", "running"} :
                           sessionState' = [sessionState EXCEPT ![workerSession[a]] = st]
                  BY <2>2 DEF PublishTurn, Admit, Offer, BeginStart, MarkStarted
            <3> QED BY <1>4, <3>1, <3>2 DEF CurrentSessionTurn, SessionStates
      <2>3. ASSUME NEW a \in Attempts, NEW prepared \in BOOLEAN,
                   \/ BeginPreparation(a) \/ CheckpointPreparation(a)
                   \/ CompletePreparation(a, prepared) \/ AcceptTurn(a)
                   \/ BeginCheckout(a) \/ CompleteCheckout(a) \/ CloseCheckouts(a)
                   \/ CheckoutsFlushed(a) \/ SetSessionResources(a) \/ BindSessionPod(a)
                   \/ AdmitSession(a)
            PROVE  SessionsKept
            BY <1>3, <2>3 DEF BeginPreparation, CheckpointPreparation, CompletePreparation,
               AcceptTurn, BeginCheckout, CompleteCheckout, CloseCheckouts, CheckoutsFlushed,
               SetSessionResources, BindSessionPod, AdmitSession
      <2> QED BY <1>7, <2>1, <2>2, <2>3 DEF TurnControlNext
<1>8. ASSUME OutboxNext PROVE SessionsKept
      <2>1. ASSUME NEW a \in Attempts, NEW k \in ResultKinds \cup {"cancel-ack"},
                   ReceiveTerminal(a, k) \/ RecordTurnExecutionReceipt(a)
            PROVE  SessionsKept
            BY <1>4, <2>1 DEF ReceiveTerminal, RecordTurnExecutionReceipt, CurrentSessionTurn,
               WorkerHeard, SessionStates
      <2>2. ASSUME NEW a \in Attempts, NEW keep \in BOOLEAN, CompleteTurn(a, keep)
            PROVE  SessionsKept
            <3>1. /\ workerSession[a] # None /\ active[workerSession[a]] = a
                  /\ UNCHANGED resourcesCleaned
                  BY <2>2 DEF CompleteTurn, SettleTurn
            <3> QED BY <1>4, <1>5, <2>2, <3>1
                    DEF CompleteTurn, RetainSession, ReleaseSession, SessionStates
      <2>3. ASSUME NEW a \in Attempts, ReceiveFailure(a) PROVE SessionsKept
            BY <1>3, <1>5, <2>3 DEF ReceiveFailure, RecordFailure, LeaveUnexecuted, QuarantineTurn
      <2>4. ASSUME NEW a \in Attempts, NEW outcome \in Outcomes,
                   \/ RecordResultReceipt(a) \/ RecordRecoveryFailure(a)
                   \/ BeginForward(a) \/ RejectTerminal(a) \/ FinishForward(a, outcome)
                   \/ FinishRecoveryForward(a, outcome) \/ RecordCompletionWitness(a)
                   \/ BeginFailureForward(a) \/ RejectFailure(a)
                   \/ BeginRecoveryForward(a) \/ RejectRecoveryFailure(a)
                   \/ RecoverClosedCheckpoint(a)
            PROVE  SessionsKept
            BY <1>3, <2>4 DEF RecordResultReceipt, RecordRecoveryFailure, BeginForward,
               RejectTerminal, FinishForward, FinishRecoveryForward, RecordCompletionWitness,
               BeginFailureForward, RejectFailure, BeginRecoveryForward,
               RejectRecoveryFailure, RecoverClosedCheckpoint, OutboxStep
      <2>5. "received" \in Outcomes
            BY DEF Outcomes
      <2> QED BY <1>8, <2>1, <2>2, <2>3, <2>4, <2>5 DEF OutboxNext
<1>9. ASSUME SessionStopNext PROVE SessionsKept
      <2>1. ASSUME NEW s \in Attempts, RequestSessionStop(s) PROVE SessionsKept
            BY <1>2, <2>1 DEF RequestSessionStop, StopSession
      <2>2. ASSUME NEW s \in Attempts, QuarantineSession(s) PROVE SessionsKept
            BY <1>1, <2>2 DEF QuarantineSession, Closed
      <2>3. ASSUME NEW s \in Attempts, CloseSession(s) PROVE SessionsKept
            <3>1. SessionExists(s) /\ ~ Closed(s)
                  BY <2>3 DEF CloseSession, TypeInv, Bindings, Closed
            <3> QED BY <1>1, <2>3, <3>1 DEF CloseSession
      <2>4. ASSUME NEW a \in Attempts, RequestStop(a) PROVE SessionsKept
            BY <1>3, <1>5, <2>4 DEF RequestStop
      <2>5. ASSUME NEW s \in Attempts, MarkSessionCleaned(s) PROVE SessionsKept
            BY <2>5 DEF MarkSessionCleaned, SessionsKept, SessionExists, Closed
      <2>6. ASSUME NEW s \in Attempts,
                   \/ RecordSessionControllerFlush(s) \/ RecordSessionStopReceipt(s)
                   \/ ObserveSessionStop(s) \/ CloseStopped(s) \/ MarkCleaned(s)
            PROVE  SessionsKept
            BY <1>3, <2>6 DEF RecordSessionControllerFlush, RecordSessionStopReceipt,
               ObserveSessionStop, CloseStopped, MarkCleaned
      <2> QED BY <1>9, <2>1, <2>2, <2>3, <2>4, <2>5, <2>6 DEF SessionStopNext
<1>10. ASSUME ClusterNext PROVE SessionsKept
      <2>1. UNCHANGED <<sessionState, resourcesCleaned>>
            BY <1>10 DEF ClusterNext, PodCommits, PodRuns, PodNeverStarts, PodTerminates,
               PodLost, SetPod, Seal, WriterExits, BackendStarts, BackendCommits, BackendEnds,
               SetBackend, Restart, ContainerTerminates
      <2> QED BY <1>3, <2>1
<1> QED BY <1>3, <1>6, <1>7, <1>8, <1>9, <1>10 DEF Next

\* The count of residents is kept by every step.
LEMMA SlotStep == TypeInv /\ LeaseInv /\ SlotInv /\ [Next]_vars => SlotInv'
<1> SUFFICES ASSUME TypeInv, LeaseInv, SlotInv, [Next]_vars PROVE SlotInv'
    OBVIOUS
<1>1. ResidentLimit \in Nat /\ IsFiniteSet(Residents) /\ Cardinality(Residents) \in Nat
      BY BoundsAssumption, FS_CardinalityType DEF SlotInv
<1>2. ASSUME Residents' \subseteq Residents PROVE SlotInv'
      <2>1. /\ IsFiniteSet(Residents') /\ Cardinality(Residents') \in Nat
            /\ Cardinality(Residents') <= Cardinality(Residents)
            BY <1>1, <1>2, FS_Subset, FS_CardinalityType
      <2> QED BY <1>1, <2>1 DEF SlotInv
<1>3. ASSUME NEW a \in Attempts, NEW t \in Tasks, ReserveNew(a, t) PROVE SlotInv'
      <2>1. Residents' \subseteq Residents \cup {a} /\ Cardinality(Residents) < ResidentLimit
            BY <1>3 DEF ReserveNew, Reserve, Residents, Resident, SessionExists, TypeInv, TypeOK,
                        SessionTypeOK
      <2>2. /\ IsFiniteSet(Residents \cup {a})
            /\ Cardinality(Residents \cup {a}) \in {Cardinality(Residents), Cardinality(Residents) + 1}
            BY <1>1, FS_AddElement
      <2>3. /\ IsFiniteSet(Residents') /\ Cardinality(Residents') \in Nat
            /\ Cardinality(Residents') <= Cardinality(Residents \cup {a})
            BY <2>1, <2>2, FS_Subset, FS_CardinalityType
      <2> QED BY <1>1, <2>1, <2>2, <2>3 DEF SlotInv
<1>4. SessionsKept => Residents' \subseteq Residents
      BY DEF SessionsKept, Residents, Resident, Closed
<1> QED BY <1>2, <1>3, <1>4, SessionStep

\* There is never a worker more than there are slots (admitResident): neither
\* in the journal nor, since a Pod that may run belongs to a resident session,
\* in the cluster, for any number of attempts.
THEOREM ResidentsBounded == Spec => []ResidentBound
<1>1. Init => SlotInv
      <2> SUFFICES ASSUME Init PROVE SlotInv
          OBVIOUS
      <2>1. Residents = {}
            BY DEF Init, Residents, Resident, SessionExists
      <2> QED BY <2>1, FS_EmptySet, BoundsAssumption DEF SlotInv
<1>2. TypeInv /\ LeaseInv /\ WriterInv /\ SlotInv => ResidentBound
      <2> SUFFICES ASSUME TypeInv, LeaseInv, WriterInv, SlotInv PROVE ResidentBound
          OBVIOUS
      <2> DEFINE Workers == {s \in Attempts : MayWrite(s)}
      <2>1. Workers \subseteq Residents
            BY WritersHoldLease DEF Residents, Resident, Closed
      <2>2. /\ IsFiniteSet(Residents) /\ Cardinality(Residents) <= ResidentLimit
            /\ ResidentLimit \in Nat
            BY BoundsAssumption DEF SlotInv
      <2>3. /\ Cardinality(Workers) <= Cardinality(Residents)
            /\ Cardinality(Workers) \in Nat /\ Cardinality(Residents) \in Nat
            BY <2>1, <2>2, FS_Subset, FS_CardinalityType
      <2>4. Cardinality(Workers) <= ResidentLimit
            BY <2>2, <2>3
      <2> QED BY <2>2, <2>4 DEF ResidentBound
<1> QED BY <1>1, <1>2, SlotStep, TypeInvariant, LeaseInvariant, WriterInvariant, PTL DEF Spec

-----------------------------------------------------------------------------
(***************************************************************************)
(* What a clean root proves, for any number of attempts, roots, restarts   *)
(* and late receipts: every write to it is durable, nothing writes it, and *)
(* its checkpoint is a turn whose result the backend accepted.             *)
(***************************************************************************)

-----------------------------------------------------------------------------
(* Receipts.                                                               *)

\* A flush and a clean receipt belong to a stop, a receipt says what the
\* supervisor did, and only a session with a supervisor has a turn that ran.
ReceiptInv ==
    /\ preparedFlush \subseteq writersStopped /\ writersStopped \subseteq sessionStop
    /\ \A s \in Attempts : stopReceipt[s] = "clean" => seal[s] = "clean"
    /\ \A a \in Attempts : a \in execReceipt \cup witness \/ source[a] = "worker" =>
          workerSession[a] \in supervisorKey

receiptVars == <<preparedFlush, writersStopped, sessionStop, stopReceipt, seal, execReceipt,
                 witness, source, workerSession, supervisorKey>>

\* No receipt exists at first.
LEMMA ReceiptInit == Init => ReceiptInv
BY DEF Init, ReceiptInv

\* A step that leaves seals and receipts alone keeps their facts.
LEMMA ReceiptFrame == ReceiptInv /\ UNCHANGED receiptVars => ReceiptInv'
BY DEF ReceiptInv, receiptVars

\* A stop, and a reservation, leave the receipts alone.
LEMMA ReceiptKept ==
    ASSUME TypeInv, ReceiptInv, sessionStop \subseteq sessionStop',
           UNCHANGED <<preparedFlush, writersStopped, stopReceipt, seal, execReceipt, witness,
                       source, supervisorKey>>,
           \A a \in Attempts : workerSession[a] # None => workerSession'[a] = workerSession[a]
    PROVE  ReceiptInv'
BY Identities DEF ReceiptInv, TypeInv, TypeOK, SessionTypeOK

\* A reservation makes no receipt.
LEMMA ReservationReceipt == TypeInv /\ ReceiptInv /\ ReservationNext => ReceiptInv'
<1> SUFFICES ASSUME TypeInv, ReceiptInv, ReservationNext PROVE ReceiptInv'
    OBVIOUS
<1>1. ASSUME NEW a \in Attempts, NEW s, NEW t, workerSession[a] = None, Reserve(a, s, t)
      PROVE  ReceiptInv'
      <2>1. \A b \in Attempts : workerSession[b] # None => workerSession'[b] = workerSession[b]
            BY <1>1 DEF Reserve, TypeInv, TypeOK, GrantTypeOK
      <2> QED BY <1>1, <2>1, ReceiptKept DEF Reserve
<1>2. ASSUME NEW a \in Attempts, NEW t \in Tasks, ReserveWarm(a) \/ ReserveNew(a, t)
      PROVE  ReceiptInv'
      BY <1>1, <1>2 DEF ReserveWarm, ReserveNew, Reservable
<1>3. ASSUME NEW a \in Attempts, NEW choice \in Tasks \cup {Fresh}, NEW reuse \in BOOLEAN,
             QueueClaim(a) \/ RecordSelection(a, choice, reuse)
      PROVE  ReceiptInv'
      BY <1>3, ReceiptFrame DEF QueueClaim, RecordSelection, receiptVars
<1>4. ASSUME NEW s, DrainIdle(s) PROVE ReceiptInv'
      BY <1>4, ReceiptKept DEF DrainIdle, RecordStop
<1>5. \A a \in Attempts : TaskOf[a] \in Tasks
      BY Identities
<1> QED BY <1>2, <1>3, <1>4, <1>5
        DEF ReservationNext, DrainCurrent, DrainForCapacity, ExpireSession

\* The control of a turn makes no stop receipt.
LEMMA TurnControlReceipt == TypeInv /\ ReceiptInv /\ TurnControlNext => ReceiptInv'
<1> SUFFICES ASSUME TypeInv, ReceiptInv, TurnControlNext PROVE ReceiptInv'
    OBVIOUS
<1>1. ASSUME NEW a \in Attempts, InterruptPreparation(a) PROVE ReceiptInv'
      BY <1>1, ReceiptKept DEF InterruptPreparation, RecordStop
<1>2. ASSUME NEW s \in Attempts, AdmitSession(s) PROVE ReceiptInv'
      BY <1>2 DEF AdmitSession, ReceiptInv
<1>3. ASSUME NEW a \in Attempts, NEW prepared \in BOOLEAN,
             \/ BeginPreparation(a) \/ CheckpointPreparation(a)
             \/ CompletePreparation(a, prepared) \/ AcceptTurn(a)
             \/ PublishTurn(a) \/ Admit(a) \/ Offer(a) \/ BeginStart(a) \/ MarkStarted(a)
             \/ BeginCheckout(a) \/ CompleteCheckout(a) \/ CloseCheckouts(a)
             \/ CheckoutsFlushed(a) \/ SetSessionResources(a) \/ BindSessionPod(a)
      PROVE  ReceiptInv'
      <2>1. UNCHANGED receiptVars
            BY <1>3 DEF receiptVars, BeginPreparation, CheckpointPreparation, CompletePreparation,
               AcceptTurn, PublishTurn, Admit, Offer, BeginStart, MarkStarted, GrantStep,
               BeginCheckout, CompleteCheckout, CloseCheckouts, CheckoutsFlushed,
               SetSessionResources, BindSessionPod
      <2> QED BY <2>1, ReceiptFrame
<1> QED BY <1>1, <1>2, <1>3 DEF TurnControlNext

\* A worker's result comes from a session whose supervisor is known.
LEMMA OutboxReceipt == TypeInv /\ ReceiptInv /\ OutboxNext => ReceiptInv'
<1> SUFFICES ASSUME TypeInv, ReceiptInv, OutboxNext PROVE ReceiptInv'
    OBVIOUS
<1> USE DEF ReceiptInv, TypeInv, TypeOK, OutboxTypeOK, SessionTypeOK
<1>1. ASSUME NEW a \in Attempts, NEW k \in ResultKinds \cup {"cancel-ack"}, ReceiveTerminal(a, k)
      PROVE  ReceiptInv'
      BY <1>1 DEF ReceiveTerminal
<1>2. ASSUME NEW a \in Attempts, RecordTurnExecutionReceipt(a) PROVE ReceiptInv'
      BY <1>2 DEF RecordTurnExecutionReceipt
<1>3. ASSUME NEW a \in Attempts, RecordCompletionWitness(a) PROVE ReceiptInv'
      BY <1>3 DEF RecordCompletionWitness
<1>4. ASSUME NEW a \in Attempts, ReceiveFailure(a) PROVE ReceiptInv'
      <2>1. /\ source' = [source EXCEPT ![a] = "controller"]
            /\ UNCHANGED <<preparedFlush, writersStopped, stopReceipt, seal, execReceipt, witness,
                           workerSession, supervisorKey>>
            /\ sessionStop \subseteq sessionStop'
            BY <1>4 DEF ReceiveFailure, RecordFailure, LeaveUnexecuted, QuarantineTurn, RecordStop
      <2> QED BY <1>4, <2>1 DEF ReceiveFailure, RecordFailure
<1> HIDE DEF ReceiptInv, TypeInv
<1>5. ASSUME NEW a \in Attempts, NEW keep \in BOOLEAN, CompleteTurn(a, keep) PROVE ReceiptInv'
      <2>1. /\ UNCHANGED <<preparedFlush, writersStopped, stopReceipt, seal, execReceipt, witness,
                           source, workerSession, supervisorKey>>
            /\ sessionStop \subseteq sessionStop'
            BY <1>5 DEF CompleteTurn, SettleTurn, RetainSession, ReleaseSession, RecordStop
      <2> QED BY <2>1, ReceiptKept
<1>6. ASSUME NEW a \in Attempts, NEW outcome \in Outcomes,
             \/ RecordResultReceipt(a) \/ RecordRecoveryFailure(a)
             \/ BeginForward(a) \/ RejectTerminal(a) \/ FinishForward(a, outcome)
             \/ FinishRecoveryForward(a, outcome)
             \/ BeginFailureForward(a) \/ RejectFailure(a)
             \/ BeginRecoveryForward(a) \/ RejectRecoveryFailure(a)
             \/ RecoverClosedCheckpoint(a)
      PROVE  ReceiptInv'
      <2>1. UNCHANGED receiptVars
            BY <1>6 DEF receiptVars, RecordResultReceipt, RecordRecoveryFailure, BeginForward,
               RejectTerminal, FinishForward, FinishRecoveryForward, BeginFailureForward,
               RejectFailure, BeginRecoveryForward, RejectRecoveryFailure,
               RecoverClosedCheckpoint, OutboxStep, SetDelivery, SetRecovery
      <2> QED BY <2>1, ReceiptFrame
<1>7. "received" \in Outcomes
      BY DEF Outcomes
<1> QED BY <1>1, <1>2, <1>3, <1>4, <1>5, <1>6, <1>7 DEF OutboxNext

\* A stop receipt is recorded only as the supervisor sealed it.
LEMMA SessionStopReceipt == TypeInv /\ ReceiptInv /\ SessionStopNext => ReceiptInv'
<1> SUFFICES ASSUME TypeInv, ReceiptInv, SessionStopNext PROVE ReceiptInv'
    OBVIOUS
<1>1. ASSUME NEW s \in Attempts, RequestSessionStop(s) \/ QuarantineSession(s) \/ RequestStop(s)
      PROVE  ReceiptInv'
      <2>1. /\ UNCHANGED <<preparedFlush, writersStopped, stopReceipt, seal, execReceipt, witness,
                           source, workerSession, supervisorKey>>
            /\ sessionStop \subseteq sessionStop'
            BY <1>1 DEF RequestSessionStop, StopSession, QuarantineSession, RequestStop, RecordStop
      <2> QED BY <2>1, ReceiptKept
<1>2. ASSUME NEW s \in Attempts, RecordSessionControllerFlush(s) PROVE ReceiptInv'
      BY <1>2 DEF RecordSessionControllerFlush, ReceiptInv
<1>3. ASSUME NEW s \in Attempts, RecordSessionStopReceipt(s) PROVE ReceiptInv'
      BY <1>3 DEF RecordSessionStopReceipt, ReceiptInv, TypeInv, TypeOK, SessionTypeOK
<1>4. ASSUME NEW s \in Attempts, ObserveSessionStop(s) PROVE ReceiptInv'
      <2>1. /\ \/ preparedFlush' = preparedFlush
               \/ s \in writersStopped /\ preparedFlush' = preparedFlush \cup {s}
            /\ UNCHANGED <<writersStopped, sessionStop, stopReceipt, seal, execReceipt, witness,
                           source, workerSession, supervisorKey>>
            BY <1>4 DEF ObserveSessionStop
      <2> QED BY <2>1 DEF ReceiptInv
<1>5. ASSUME NEW s \in Attempts,
             CloseSession(s) \/ MarkSessionCleaned(s) \/ CloseStopped(s) \/ MarkCleaned(s)
      PROVE  ReceiptInv'
      <2>1. UNCHANGED receiptVars
            BY <1>5 DEF receiptVars, CloseSession, MarkSessionCleaned, CloseStopped, MarkCleaned
      <2> QED BY <2>1, ReceiptFrame
<1> QED BY <1>1, <1>2, <1>3, <1>4, <1>5 DEF SessionStopNext

\* Every step keeps the facts about receipts.
LEMMA ReceiptStep == TypeInv /\ ReceiptInv /\ [Next]_vars => ReceiptInv'
<1> SUFFICES ASSUME TypeInv, ReceiptInv, [Next]_vars PROVE ReceiptInv'
    OBVIOUS
<1>1. CASE UNCHANGED vars
      BY <1>1, ReceiptFrame DEF receiptVars
<1>2. CASE ClusterNext
      <2>1. ASSUME NEW s \in Attempts, NEW outcome \in {"clean", "unclean"}, Seal(s, outcome)
            PROVE  ReceiptInv'
            BY <2>1 DEF Seal, ReceiptInv, TypeInv, TypeOK, WorldTypeOK
      <2>2. ASSUME ~ \E s \in Attempts, outcome \in {"clean", "unclean"} : Seal(s, outcome)
            PROVE  ReceiptInv'
            <3>1. UNCHANGED receiptVars
                  BY <1>2, <2>2 DEF ClusterNext, receiptVars, PodCommits, PodRuns, PodNeverStarts,
                     PodTerminates, PodLost, SetPod, WriterExits, BackendStarts,
                     BackendCommits, BackendEnds, SetBackend, Restart, ContainerTerminates
            <3> QED BY <3>1, ReceiptFrame
      <2> QED BY <2>1, <2>2
<1> QED BY <1>1, <1>2, ReservationReceipt, TurnControlReceipt, OutboxReceipt, SessionStopReceipt
        DEF Next

-----------------------------------------------------------------------------
(* Durable roots.                                                          *)

Open(s) == SessionExists(s) /\ ~ Closed(s)

\* The session that last took a root.
LastSession(t) == workerSession[latest[t]]

\* An unflushed root is dirty; a session without a supervisor has written
\* nothing unless its turn was prepared; after the controller's fence the
\* root stays flushed until another session takes it; and the last session on
\* a clean root ended, clean if it ran at all.
FlushInv ==
    /\ unsynced \subseteq dirty
    /\ \A s \in Attempts : Open(s) /\ s \notin supervisorKey =>
          active[s] # None /\ (prep[active[s]] = "none" => storageOf[s] \notin unsynced)
    /\ \A t \in Tasks : latest[t] # None /\ LastSession(t) \in writersStopped => t \notin unsynced
    /\ \A t \in Tasks : latest[t] # None /\ t \notin dirty =>
          /\ evidence[LastSession(t)] # "none"
          /\ evidence[LastSession(t)] = "terminated" => seal[LastSession(t)] = "clean"

\* No root exists at first.
LEMMA FlushInit == Init => FlushInv
BY DEF Init, FlushInv, Open, SessionExists

\* The open session on a root, seen from its turn.
LEMMA SoleTurn ==
    ASSUME TypeInv, LeaseInv, WriterInv, NEW a \in Attempts, Owned(a)
    PROVE  /\ workerSession[a] \in Attempts /\ Open(workerSession[a])
           /\ storageOf[a] \in Tasks /\ storageOf[a] \in dirty
           /\ storageOf[workerSession[a]] = storageOf[a]
           /\ writer[storageOf[a]] = workerSession[a]
           /\ latest[storageOf[a]] # None /\ LastSession(storageOf[a]) = workerSession[a]
           /\ \A r \in Attempts : Open(r) /\ storageOf[r] = storageOf[a] => r = workerSession[a]
<1>1. /\ workerSession[a] \in Attempts /\ Open(workerSession[a])
      /\ storageOf[workerSession[a]] = storageOf[a]
      BY Identities DEF Owned, Open, LeaseInv, TurnOwnership, TypeInv, TypeOK, GrantTypeOK,
                        WriterInv, RootInv
<1>2. /\ storageOf[a] \in Tasks /\ storageOf[a] \in dirty
      /\ writer[storageOf[a]] = workerSession[a]
      BY <1>1, Identities DEF Open, LeaseInv, LeaseAgreement, TypeInv, TypeOK, GrantTypeOK
<1>3. \A r \in Attempts : Open(r) => writer[storageOf[r]] = r
      BY DEF Open, LeaseInv, LeaseAgreement
<1> QED BY <1>1, <1>2, <1>3, Identities DEF WriterInv, RootInv, LastSession

\* Without a reservation no session appears.
LEMMA KeptUnreserved ==
    ASSUME TypeInv, LeaseInv, Next, UNCHANGED workerSession PROVE SessionsKept
<1>1. ASSUME NEW a \in Attempts, NEW t \in Tasks, ReserveNew(a, t) PROVE FALSE
      BY <1>1, Identities DEF ReserveNew, Reservable, Reserve, TypeInv, TypeOK, GrantTypeOK
<1> QED BY <1>1, SessionStep

\* A step that takes no root, ends no turn and writes nothing.
LEMMA FlushKept ==
    ASSUME TypeInv, WriterInv, FlushInv, SessionsKept,
           unsynced' \subseteq unsynced, dirty \subseteq dirty', supervisorKey \subseteq supervisorKey',
           UNCHANGED <<workerSession, storageOf, latest, active, writersStopped>>,
           \A b \in Attempts :
              /\ prep'[b] = "none" => prep[b] = "none"
              /\ evidence[b] # "none" => evidence'[b] = evidence[b]
              /\ seal[b] = "clean" => seal'[b] = "clean"
    PROVE  FlushInv'
<1> USE DEF TypeInv, TypeOK, GrantTypeOK, SessionTypeOK, StorageTypeOK, FlushInv
<1>1. \A s \in Attempts : Open(s)' => Open(s)
      BY DEF SessionsKept, Open
<1>2. \A t \in Tasks : latest[t] # None => LastSession(t) \in Attempts
      BY DEF WriterInv, RootInv, LastSession
<1>3. \A t \in Tasks : LastSession(t)' = LastSession(t) /\ latest'[t] = latest[t]
      BY DEF LastSession
<1>4. \A s \in Attempts : active[s] # None => active[s] \in Attempts
      OBVIOUS
<1> QED BY <1>1, <1>2, <1>3, <1>4

\* A reservation takes a clean root, or its session's own.
LEMMA ReserveFlush ==
    ASSUME TypeInv, LeaseInv, WriterInv, ReceiptInv, FlushInv,
           NEW a \in Attempts, NEW s \in Attempts, NEW t \in Tasks, NEW st,
           workerSession[a] = None, Reserve(a, s, t),
           sessionState' = [sessionState EXCEPT ![s] = st],
           \/ s = a /\ t \notin dirty
           \/ s # a /\ s \in supervisorKey /\ s \notin sessionStop
    PROVE  FlushInv'
<1> USE Identities DEF TypeInv, TypeOK, GrantTypeOK, SessionTypeOK, StorageTypeOK
<1>1. /\ ~ SessionExists(a) /\ a \notin sessionStop /\ prep[a] = "none"
      /\ \A r \in Attempts : active[r] # a
      BY DEF Bindings, LeaseInv, TurnOwnership
<1>2. /\ workerSession' = [workerSession EXCEPT ![a] = s]
      /\ storageOf' = [storageOf EXCEPT ![a] = t]
      /\ latest' = [latest EXCEPT ![t] = a] /\ dirty' = dirty \cup {t}
      /\ active' = [active EXCEPT ![s] = a]
      /\ UNCHANGED <<unsynced, supervisorKey, prep, writersStopped, evidence, seal>>
      BY DEF Reserve, TakeRoot
<1>3. s \notin writersStopped
      BY <1>1 DEF ReceiptInv
<1>4. \A u \in Tasks \ {t} : latest[u] # None =>
         latest'[u] = latest[u] /\ LastSession(u)' = LastSession(u)
      BY <1>2 DEF LastSession, WriterInv, RootInv
<1>5. latest'[t] = a /\ LastSession(t)' = s
      BY <1>2 DEF LastSession
<1>6. \A r \in Attempts \ {s} : r # a /\ Open(r)' => Open(r) /\ active'[r] = active[r]
                                                    /\ storageOf'[r] = storageOf[r]
      BY <1>2 DEF Open, SessionExists, Closed
<1>7. \A r \in Attempts : Open(r)' /\ r \notin supervisorKey =>
         active'[r] # None /\ (prep[active'[r]] = "none" => storageOf'[r] \notin unsynced)
      <2> SUFFICES ASSUME NEW r \in Attempts, Open(r)', r \notin supervisorKey
                   PROVE  active'[r] # None /\ (prep[active'[r]] = "none" => storageOf'[r] \notin unsynced)
          OBVIOUS
      <2>1. CASE r = s
            BY <1>2, <2>1 DEF FlushInv
      <2>2. CASE r # s
            <3>1. r # a
                  BY <1>1, <1>2, <2>2 DEF Open, SessionExists
            <3> QED BY <1>6, <2>2, <3>1 DEF FlushInv
      <2> QED BY <2>1, <2>2
<1> QED BY <1>2, <1>3, <1>4, <1>5, <1>7 DEF FlushInv

\* Claims and reservations.
LEMMA ReservationFlush ==
    TypeInv /\ LeaseInv /\ WriterInv /\ ReceiptInv /\ FlushInv /\ ReservationNext => FlushInv'
<1> SUFFICES ASSUME TypeInv, LeaseInv, WriterInv, ReceiptInv, FlushInv, ReservationNext
             PROVE  FlushInv'
    OBVIOUS
<1>1. ASSUME NEW a \in Attempts, ReserveWarm(a) PROVE FlushInv'
      <2>1. /\ selection[a] \in Tasks /\ writer[selection[a]] \in Attempts
            /\ workerSession[a] = None
            /\ writer[selection[a]] \in supervisorKey /\ writer[selection[a]] \notin sessionStop
            /\ SessionExists(writer[selection[a]])
            BY <1>1, Identities DEF ReserveWarm, Reservable, SelectedWarm, WarmSession, TypeInv,
               TypeOK, StorageTypeOK, SessionExists
      <2>2. writer[selection[a]] # a
            BY <2>1, Identities DEF TypeInv, Bindings
      <2> QED BY <1>1, <2>1, <2>2, ReserveFlush DEF ReserveWarm
<1>2. ASSUME NEW a \in Attempts, NEW t \in Tasks, ReserveNew(a, t) PROVE FlushInv'
      BY <1>2, ReserveFlush DEF ReserveNew, Reservable, ReservableRoot
<1>3. ASSUME ~ \E a \in Attempts, t \in Tasks : ReserveWarm(a) \/ ReserveNew(a, t)
      PROVE  FlushInv'
      <2>1. UNCHANGED <<unsynced, dirty, supervisorKey, workerSession, storageOf, latest, active,
                        writersStopped, prep, evidence, seal>>
            BY <1>3, Identities DEF ReservationNext, QueueClaim, RecordSelection, DrainCurrent,
               DrainForCapacity, ExpireSession, DrainIdle, RecordStop
      <2>2. SessionsKept
            BY <1>3, SessionStep DEF Next
      <2> QED BY <2>1, <2>2, FlushKept
<1> QED BY <1>1, <1>2, <1>3

\* A helper of the controller starts to write the root of an unstopped turn.
LEMMA WriterFlush ==
    ASSUME TypeInv, LeaseInv, WriterInv, ReceiptInv, FlushInv, SessionsKept,
           NEW a \in Attempts, Owned(a), workerSession[a] \notin sessionStop, StartWriter(a),
           prep'[a] # "none", \A b \in Attempts \ {a} : prep'[b] = prep[b],
           UNCHANGED <<dirty, supervisorKey, workerSession, storageOf, latest, active,
                       writersStopped, evidence, seal>>
    PROVE  FlushInv'
<1> DEFINE t == storageOf[a]
<1>1. /\ t \in Tasks /\ t \in dirty /\ LastSession(t) = workerSession[a]
      /\ \A r \in Attempts : Open(r) /\ storageOf[r] = t => r = workerSession[a]
      BY SoleTurn
<1>2. unsynced' = unsynced \cup {t} /\ workerSession[a] \notin writersStopped
      BY DEF StartWriter, ReceiptInv
<1>3. \A r \in Attempts : Open(r)' => Open(r)
      BY DEF SessionsKept, Open
<1>4. \A u \in Tasks : LastSession(u)' = LastSession(u)
      BY DEF LastSession
<1>5. \A r \in Attempts : active[r] = a => r = workerSession[a]
      BY Identities DEF LeaseInv, TurnOwnership
<1>6. \A r \in Attempts : Open(r)' /\ r \notin supervisorKey =>
         active[r] # None /\ (prep'[active[r]] = "none" => storageOf[r] \notin unsynced')
      <2> SUFFICES ASSUME NEW r \in Attempts, Open(r)', r \notin supervisorKey
                   PROVE  active[r] # None /\ (prep'[active[r]] = "none" => storageOf[r] \notin unsynced')
          OBVIOUS
      <2>1. CASE r = workerSession[a]
            BY <2>1, Identities DEF Owned
      <2>2. CASE r # workerSession[a]
            <3>1. active[r] # a /\ storageOf[r] # t
                  BY <1>1, <1>3, <1>5, <2>2
            <3>2. active[r] # None => active[r] \in Attempts \ {a}
                  BY <3>1 DEF TypeInv, TypeOK, SessionTypeOK
            <3> QED BY <1>2, <1>3, <3>1, <3>2 DEF FlushInv
      <2> QED BY <2>1, <2>2
<1> QED BY <1>1, <1>2, <1>4, <1>6 DEF FlushInv

\* Preparation, Pods and checkouts.
LEMMA TurnControlFlush ==
    TypeInv /\ LeaseInv /\ WriterInv /\ ReceiptInv /\ FlushInv /\ TurnControlNext => FlushInv'
<1> SUFFICES ASSUME TypeInv, LeaseInv, WriterInv, ReceiptInv, FlushInv, TurnControlNext
             PROVE  FlushInv'
    OBVIOUS
<1>1. SessionsKept
      <2>1. UNCHANGED workerSession
            BY DEF TurnControlNext, BeginPreparation, CheckpointPreparation,
               CompletePreparation, InterruptPreparation, PublishTurn, AcceptTurn, Admit,
               Offer, BeginStart, MarkStarted, GrantStep, BeginCheckout, CompleteCheckout,
               CloseCheckouts, CheckoutsFlushed, SetSessionResources, BindSessionPod,
               AdmitSession
      <2> QED BY <2>1, KeptUnreserved DEF Next
<1>2. ASSUME NEW a \in Attempts, BeginPreparation(a) PROVE FlushInv'
      <2>1. Owned(a) /\ workerSession[a] \notin sessionStop
            BY <1>2 DEF BeginPreparation, CurrentSessionTurn, Owned
      <2>2. prep'[a] = "running" /\ \A b \in Attempts \ {a} : prep'[b] = prep[b]
            BY <1>2 DEF BeginPreparation, TypeInv, TypeOK, GrantTypeOK
      <2> QED BY <1>1, <1>2, <2>1, <2>2, WriterFlush DEF BeginPreparation
<1>3. ASSUME NEW a \in Attempts, BeginCheckout(a) PROVE FlushInv'
      <2>1. Owned(a)
            BY <1>3 DEF BeginCheckout, TypeInv, Bindings, LeaseInv, TurnOwnership, Owned
      <2>2. workerSession[a] \notin sessionStop
            <3>1. /\ workerSession[a] \in Attempts /\ SessionExists(workerSession[a])
                  /\ active[workerSession[a]] = a /\ a # None /\ a \notin stopped
                  BY <1>3, <2>1, SoleTurn, Identities DEF BeginCheckout, Owned, Open
            <3> QED BY <3>1 DEF LeaseInv, StopAgreement
      <2> QED BY <1>1, <1>3, <2>1, <2>2, WriterFlush DEF BeginCheckout
<1>4. ASSUME NEW a \in Attempts, NEW prepared \in BOOLEAN,
             CompletePreparation(a, prepared) \/ InterruptPreparation(a)
      PROVE  FlushInv'
      <2>1. /\ \A b \in Attempts : prep'[b] = "none" => prep[b] = "none"
            /\ UNCHANGED <<unsynced, dirty, supervisorKey, workerSession, storageOf, latest, active,
                           writersStopped, evidence, seal>>
            BY <1>4 DEF CompletePreparation, InterruptPreparation, RecordStop, TypeInv, TypeOK,
                        GrantTypeOK
      <2> QED BY <1>1, <2>1, FlushKept
<1>5. ASSUME NEW a \in Attempts,
             \/ CheckpointPreparation(a) \/ AcceptTurn(a)
             \/ PublishTurn(a) \/ Admit(a) \/ Offer(a) \/ BeginStart(a) \/ MarkStarted(a)
             \/ CompleteCheckout(a) \/ CloseCheckouts(a)
             \/ CheckoutsFlushed(a) \/ SetSessionResources(a) \/ BindSessionPod(a)
             \/ AdmitSession(a)
      PROVE  FlushInv'
      <2>1. /\ supervisorKey \subseteq supervisorKey' /\ unsynced' \subseteq unsynced
            /\ UNCHANGED <<dirty, workerSession, storageOf, latest, active,
                           writersStopped, prep, evidence, seal>>
            BY <1>5 DEF CheckpointPreparation, AcceptTurn, PublishTurn, Admit, Offer, BeginStart,
               MarkStarted, GrantStep, CompleteCheckout, CloseCheckouts, CheckoutsFlushed,
               SyncTaskFilesystem, SetSessionResources, BindSessionPod, AdmitSession
      <2> QED BY <1>1, <2>1, FlushKept
<1> QED BY <1>2, <1>3, <1>4, <1>5 DEF TurnControlNext

\* A completed turn leaves its root dirty, and a late receipt cleans only
\* the root of a session that stopped clean.
LEMMA OutboxFlush ==
    TypeInv /\ LeaseInv /\ WriterInv /\ ReceiptInv /\ FlushInv /\ OutboxNext => FlushInv'
<1> SUFFICES ASSUME TypeInv, LeaseInv, WriterInv, ReceiptInv, FlushInv, OutboxNext
             PROVE  FlushInv'
    OBVIOUS
<1>1. SessionsKept
      <2>1. UNCHANGED workerSession
            BY DEF OutboxNext, ReceiveTerminal, RecordResultReceipt, RecordTurnExecutionReceipt,
               ReceiveFailure, RecordFailure, RecordRecoveryFailure, BeginForward,
               RejectTerminal, FinishForward, FinishRecoveryForward, RecordCompletionWitness,
               BeginFailureForward, RejectFailure, BeginRecoveryForward,
               RejectRecoveryFailure, CompleteTurn, SettleTurn, RecoverClosedCheckpoint,
               OutboxStep
      <2> QED BY <2>1, KeptUnreserved DEF Next
<1>2. ASSUME NEW a \in Attempts, NEW keep \in BOOLEAN, CompleteTurn(a, keep) PROVE FlushInv'
      <2> DEFINE s == workerSession[a]
      <2>1. /\ s # None /\ s \in supervisorKey
            /\ active' = [active EXCEPT ![s] = None]
            /\ dirty' = dirty \cup {storageOf[a]}
            /\ UNCHANGED <<unsynced, supervisorKey, workerSession, storageOf, latest,
                           writersStopped, prep, evidence, seal>>
            BY <1>2 DEF CompleteTurn, SettleTurn, EndTurn, KeepRoot, RetainSession, ReleaseSession,
                        RecordStop, ReceiptInv
      <2>2. \A r \in Attempts : Open(r)' => Open(r)
            BY <1>1 DEF SessionsKept, Open
      <2>3. \A u \in Tasks : LastSession(u)' = LastSession(u)
            BY <2>1 DEF LastSession
      <2>4. \A r \in Attempts \ {s} : active'[r] = active[r]
            BY <2>1 DEF TypeInv, TypeOK, SessionTypeOK
      <2> QED BY <2>1, <2>2, <2>3, <2>4 DEF FlushInv
<1>3. ASSUME NEW a \in Attempts, RecoverClosedCheckpoint(a) PROVE FlushInv'
      <2> DEFINE s == workerSession[a]
                 t == storageOf[a]
      <2>1. /\ s \in Attempts /\ latest[t] = a /\ dirty' = dirty \ {t}
            /\ a \in witness /\ SessionStoppedClean(s) /\ EvidenceHolds(s)
            /\ UNCHANGED <<unsynced, supervisorKey, workerSession, storageOf, latest, active,
                           writersStopped, prep, evidence, seal>>
            BY <1>3 DEF RecoverClosedCheckpoint, CheckpointProven, TypeInv, TypeOK, GrantTypeOK
      <2>2. t \in Tasks
            BY <2>1, Identities DEF TypeInv, TypeOK, GrantTypeOK, Bindings
      <2>3. s \in supervisorKey
            BY <2>1 DEF ReceiptInv
      <2>4. evidence[s] # "none" /\ stopReceipt[s] = "clean" /\ s \in writersStopped
            BY <2>1, <2>3 DEF SessionStoppedClean, EvidenceHolds, ValidSessionStopEvidence, TypeInv,
                              TypeOK, SessionTypeOK
      <2>5. seal[s] = "clean"
            BY <2>1, <2>4 DEF ReceiptInv
      <2>6. LastSession(t) = s /\ t \notin unsynced
            BY <2>1, <2>2, <2>4, Identities DEF LastSession, FlushInv
      <2>7. \A r \in Attempts : Open(r)' => Open(r)
            BY <1>1 DEF SessionsKept, Open
      <2>8. \A u \in Tasks : LastSession(u)' = LastSession(u)
            BY <2>1 DEF LastSession
      <2> QED BY <2>1, <2>4, <2>5, <2>6, <2>7, <2>8 DEF FlushInv
<1>4. ASSUME ~ \E a \in Attempts, keep \in BOOLEAN : CompleteTurn(a, keep),
             ~ \E a \in Attempts : RecoverClosedCheckpoint(a)
      PROVE  FlushInv'
      <2>1. /\ dirty \subseteq dirty'
            /\ UNCHANGED <<unsynced, supervisorKey, workerSession, storageOf, latest, active,
                           writersStopped, prep, evidence, seal>>
            BY <1>4 DEF OutboxNext, ReceiveTerminal, RecordResultReceipt, RecordTurnExecutionReceipt,
               ReceiveFailure, RecordFailure, LeaveUnexecuted, QuarantineTurn, RecordStop,
               RecordRecoveryFailure, BeginForward, RejectTerminal, FinishForward,
               FinishRecoveryForward, RecordCompletionWitness, BeginFailureForward,
               RejectFailure, BeginRecoveryForward, RejectRecoveryFailure, OutboxStep
      <2> QED BY <1>1, <2>1, FlushKept
<1> QED BY <1>2, <1>3, <1>4

\* The fence makes the root durable, since no helper of the session is left,
\* and a session closes clean only after the fence or without a write.
LEMMA SessionStopFlush ==
    TypeInv /\ LeaseInv /\ WriterInv /\ ReceiptInv /\ FlushInv /\ SessionStopNext => FlushInv'
<1> SUFFICES ASSUME TypeInv, LeaseInv, WriterInv, ReceiptInv, FlushInv, SessionStopNext
             PROVE  FlushInv'
    OBVIOUS
<1>1. SessionsKept
      <2>1. ASSUME NEW s \in Attempts,
                   \/ RequestSessionStop(s) \/ QuarantineSession(s)
                   \/ RecordSessionControllerFlush(s) \/ RecordSessionStopReceipt(s)
                   \/ ObserveSessionStop(s) \/ CloseSession(s) \/ MarkSessionCleaned(s)
                   \/ RequestStop(s) \/ CloseStopped(s) \/ MarkCleaned(s)
            PROVE  UNCHANGED workerSession
            BY <2>1 DEF RequestSessionStop, QuarantineSession, RecordSessionControllerFlush,
               RecordSessionStopReceipt, ObserveSessionStop, CloseSession, MarkSessionCleaned,
               RequestStop, CloseStopped, MarkCleaned
      <2> QED BY <2>1, KeptUnreserved DEF Next, SessionStopNext
<1>2. ASSUME NEW s \in Attempts, RecordSessionControllerFlush(s) PROVE FlushInv'
      <2>1. /\ s \in sessionStop /\ Open(s) /\ ControllerWritersEnded(s)
            /\ SyncTaskFilesystem(storageOf[s]) /\ writersStopped' = writersStopped \cup {s}
            /\ UNCHANGED <<dirty, supervisorKey, workerSession, storageOf, latest, active, prep,
                           evidence, seal>>
            BY <1>2 DEF RecordSessionControllerFlush, TypeInv, Bindings, Open, Closed
      <2>2. \A b \in ControllerWriters : storageOf[b] # storageOf[s]
            <3> SUFFICES ASSUME NEW b \in ControllerWriters, storageOf[b] = storageOf[s] PROVE FALSE
                OBVIOUS
            <3>1. writer[storageOf[s]] = s
                  BY <2>1 DEF Open, LeaseInv, LeaseAgreement
            <3>2. active[s] = b /\ b \in Attempts
                  BY <3>1, WritersHoldLease
            <3>3. stopActive[s] = b
                  BY <2>1, <3>2, Identities DEF LeaseInv, StopAgreement, Open
            <3>4. checkoutBy[b] = 0 /\ prep[b] # "running"
                  BY <2>1, <3>2, <3>3, Identities DEF ControllerWritersEnded, PreparationSettled
            <3> QED BY <3>4 DEF ControllerWriters, WriterInv, HelperInv
      <2>3. unsynced' = unsynced \ {storageOf[s]}
            BY <2>1, <2>2 DEF SyncTaskFilesystem, ControllerWriters
      <2>4. \A t \in Tasks : latest[t] # None /\ LastSession(t) = s => storageOf[s] = t
            BY Identities DEF WriterInv, RootInv, LastSession, TypeInv, TypeOK, StorageTypeOK
      <2>5. \A t \in Tasks : LastSession(t)' = LastSession(t)
            BY <2>1 DEF LastSession
      <2>6. \A r \in Attempts : Open(r)' => Open(r)
            BY <1>1 DEF SessionsKept, Open
      <2> QED BY <2>1, <2>3, <2>4, <2>5, <2>6 DEF FlushInv
<1>3. ASSUME NEW s \in Attempts, CloseSession(s) PROVE FlushInv'
      <2> DEFINE t == storageOf[s]
      <2>1. /\ EvidenceHolds(s) /\ Open(s) /\ writer[t] = s
            /\ dirty' = IF SessionStoppedClean(s) THEN dirty \ {t} ELSE dirty \cup {t}
            /\ active' = [active EXCEPT ![s] = None]
            /\ sessionState' = [sessionState EXCEPT ![s] = "closed"]
            /\ UNCHANGED <<unsynced, supervisorKey, workerSession, storageOf, latest,
                           writersStopped, prep, evidence, seal>>
            BY <1>3 DEF CloseSession, TypeInv, Bindings, Open, Closed
      <2>2. t \in Tasks /\ latest[t] # None /\ LastSession(t) = s
            BY <2>1, Identities DEF Open, LeaseInv, LeaseAgreement, TypeInv, TypeOK, GrantTypeOK,
                                    WriterInv, RootInv, LastSession
      <2>3. ASSUME SessionStoppedClean(s)
            PROVE  t \notin unsynced /\ (evidence[s] = "terminated" => seal[s] = "clean")
            <3>1. CASE stopReceipt[s] # "none"
                  BY <2>2, <2>3, <3>1 DEF SessionStoppedClean, ReceiptInv, FlushInv
            <3>2. CASE stopReceipt[s] = "none"
                  <4>1. evidence[s] \in {"no-worker", "never-started"} /\ s \notin supervisorKey
                        BY <2>1, <2>3, <3>2 DEF SessionStoppedClean, EvidenceHolds,
                                                ValidSessionStopEvidence
                  <4>2. active[s] # None /\ (prep[active[s]] = "none" => t \notin unsynced)
                        BY <2>1, <4>1 DEF FlushInv
                  <4>3. prep[active[s]] = "none" \/ s \in writersStopped
                        BY <2>3, <3>2, <4>2 DEF SessionStoppedClean, ReceiptInv
                  <4> QED BY <2>2, <4>1, <4>2, <4>3 DEF FlushInv
            <3> QED BY <3>1, <3>2
      <2>4. evidence[s] # "none"
            BY <2>1 DEF EvidenceHolds
      <2>5. \A r \in Attempts : Open(r)' => Open(r) /\ r # s
            BY <1>1, <2>1 DEF SessionsKept, Open, Closed, TypeInv, TypeOK, SessionTypeOK
      <2>6. \A r \in Attempts \ {s} : active'[r] = active[r]
            BY <2>1 DEF TypeInv, TypeOK, SessionTypeOK
      <2>7. \A u \in Tasks : LastSession(u)' = LastSession(u)
            BY <2>1 DEF LastSession
      <2> QED BY <2>1, <2>2, <2>3, <2>4, <2>5, <2>6, <2>7 DEF FlushInv
<1>4. ASSUME NEW s \in Attempts,
             \/ RequestSessionStop(s) \/ QuarantineSession(s) \/ RecordSessionStopReceipt(s)
             \/ ObserveSessionStop(s) \/ MarkSessionCleaned(s)
             \/ RequestStop(s) \/ CloseStopped(s) \/ MarkCleaned(s)
      PROVE  FlushInv'
      <2>1. /\ \A b \in Attempts : evidence[b] # "none" => evidence'[b] = evidence[b]
            /\ UNCHANGED <<unsynced, dirty, supervisorKey, workerSession, storageOf, latest, active,
                           writersStopped, prep, seal>>
            BY <1>4 DEF RequestSessionStop, StopSession, QuarantineSession, RecordSessionStopReceipt,
               ObserveSessionStop, MarkSessionCleaned, RequestStop, CloseStopped, MarkCleaned,
               RecordStop, TypeInv, TypeOK, SessionTypeOK
      <2> QED BY <1>1, <2>1, FlushKept
<1> QED BY <1>2, <1>3, <1>4 DEF SessionStopNext

\* Every step keeps the facts about flushed writes.
LEMMA FlushStep ==
    TypeInv /\ LeaseInv /\ WriterInv /\ ReceiptInv /\ FlushInv /\ [Next]_vars => FlushInv'
<1> SUFFICES ASSUME TypeInv, LeaseInv, WriterInv, ReceiptInv, FlushInv, [Next]_vars
             PROVE  FlushInv'
    OBVIOUS
<1>1. CASE ClusterNext \/ UNCHANGED vars
      <2>1. ASSUME NEW s \in Attempts, NEW outcome \in {"clean", "unclean"}, Seal(s, outcome)
            PROVE  /\ \A b \in Attempts : seal[b] = "clean" => seal'[b] = "clean"
                   /\ UNCHANGED <<unsynced, dirty, supervisorKey, workerSession, storageOf, latest,
                                  active, writersStopped, prep, evidence, sessionState,
                                  resourcesCleaned>>
            BY <2>1 DEF Seal, TypeInv, TypeOK, WorldTypeOK
      <2>2. /\ \A b \in Attempts : seal[b] = "clean" => seal'[b] = "clean"
            /\ UNCHANGED <<unsynced, dirty, supervisorKey, workerSession, storageOf, latest,
                           active, writersStopped, prep, evidence, sessionState, resourcesCleaned>>
            BY <1>1, <2>1 DEF ClusterNext, PodCommits, PodRuns, PodNeverStarts, PodTerminates,
               PodLost, SetPod, WriterExits, BackendStarts, BackendCommits, BackendEnds,
               SetBackend, Restart, ContainerTerminates
      <2>3. SessionsKept
            BY <2>2 DEF SessionsKept, SessionExists, Closed
      <2> QED BY <2>2, <2>3, FlushKept
<1> QED BY <1>1, ReservationFlush, TurnControlFlush, OutboxFlush, SessionStopFlush DEF Next

\* The inductive invariant behind a clean root.
DurableInv == ReceiptInv /\ FlushInv

\* Receipts, fences and syncfs calls keep up with the lease, in every order
\* of stops, late receipts, restarts and retries (sessionStopCommand,
\* CloseSession, recoverClosedCheckpoint).
THEOREM DurableInvariant == Spec => []DurableInv
<1>1. Init => DurableInv
      BY ReceiptInit, FlushInit DEF DurableInv
<1>2. TypeInv /\ LeaseInv /\ WriterInv /\ DurableInv /\ [Next]_vars => DurableInv'
      BY ReceiptStep, FlushStep DEF DurableInv
<1> QED BY <1>1, <1>2, TypeInvariant, LeaseInvariant, WriterInvariant, PTL DEF Spec

\* What the invariants say of a root that is recorded clean.
LEMMA CleanRoot ==
    ASSUME TypeInv, LeaseInv, WriterInv, DurableInv PROVE CleanRootIsDurable
<1> SUFFICES ASSUME NEW t \in Tasks, latest[t] # None, t \notin dirty
             PROVE  /\ t \notin unsynced
                    /\ \A a \in ControllerWriters : storageOf[a] # t
                    /\ \A s \in Attempts : storageOf[s] = t => ~ MayWrite(s)
                    /\ pod[LastSession(t)] = "terminated" => seal[LastSession(t)] = "clean"
    BY DEF CleanRootIsDurable, LastSession
<1>1. \A r \in Attempts : SessionExists(r) /\ ~ Closed(r) => writer[t] # r
      BY Identities DEF LeaseInv, LeaseAgreement
<1>2. /\ \A a \in ControllerWriters : storageOf[a] # t
      /\ \A s \in Attempts : storageOf[s] = t => ~ MayWrite(s)
      BY <1>1, WritersHoldLease
<1>3. LastSession(t) \in Attempts
      BY Identities DEF LastSession, WriterInv, RootInv, TypeInv, TypeOK, StorageTypeOK, GrantTypeOK
<1>4. pod[LastSession(t)] = "terminated" => evidence[LastSession(t)] = "terminated"
      BY <1>3 DEF DurableInv, FlushInv, WriterInv, PodInv, TypeInv, TypeOK, SessionTypeOK
<1> QED BY <1>2, <1>4 DEF DurableInv, FlushInv

\* A root recorded clean is clean (CloseSession, recoverClosedCheckpoint,
\* ReserveTurn): no write of the controller is left unflushed, nothing
\* writes it, and its last session flushed what it wrote or never ran.
THEOREM CleanRootSafe == Spec => []CleanRootIsDurable
BY CleanRoot, TypeInvariant, LeaseInvariant, WriterInvariant, DurableInvariant, PTL

-----------------------------------------------------------------------------
(* Checkpoints.                                                            *)

\* The checkpoint of a clean root is its last turn, witnessed and eligible;
\* the root of a session without a turn has none.
CheckInv ==
    /\ \A t \in Tasks : checkpoint[t] # None /\ t \notin dirty =>
          checkpoint[t] = latest[t] /\ checkpoint[t] \in witness \cap eligible
    /\ \A t \in Tasks : writer[t] # None /\ active[writer[t]] = None => checkpoint[t] = None

\* No root exists at first.
LEMMA CheckInit == Init => CheckInv
BY DEF Init, CheckInv

\* A step that neither takes, settles nor releases a root.
LEMMA CheckKept ==
    ASSUME CheckInv, dirty \subseteq dirty', witness \subseteq witness', eligible \subseteq eligible',
           UNCHANGED <<checkpoint, latest, writer, active>>
    PROVE  CheckInv'
BY DEF CheckInv

\* The turn of a session changes, and its root stays dirty or is released.
LEMMA CheckTurn ==
    ASSUME TypeInv, LeaseInv, CheckInv, NEW s \in Attempts, NEW t \in Tasks,
           writer[t] \in {s, None}, \A u \in Tasks \ {t} : writer[u] # s,
           \A r \in Attempts \ {s} : active'[r] = active[r],
           \A u \in Tasks \ {t} : /\ writer'[u] = writer[u] /\ latest'[u] = latest[u]
                                  /\ checkpoint'[u] = checkpoint[u] /\ (u \in dirty => u \in dirty'),
           witness \subseteq witness', eligible \subseteq eligible',
           checkpoint'[t] # None /\ t \notin dirty' =>
              checkpoint'[t] = latest'[t] /\ checkpoint'[t] \in witness \cap eligible,
           checkpoint'[t] = None \/ writer'[t] = None \/ (writer'[t] = s /\ active'[s] # None)
    PROVE  CheckInv'
<1>1. \A u \in Tasks \ {t} : writer'[u] # None => active'[writer'[u]] = active[writer[u]]
      BY DEF TypeInv, TypeOK, StorageTypeOK, SessionTypeOK
<1> QED BY <1>1 DEF CheckInv

\* A step of the selection that reserves no session leaves roots, checkpoints
\* and the current turns alone (QueueClaim, RecordSelection, DrainIdle).
LEMMA ReservationOrNot ==
    ReservationNext =>
    \/ \E a \in Attempts : ReserveWarm(a)
    \/ \E a \in Attempts, t \in Tasks : ReserveNew(a, t)
    \/ /\ eligible \subseteq eligible'
       /\ UNCHANGED <<dirty, witness, checkpoint, latest, writer, active>>
<1> DEFINE Kept == /\ eligible \subseteq eligible'
                   /\ UNCHANGED <<dirty, witness, checkpoint, latest, writer, active>>
<1>1. ASSUME NEW a \in Attempts, NEW choice, NEW reuse, RecordSelection(a, choice, reuse)
      PROVE  Kept
      BY <1>1 DEF RecordSelection
<1>2. ASSUME NEW s, DrainIdle(s) PROVE Kept
      BY <1>2 DEF DrainIdle
<1>3. ASSUME NEW a \in Attempts, QueueClaim(a) PROVE Kept
      BY <1>3 DEF QueueClaim
<1>4. ASSUME NEW a, DrainCurrent(a) PROVE Kept
      BY <1>2, <1>4 DEF DrainCurrent
<1>5. ASSUME NEW a, NEW s, DrainForCapacity(a, s) PROVE Kept
      BY <1>2, <1>5 DEF DrainForCapacity
<1>6. ASSUME NEW s, ExpireSession(s) PROVE Kept
      BY <1>2, <1>6 DEF ExpireSession
<1> HIDE DEF Kept
<1>7. ReservationNext =>
      \/ \E a \in Attempts : ReserveWarm(a)
      \/ \E a \in Attempts, t \in Tasks : ReserveNew(a, t)
      \/ Kept
      BY <1>1, <1>3, <1>4, <1>5, <1>6 DEF ReservationNext
<1> QED BY <1>7 DEF Kept

\* A reservation marks its root dirty, so no checkpoint of it is reusable.
LEMMA ReservationCheck == TypeInv /\ LeaseInv /\ CheckInv /\ ReservationNext => CheckInv'
<1> SUFFICES ASSUME TypeInv, LeaseInv, CheckInv, ReservationNext PROVE CheckInv'
    OBVIOUS
<1> USE DEF TypeInv, TypeOK, GrantTypeOK, StorageTypeOK
<1>1. ASSUME NEW a \in Attempts, NEW s \in Attempts, NEW t \in Tasks, Reserve(a, s, t),
             writer[t] \in {s, None}, \A u \in Tasks \ {t} : writer[u] # s
      PROVE  CheckInv'
      <2>1. /\ active' = [active EXCEPT ![s] = a]
            /\ writer' = [writer EXCEPT ![t] = s] /\ latest' = [latest EXCEPT ![t] = a]
            /\ dirty' = dirty \cup {t} /\ UNCHANGED <<checkpoint, witness, eligible>>
            BY <1>1 DEF Reserve, TakeRoot
      <2>2. /\ writer'[t] = s /\ active'[s] # None
            /\ \A r \in Attempts \ {s} : active'[r] = active[r]
            /\ \A u \in Tasks \ {t} : writer'[u] = writer[u] /\ latest'[u] = latest[u]
            BY <2>1, Identities DEF SessionTypeOK
      <2> HIDE DEF TypeInv
      <2> QED BY <1>1, <2>1, <2>2, CheckTurn
<1>2. ASSUME NEW a \in Attempts, ReserveWarm(a) PROVE CheckInv'
      <2>1. /\ selection[a] \in Tasks /\ writer[selection[a]] \in Attempts
            /\ storageOf[writer[selection[a]]] = selection[a]
            BY <1>2, Identities DEF ReserveWarm, SelectedWarm, WarmSession
      <2>2. \A u \in Tasks \ {selection[a]} : writer[u] # writer[selection[a]]
            BY <2>1, Identities DEF LeaseInv, LeaseAgreement
      <2> QED BY <1>1, <1>2, <2>1, <2>2 DEF ReserveWarm
<1>3. ASSUME NEW a \in Attempts, NEW t \in Tasks, ReserveNew(a, t) PROVE CheckInv'
      <2>1. ~ SessionExists(a) /\ writer[t] = None
            BY <1>3, Identities DEF ReserveNew, Reservable, ReservableRoot, Bindings
      <2>2. \A u \in Tasks : writer[u] # a
            BY <2>1, Identities DEF LeaseInv, LeaseAgreement
      <2> QED BY <1>1, <1>3, <2>1, <2>2 DEF ReserveNew
<1>4. CASE /\ eligible \subseteq eligible'
           /\ UNCHANGED <<dirty, witness, checkpoint, latest, writer, active>>
      <2> QED BY <1>4, CheckKept
<1> QED BY <1>2, <1>3, <1>4, ReservationOrNot

\* Only proof of a clean end makes a checkpoint, and a later turn removes it.
LEMMA OutboxCheck == TypeInv /\ LeaseInv /\ WriterInv /\ CheckInv /\ OutboxNext => CheckInv'
<1> SUFFICES ASSUME TypeInv, LeaseInv, WriterInv, CheckInv, OutboxNext PROVE CheckInv'
    OBVIOUS
<1>1. ASSUME NEW a \in Attempts, NEW keep \in BOOLEAN, CompleteTurn(a, keep) PROVE CheckInv'
      <2> DEFINE s == workerSession[a]
                 t == storageOf[a]
      <2>1. /\ s # None /\ active[s] = a /\ writer[t] = s
            /\ active' = [active EXCEPT ![s] = None]
            /\ dirty' = dirty \cup {t} /\ checkpoint' = [checkpoint EXCEPT ![t] = None]
            /\ UNCHANGED <<writer, latest, witness, eligible>>
            BY <1>1 DEF CompleteTurn, SettleTurn, EndTurn, KeepRoot
      <2>2. s \in Attempts /\ t \in Tasks /\ storageOf[s] = t
            BY <2>1, Identities DEF TypeInv, TypeOK, GrantTypeOK, Bindings, WriterInv, RootInv
      <2>3. \A u \in Tasks \ {t} : writer[u] # s
            BY <2>2, Identities DEF LeaseInv, LeaseAgreement
      <2>4. /\ checkpoint'[t] = None /\ \A u \in Tasks \ {t} : checkpoint'[u] = checkpoint[u]
            /\ \A r \in Attempts \ {s} : active'[r] = active[r]
            BY <2>1, <2>2 DEF TypeInv, TypeOK, StorageTypeOK, SessionTypeOK
      <2> QED BY <2>1, <2>2, <2>3, <2>4, CheckTurn
<1>2. ASSUME NEW a \in Attempts, RecoverClosedCheckpoint(a) PROVE CheckInv'
      <2> DEFINE t == storageOf[a]
      <2>1. /\ latest[t] = a /\ writer[t] = None /\ a \in witness \cap eligible
            /\ checkpoint' = [checkpoint EXCEPT ![t] = a] /\ dirty' = dirty \ {t}
            /\ UNCHANGED <<writer, latest, witness, eligible, active>>
            BY <1>2 DEF RecoverClosedCheckpoint, CheckpointProven
      <2> QED BY <2>1 DEF CheckInv, TypeInv, TypeOK, StorageTypeOK
<1>3. ASSUME ~ \E a \in Attempts, keep \in BOOLEAN : CompleteTurn(a, keep),
             ~ \E a \in Attempts : RecoverClosedCheckpoint(a)
      PROVE  CheckInv'
      <2>1. /\ dirty \subseteq dirty' /\ witness \subseteq witness'
            /\ UNCHANGED <<eligible, checkpoint, latest, writer, active>>
            BY <1>3 DEF OutboxNext, ReceiveTerminal, RecordResultReceipt, RecordTurnExecutionReceipt,
               ReceiveFailure, RecordFailure, RecordRecoveryFailure, BeginForward,
               RejectTerminal, FinishForward, FinishRecoveryForward, RecordCompletionWitness,
               BeginFailureForward, RejectFailure, BeginRecoveryForward,
               RejectRecoveryFailure, OutboxStep
      <2> QED BY <2>1, CheckKept
<1> QED BY <1>1, <1>2, <1>3

\* A session's close makes a root clean only with its witnessed last turn.
LEMMA SessionStopCheck == TypeInv /\ LeaseInv /\ CheckInv /\ SessionStopNext => CheckInv'
<1> SUFFICES ASSUME TypeInv, LeaseInv, CheckInv, SessionStopNext PROVE CheckInv'
    OBVIOUS
<1>1. ASSUME NEW s \in Attempts, CloseSession(s) PROVE CheckInv'
      <2> DEFINE t == storageOf[s]
      <2>1. /\ Open(s) /\ writer[t] = s
            /\ active' = [active EXCEPT ![s] = None]
            /\ writer' = [writer EXCEPT ![t] = None]
            /\ dirty' \in {dirty \ {t}, dirty \cup {t}}
            /\ ~ SessionStoppedClean(s) => dirty' = dirty \cup {t}
            /\ checkpoint' = [checkpoint EXCEPT ![t] =
                  IF CheckpointProven(latest[t], t, s) THEN latest[t]
                  ELSE IF active[s] # None \/ ~ SessionStoppedClean(s) THEN None ELSE @]
            /\ UNCHANGED <<latest, witness, eligible>>
            BY <1>1 DEF CloseSession, TypeInv, Bindings, Open, Closed
      <2>2. t \in Tasks
            BY <2>1, Identities DEF Open, LeaseInv, LeaseAgreement, TypeInv, TypeOK, GrantTypeOK
      <2>3. \A u \in Tasks \ {t} : writer[u] # s
            BY <2>2, Identities DEF LeaseInv, LeaseAgreement
      <2>4. active[s] = None => checkpoint[t] = None
            BY <2>1, <2>2, Identities DEF CheckInv
      <2>5. checkpoint'[t] # None =>
               checkpoint'[t] = latest[t] /\ CheckpointProven(latest[t], t, s)
            BY <2>1, <2>2, <2>4 DEF TypeInv, TypeOK, StorageTypeOK
      <2>6. checkpoint'[t] # None => checkpoint'[t] \in witness \cap eligible
            BY <2>5 DEF CheckpointProven
      <2>7. /\ writer'[t] = None
            /\ \A u \in Tasks \ {t} : writer'[u] = writer[u] /\ checkpoint'[u] = checkpoint[u]
            /\ \A r \in Attempts \ {s} : active'[r] = active[r]
            BY <2>1, <2>2 DEF TypeInv, TypeOK, StorageTypeOK, SessionTypeOK
      <2> QED BY <2>1, <2>2, <2>3, <2>5, <2>6, <2>7, CheckTurn
<1>2. ASSUME NEW s \in Attempts,
             \/ RequestSessionStop(s) \/ QuarantineSession(s) \/ RecordSessionControllerFlush(s)
             \/ RecordSessionStopReceipt(s) \/ ObserveSessionStop(s) \/ MarkSessionCleaned(s)
             \/ RequestStop(s) \/ CloseStopped(s) \/ MarkCleaned(s)
      PROVE  CheckInv'
      <2>1. UNCHANGED <<dirty, witness, eligible, checkpoint, latest, writer, active>>
            BY <1>2 DEF RequestSessionStop, QuarantineSession, RecordSessionControllerFlush,
               RecordSessionStopReceipt, ObserveSessionStop, MarkSessionCleaned, RequestStop,
               CloseStopped, MarkCleaned
      <2> QED BY <2>1, CheckKept
<1> QED BY <1>1, <1>2 DEF SessionStopNext

\* Every step keeps the facts about checkpoints.
LEMMA CheckStep == TypeInv /\ LeaseInv /\ WriterInv /\ CheckInv /\ [Next]_vars => CheckInv'
<1> SUFFICES ASSUME TypeInv, LeaseInv, WriterInv, CheckInv, [Next]_vars PROVE CheckInv'
    OBVIOUS
<1>1. CASE TurnControlNext
      <2>1. UNCHANGED <<dirty, witness, eligible, checkpoint, latest, writer, active>>
            BY <1>1 DEF TurnControlNext, BeginPreparation, CheckpointPreparation,
               CompletePreparation, InterruptPreparation, PublishTurn, AcceptTurn, Admit,
               Offer, BeginStart, MarkStarted, GrantStep, BeginCheckout, CompleteCheckout,
               CloseCheckouts, CheckoutsFlushed, SetSessionResources, BindSessionPod,
               AdmitSession
      <2> QED BY <2>1, CheckKept
<1>2. CASE ClusterNext \/ UNCHANGED vars
      <2>1. UNCHANGED <<dirty, witness, eligible, checkpoint, latest, writer, active>>
            BY <1>2 DEF ClusterNext, PodCommits, PodRuns, PodNeverStarts, PodTerminates,
               PodLost, SetPod, Seal, WriterExits, BackendStarts, BackendCommits, BackendEnds,
               SetBackend, Restart, ContainerTerminates, vars
      <2> QED BY <2>1, CheckKept
<1> QED BY <1>1, <1>2, ReservationCheck, OutboxCheck, SessionStopCheck DEF Next

\* What a checkpoint says of its root holds in every behaviour (CompleteTurn,
\* CloseSession, recoverClosedCheckpoint).
THEOREM CheckInvariant == Spec => []CheckInv
BY CheckInit, CheckStep, TypeInvariant, LeaseInvariant, WriterInvariant, PTL DEF Spec

\* A checkpoint that a later turn may reuse is the last turn of its root,
\* and the backend holds its result (CloseSession, CompleteTurn,
\* recoverClosedCheckpoint, RecordCompletionWitness).
THEOREM CheckpointSafe == Spec => []CheckpointIsAccepted
<1>1. CheckInv /\ TypeInv /\ DeliveredIsAccepted => CheckpointIsAccepted
      BY DEF CheckInv, DeliveredIsAccepted, CheckpointIsAccepted, TypeInv, TypeOK, GrantTypeOK
<1> QED BY <1>1, CheckInvariant, TypeInvariant, DeliverySafe, PTL


-----------------------------------------------------------------------------
(***************************************************************************)
(* The registry stays valid, for any number of attempts, sessions, roots   *)
(* and restarts: what Store.write checks of every registry before it is    *)
(* published follows from the guards of the transactions, so no            *)
(* transaction is refused and every journal can be opened again.           *)
(***************************************************************************)

\* A claim has no turn yet, a turn was selected and is cleaned with its
\* session, and a turn is closed exactly when it is complete.
ClaimInv ==
    /\ \A a \in Attempts : workerSession[a] = None =>
          /\ state[a] \in {"unknown", "waiting_storage", "unexecuted", "closed"}
          /\ a \notin accepted \cup complete
          /\ state[a] = "unexecuted" => source[a] = "controller"
          /\ state[a] = "closed" => a \in stopped
    /\ \A a \in Attempts : workerSession[a] # None =>
          /\ state[a] # "unexecuted" /\ selection[a] # None
          /\ state[a] = "closed" <=> a \in complete
    /\ \A a \in cleaned : workerSession[a] = None /\ state[a] = "closed"

\* A turn works on a root of its conversation, and a resident session is the
\* current one of its conversation, on the root the conversation names.
ConversationInv ==
    /\ \A a \in Attempts : selection[a] \in Tasks =>
          ConversationOf[selection[a]] = ConversationOf[TaskOf[a]]
    /\ \A a \in Attempts : workerSession[a] # None =>
          ConversationOf[storageOf[a]] = ConversationOf[TaskOf[a]]
    /\ \A c \in Conversations : ConversationValid(c)
    /\ \A s \in Residents : currentSession[ConversationOf[TaskOf[s]]] = s

\* The turn a session runs is the last of its root; the last turn of an idle
\* session is too, and is settled.
HeadInv ==
    /\ \A a \in Attempts : storageOf[a] # None => latest[storageOf[a]] # None
    /\ \A s \in Attempts : active[s] # None =>
          latest[storageOf[s]] = active[s] /\ active[s] \notin complete
    /\ \A s \in Attempts :
          sessionState[s] \in {"creating", "reserved", "running", "finishing"} => active[s] # None
    /\ \A s \in Attempts : sessionState[s] = "idle" =>
          /\ active[s] = None /\ lastComplete[s] # None
          /\ latest[storageOf[s]] = lastComplete[s] /\ storageOf[s] \notin quarantined
    /\ \A s \in Attempts : lastComplete[s] # None =>
          /\ workerSession[lastComplete[s]] = s
          /\ lastComplete[s] \in complete \cap execReceipt \cap witness

\* A Pod is requested for a prepared root, a supervisor runs in a bound Pod,
\* and a turn goes on in the worker only with all of them.
ProgressInv ==
    /\ supervisorKey \subseteq podBound
    /\ \A s \in podRequested : storageOf[s] \in rootPrepared
    /\ \A a \in Attempts : prep[a] = "prepared" => storageOf[a] \in rootPrepared
    /\ \A a \in Attempts : checkoutBy[a] # 0 => a \in needsFlush
    /\ \A a \in needsFlush : prep[a] = "prepared"
    /\ \A a \in Attempts :
          state[a] \in {"assigned", "ready", "offered", "starting", "started", "terminal_received"} =>
             workerSession[a] \in supervisorKey /\ prep[a] = "prepared"
    /\ \A a \in startConfirmed :
          /\ workerSession[a] \in supervisorKey
          /\ state[a] \notin {"intent", "assigned", "ready", "offered", "starting"}

\* What a terminal record says of its turn, and the turn of its record.
TerminalInv ==
    /\ \A a \in Attempts : source[a] # "none" =>
          /\ state[a] \in {"terminal_received", "quarantined", "unexecuted", "closed"}
          /\ kind[a] # "none"
    /\ \A a \in Attempts : state[a] = "terminal_received" => source[a] = "worker"
    /\ \A a \in execReceipt :
          source[a] = "worker" /\ CheckoutFenced(a) /\ prep[a] \in {"stopped", "prepared"}
    /\ \A a \in witness : delivery[a] = "delivered"
    /\ \A a \in resultReceipt : AuthenticResult(a)
    /\ \A a \in Attempts : recovery[a] # "none" =>
          /\ delivery[a] = "received" /\ a \in stopped \cap checkoutClosed
          /\ StopEvidence(a) = "terminated"
    /\ \A a \in Attempts : source[a] = "controller" /\ state[a] = "closed" /\ workerSession[a] # None =>
          a \in stopped /\ StopEvidence(a) # "none"

\* A stop names the stopped turn, and what it records of the end of the
\* session's writers stays true of that turn.
StopInv ==
    /\ \A s \in Attempts : stopActive[s] # None =>
          s \in sessionStop /\ workerSession[stopActive[s]] = s /\ stopActive[s] \in stopped
    /\ \A s \in Attempts : s \in sessionStop => StopRecordValid(s)
    /\ \A s \in Attempts : stopReceipt[s] # "none" => s \in sessionStop \cap supervisorKey
    /\ \A s \in resourcesCleaned : Closed(s)
    /\ \A s \in preparedFlush : evidence[s] # "none"

\* A quarantined turn is stopped and its root quarantined; a complete turn
\* has both receipts or went with its session.
OverInv ==
    /\ \A a \in Attempts : state[a] = "quarantined" =>
          a \in stopped /\ storageOf[a] \in quarantined
    /\ \A a \in complete :
          a \in revoked /\ (a \in execReceipt \cap witness \/ Closed(workerSession[a]))

\* What is said of the source of a checkpoint when it is written stays true: a
\* witnessed turn of a closed session that ended clean, or wrote nothing.
CheckpointBasis(a, t) ==
    LET s == workerSession[a] IN
    /\ a \in complete \cap witness \cap eligible /\ CheckpointOutcome(a) /\ storageOf[a] = t
    /\ s # None /\ Closed(s)
    /\ \/ stopReceipt[s] = "clean"
       \/ stopReceipt[s] = "none" /\ evidence[s] \in {"no-worker", "never-started"}

CheckpointInv == \A t \in Tasks : checkpoint[t] # None => CheckpointBasis(checkpoint[t], t)

ValidityInv ==
    /\ ClaimInv /\ ConversationInv /\ HeadInv /\ ProgressInv
    /\ TerminalInv /\ StopInv /\ OverInv /\ CheckpointInv

-----------------------------------------------------------------------------
(* What no step takes back.                                                *)

\* A grant keeps what it was bound to, its authority only shrinks, its
\* receipts only grow, and a fenced writer of a stopped turn stays fenced.
GrantsAdvance ==
    /\ \A a \in Attempts : workerSession[a] # None =>
          workerSession'[a] = workerSession[a] /\ storageOf'[a] = storageOf[a]
    /\ \A a \in Attempts : selection[a] # None => selection'[a] = selection[a]
    /\ \A a \in Attempts : prep[a] \in {"stopped", "prepared"} => prep'[a] = prep[a]
    /\ revoked \subseteq revoked' /\ stopped \subseteq stopped'
    /\ checkoutClosed \subseteq checkoutClosed' /\ startConfirmed \subseteq startConfirmed'
    /\ execReceipt \subseteq execReceipt' /\ witness \subseteq witness' /\ eligible \subseteq eligible'
    /\ \A a \in Attempts : CheckoutFenced(a) => CheckoutFenced(a)'
    /\ \A a \in stopped : /\ checkoutBy[a] = 0 => checkoutBy'[a] = 0
                          /\ PreparationSettled(a) => PreparationSettled(a)'

\* A session keeps its Pod, its supervisor and the record of its stop, and a
\* root its preparation.
SessionsAdvance ==
    /\ podRequested \subseteq podRequested' /\ podBound \subseteq podBound'
    /\ supervisorKey \subseteq supervisorKey' /\ sessionStop \subseteq sessionStop'
    /\ writersStopped \subseteq writersStopped' /\ rootPrepared \subseteq rootPrepared'
    /\ \A s \in sessionStop : stopActive'[s] = stopActive[s]
    /\ \A s \in Attempts : evidence[s] # "none" => evidence'[s] = evidence[s]
    /\ \A s \in Attempts : stopReceipt[s] # "none" => stopReceipt'[s] = stopReceipt[s]

Advance == GrantsAdvance /\ SessionsAdvance

advanceVars == <<workerSession, storageOf, selection, prep, checkoutBy, needsFlush,
                 checkoutClosed, startConfirmed, execReceipt, witness, eligible, podVars,
                 writersStopped, rootPrepared, evidence, stopReceipt>>

\* Steps that at most revoke and stop.
LEMMA AdvanceKept ==
    ASSUME TypeInv, UNCHANGED advanceVars,
           revoked \subseteq revoked', stopped \subseteq stopped', sessionStop \subseteq sessionStop',
           \A s \in sessionStop : stopActive'[s] = stopActive[s]
    PROVE  Advance
BY DEF advanceVars, Advance, GrantsAdvance, SessionsAdvance, CheckoutFenced, PreparationSettled

\* A stop record is written once.
LEMMA StopRecorded ==
    ASSUME TypeInv, NEW s, NEW turn, RecordStop(s, turn)
    PROVE  /\ sessionStop \subseteq sessionStop' /\ \A r \in sessionStop : stopActive'[r] = stopActive[r]
           /\ UNCHANGED <<writersStopped, stopReceipt, evidence, preparedFlush>>
BY DEF RecordStop, TypeInv, TypeOK, SessionTypeOK

\* Claims, selections and reservations.
LEMMA ReservationAdvance == TypeInv /\ ReservationNext => Advance
<1> SUFFICES ASSUME TypeInv, ReservationNext PROVE Advance
    OBVIOUS
<1>1. ASSUME NEW a \in Attempts, QueueClaim(a) PROVE Advance
      BY <1>1, AdvanceKept DEF QueueClaim, advanceVars
<1>2. ASSUME NEW a \in Attempts, NEW choice \in Tasks \cup {Fresh}, NEW reuse \in BOOLEAN,
             RecordSelection(a, choice, reuse)
      PROVE  Advance
      BY <1>2 DEF RecordSelection, Advance, GrantsAdvance, SessionsAdvance, CheckoutFenced,
                  PreparationSettled, TypeInv, TypeOK, GrantTypeOK
<1>3. ASSUME NEW a \in Attempts, NEW s, NEW t, workerSession[a] = None, Reserve(a, s, t)
      PROVE  Advance
      BY <1>3 DEF Reserve, Advance, GrantsAdvance, SessionsAdvance, CheckoutFenced,
                  PreparationSettled, TypeInv, TypeOK, GrantTypeOK
<1>4. ASSUME NEW a \in Attempts, NEW t \in Tasks, ReserveWarm(a) \/ ReserveNew(a, t)
      PROVE  Advance
      BY <1>3, <1>4 DEF ReserveWarm, ReserveNew, Reservable
<1>5. ASSUME NEW s, DrainIdle(s) PROVE Advance
      <2>1. revoked \subseteq revoked' /\ stopped \subseteq stopped' /\ UNCHANGED advanceVars
            BY <1>5, StopRecorded DEF DrainIdle, RevokeTurn, advanceVars
      <2> QED BY <1>5, <2>1, StopRecorded, AdvanceKept DEF DrainIdle
<1>6. \A a \in Attempts : TaskOf[a] \in Tasks
      BY Identities
<1> QED BY <1>1, <1>2, <1>4, <1>5, <1>6
        DEF ReservationNext, DrainCurrent, DrainForCapacity, ExpireSession

\* Preparation, Pods, the start of a turn and its checkouts.
LEMMA TurnControlAdvance == TypeInv /\ LeaseInv /\ TurnControlNext => Advance
<1> SUFFICES ASSUME TypeInv, LeaseInv, TurnControlNext PROVE Advance
    OBVIOUS
<1>1. stopped \subseteq revoked
      BY DEF LeaseInv, TurnOwnership
<1>2. ASSUME NEW a \in Attempts, NEW prepared \in BOOLEAN,
             \/ BeginPreparation(a) \/ CheckpointPreparation(a)
             \/ CompletePreparation(a, prepared)
             \/ BeginCheckout(a) \/ CompleteCheckout(a)
             \/ CloseCheckouts(a) \/ CheckoutsFlushed(a)
      PROVE  Advance
      BY <1>1, <1>2 DEF BeginPreparation, CheckpointPreparation, CompletePreparation, BeginCheckout,
         CompleteCheckout, CloseCheckouts, CheckoutsFlushed, Advance, GrantsAdvance,
         SessionsAdvance, CheckoutFenced, PreparationSettled, TypeInv, TypeOK, GrantTypeOK
<1>3. ASSUME NEW a \in Attempts, InterruptPreparation(a) PROVE Advance
      <2>1. /\ RecordStop(workerSession[a], active[workerSession[a]])
            /\ revoked \subseteq revoked' /\ stopped \subseteq stopped'
            /\ prep[a] = "running" /\ prep' = [prep EXCEPT ![a] = "stopped"]
            /\ UNCHANGED <<workerSession, storageOf, selection, checkoutBy, needsFlush,
                           checkoutClosed, startConfirmed, execReceipt, witness, eligible,
                           podVars, rootPrepared>>
            BY <1>3 DEF InterruptPreparation, RevokeTurn
      <2> QED BY <2>1, StopRecorded DEF Advance, GrantsAdvance, SessionsAdvance, CheckoutFenced,
              PreparationSettled, TypeInv, TypeOK, GrantTypeOK
<1>4. ASSUME NEW a \in Attempts,
             \/ PublishTurn(a) \/ AcceptTurn(a) \/ Admit(a) \/ Offer(a) \/ BeginStart(a)
      PROVE  Advance
      <2>1. UNCHANGED <<advanceVars, revoked, stopped, sessionStop, stopActive>>
            BY <1>4 DEF PublishTurn, AcceptTurn, Admit, Offer, BeginStart, GrantStep, advanceVars
      <2> QED BY <2>1, AdvanceKept
<1>5. ASSUME NEW a \in Attempts,
             MarkStarted(a) \/ SetSessionResources(a) \/ BindSessionPod(a) \/ AdmitSession(a)
      PROVE  Advance
      BY <1>5 DEF MarkStarted, GrantStep, SetSessionResources, BindSessionPod, AdmitSession,
         Advance, GrantsAdvance, SessionsAdvance, CheckoutFenced, PreparationSettled
<1> QED BY <1>2, <1>3, <1>4, <1>5 DEF TurnControlNext

\* Results, failures and their delivery.
LEMMA OutboxAdvance == TypeInv /\ OutboxNext => Advance
<1> SUFFICES ASSUME TypeInv, OutboxNext PROVE Advance
    OBVIOUS
<1>1. ASSUME NEW a \in Attempts, NEW keep \in BOOLEAN, CompleteTurn(a, keep) PROVE Advance
      <2>1. /\ revoked \subseteq revoked' /\ UNCHANGED <<stopped, workerSession, storageOf, selection,
               prep, checkoutBy, needsFlush, checkoutClosed, startConfirmed, execReceipt, witness,
               eligible, podVars, rootPrepared>>
            /\ UNCHANGED stopVars \/ RecordStop(workerSession[a], None)
            BY <1>1 DEF CompleteTurn, SettleTurn, EndTurn, KeepRoot, RetainSession, ReleaseSession
      <2>2. UNCHANGED advanceVars
            BY <2>1, StopRecorded DEF advanceVars
      <2> QED BY <2>1, <2>2, StopRecorded, AdvanceKept
<1>2. ASSUME NEW a \in Attempts, ReceiveFailure(a) PROVE Advance
      <2>1. /\ UNCHANGED <<workerSession, storageOf, selection,
               prep, checkoutBy, needsFlush, checkoutClosed, startConfirmed, execReceipt, witness,
               eligible, podVars, rootPrepared>>
            /\ \/ UNCHANGED <<stopVars, revoked, stopped>>
               \/ /\ RecordStop(workerSession[a], active[workerSession[a]])
                  /\ revoked \subseteq revoked' /\ stopped \subseteq stopped'
            BY <1>2 DEF ReceiveFailure, RecordFailure, QuarantineTurn, LeaveUnexecuted, RevokeTurn
      <2>2. UNCHANGED advanceVars
            BY <2>1, StopRecorded DEF advanceVars
      <2> QED BY <2>1, <2>2, StopRecorded, AdvanceKept
<1>3. ASSUME NEW a \in Attempts, RecordTurnExecutionReceipt(a) \/ RecordCompletionWitness(a)
      PROVE  Advance
      BY <1>3 DEF RecordTurnExecutionReceipt, RecordCompletionWitness, Advance, GrantsAdvance,
         SessionsAdvance, CheckoutFenced, PreparationSettled
<1>4. ASSUME NEW a \in Attempts, NEW k \in ResultKinds \cup {"cancel-ack"}, NEW outcome \in Outcomes,
             \/ ReceiveTerminal(a, k) \/ RecordResultReceipt(a) \/ RecordRecoveryFailure(a)
             \/ BeginForward(a) \/ RejectTerminal(a) \/ FinishForward(a, outcome)
             \/ FinishRecoveryForward(a, outcome)
             \/ BeginFailureForward(a) \/ RejectFailure(a)
             \/ BeginRecoveryForward(a) \/ RejectRecoveryFailure(a)
             \/ RecoverClosedCheckpoint(a)
      PROVE  Advance
      <2>1. UNCHANGED <<advanceVars, revoked, stopped, sessionStop, stopActive>>
            BY <1>4 DEF ReceiveTerminal, RecordResultReceipt, RecordRecoveryFailure, BeginForward,
               RejectTerminal, FinishForward, FinishRecoveryForward, BeginFailureForward,
               RejectFailure, BeginRecoveryForward, RejectRecoveryFailure,
               RecoverClosedCheckpoint, OutboxStep, advanceVars
      <2> QED BY <2>1, AdvanceKept
<1>5. "received" \in Outcomes /\ "cancel-ack" \in ResultKinds \cup {"cancel-ack"}
      BY DEF Outcomes
<1> QED BY <1>1, <1>2, <1>3, <1>4, <1>5 DEF OutboxNext

\* Stops, fences and releases.
LEMMA SessionStopAdvance == TypeInv /\ SessionStopNext => Advance
<1> SUFFICES ASSUME TypeInv, SessionStopNext PROVE Advance
    OBVIOUS
<1>1. ASSUME NEW s \in Attempts, RequestSessionStop(s) \/ QuarantineSession(s) \/ RequestStop(s)
      PROVE  Advance
      <2>1. /\ UNCHANGED <<workerSession, storageOf, selection,
               prep, checkoutBy, needsFlush, checkoutClosed, startConfirmed, execReceipt, witness,
               eligible, podVars, rootPrepared>>
            /\ revoked \subseteq revoked' /\ stopped \subseteq stopped'
            /\ \/ UNCHANGED stopVars \/ RecordStop(s, active[s])
               \/ RecordStop(workerSession[s], active[workerSession[s]])
            BY <1>1 DEF RequestSessionStop, StopSession, QuarantineSession, RequestStop, RevokeTurn
      <2>2. UNCHANGED advanceVars
            BY <2>1, StopRecorded DEF advanceVars
      <2> QED BY <2>1, <2>2, StopRecorded, AdvanceKept
<1>2. ASSUME NEW s \in Attempts,
             \/ RecordSessionControllerFlush(s) \/ RecordSessionStopReceipt(s) \/ ObserveSessionStop(s)
             \/ CloseStopped(s)
      PROVE  Advance
      BY <1>2 DEF RecordSessionControllerFlush, RecordSessionStopReceipt, ObserveSessionStop,
         CloseStopped, Advance, GrantsAdvance, SessionsAdvance, CheckoutFenced, PreparationSettled,
         TypeInv, TypeOK, SessionTypeOK
<1>3. ASSUME NEW s \in Attempts, CloseSession(s) \/ MarkSessionCleaned(s) \/ MarkCleaned(s)
      PROVE  Advance
      <2>1. UNCHANGED <<advanceVars, stopped, sessionStop, stopActive>> /\ revoked \subseteq revoked'
            BY <1>3 DEF CloseSession, MarkSessionCleaned, MarkCleaned, advanceVars
      <2> QED BY <2>1, AdvanceKept
<1> QED BY <1>1, <1>2, <1>3 DEF SessionStopNext

\* Nothing is taken back by any step.
LEMMA AdvanceStep == TypeInv /\ LeaseInv /\ [Next]_vars => Advance
<1> SUFFICES ASSUME TypeInv, LeaseInv, [Next]_vars PROVE Advance
    OBVIOUS
<1>1. CASE ClusterNext
      <2>1. UNCHANGED <<advanceVars, revoked, stopped, sessionStop, stopActive>>
            BY <1>1 DEF advanceVars, ClusterNext, PodCommits, PodRuns, PodNeverStarts,
               PodTerminates, PodLost, SetPod, Seal, WriterExits, BackendStarts,
               BackendCommits, BackendEnds, SetBackend, Restart, ContainerTerminates
      <2> QED BY <2>1, AdvanceKept
<1>2. CASE UNCHANGED vars
      BY <1>2, AdvanceKept DEF advanceVars
<1> QED BY <1>1, <1>2, ReservationAdvance, TurnControlAdvance, OutboxAdvance, SessionStopAdvance
        DEF Next
-----------------------------------------------------------------------------
(* Claims and turns.                                                       *)

claimInvVars == <<workerSession, state, selection, cleaned, complete, accepted>>

\* There is no claim at first.
LEMMA ClaimInit == Init => ClaimInv
BY DEF Init, ClaimInv

\* A step that neither moves a grant nor forgets its stop or its record.
LEMMA ClaimKept ==
    ASSUME ClaimInv, UNCHANGED claimInvVars, stopped \subseteq stopped',
           \A a \in Attempts : source[a] # "none" => source'[a] = source[a]
    PROVE  ClaimInv'
BY DEF claimInvVars, ClaimInv

\* A turn moves on, or a claim is queued; neither is closed.
LEMMA ClaimMoves ==
    ASSUME TypeInv, ClaimInv, NEW a \in Attempts, NEW st, state' = [state EXCEPT ![a] = st],
           state[a] # "closed", st \notin {"closed", "unexecuted"},
           workerSession[a] = None => st = "waiting_storage",
           UNCHANGED <<workerSession, selection, cleaned, complete, accepted>>,
           stopped \subseteq stopped',
           \A b \in Attempts : source[b] # "none" => source'[b] = source[b]
    PROVE  ClaimInv'
BY DEF ClaimInv, TypeInv, TypeOK, GrantTypeOK

\* Claims and reservations.
LEMMA ReservationClaim == TypeInv /\ ClaimInv /\ ReservationNext => ClaimInv'
<1> SUFFICES ASSUME TypeInv, ClaimInv, ReservationNext PROVE ClaimInv'
    OBVIOUS
<1>1. ASSUME NEW a \in Attempts, QueueClaim(a) PROVE ClaimInv'
      <2>1. workerSession[a] = None
            BY <1>1 DEF QueueClaim, TypeInv, Bindings
      <2>2. /\ state[a] = "unknown" /\ state' = [state EXCEPT ![a] = "waiting_storage"]
            /\ UNCHANGED <<workerSession, selection, cleaned, complete, accepted, stopped, source>>
            BY <1>1 DEF QueueClaim
      <2> QED BY <2>1, <2>2 DEF ClaimInv, TypeInv, TypeOK, GrantTypeOK
<1>2. ASSUME NEW a \in Attempts, NEW choice \in Tasks \cup {Fresh}, NEW reuse \in BOOLEAN,
             RecordSelection(a, choice, reuse)
      PROVE  ClaimInv'
      <2>1. choice # None
            BY TasksAssumption
      <2> QED BY <1>2, <2>1 DEF RecordSelection, ClaimInv, TypeInv, TypeOK, GrantTypeOK
<1>3. ASSUME NEW a \in Attempts, NEW s \in Attempts, NEW t, Reservable(a), Reserve(a, s, t)
      PROVE  ClaimInv'
      <2>1. /\ workerSession' = [workerSession EXCEPT ![a] = s]
            /\ state' = [state EXCEPT ![a] = "intent"]
            /\ state[a] = "waiting_storage" /\ workerSession[a] = None /\ selection[a] # None
            /\ UNCHANGED <<selection, cleaned, complete, accepted, stopped, source>>
            BY <1>3 DEF Reserve, Reservable
      <2>2. a \notin cleaned /\ a \notin complete
            BY <2>1 DEF ClaimInv
      <2>3. s # None
            BY Identities
      <2> QED BY <2>1, <2>2, <2>3 DEF ClaimInv, TypeInv, TypeOK, GrantTypeOK
<1>4. ASSUME NEW a \in Attempts, NEW t \in Tasks, ReserveWarm(a) \/ ReserveNew(a, t)
      PROVE  ClaimInv'
      <2>1. ReserveWarm(a) => writer[selection[a]] \in Attempts
            BY DEF ReserveWarm, SelectedWarm, TypeInv, TypeOK, StorageTypeOK
      <2> QED BY <1>3, <1>4, <2>1 DEF ReserveWarm, ReserveNew
<1>5. ASSUME NEW s, DrainIdle(s) PROVE ClaimInv'
      <2>1. UNCHANGED <<claimInvVars, source>> /\ stopped \subseteq stopped'
            BY <1>5 DEF DrainIdle, RevokeTurn, claimInvVars
      <2> QED BY <2>1, ClaimKept
<1>6. \A a \in Attempts : TaskOf[a] \in Tasks
      BY Identities
<1> QED BY <1>1, <1>2, <1>4, <1>5, <1>6
        DEF ReservationNext, DrainCurrent, DrainForCapacity, ExpireSession

\* The start of a turn.
LEMMA TurnControlClaim == TypeInv /\ ClaimInv /\ TurnControlNext => ClaimInv'
<1> SUFFICES ASSUME TypeInv, ClaimInv, TurnControlNext PROVE ClaimInv'
    OBVIOUS
<1>1. ASSUME NEW a \in Attempts,
             \/ PublishTurn(a) \/ Admit(a) \/ Offer(a) \/ BeginStart(a) \/ MarkStarted(a)
      PROVE  ClaimInv'
      <2>1. CurrentSessionTurn(a) /\ UNCHANGED <<workerSession, selection, cleaned, complete,
                                                 accepted, stopped, source>>
            BY <1>1 DEF PublishTurn, Admit, Offer, BeginStart, MarkStarted, GrantStep
      <2>2. /\ state[a] # "closed"
            /\ \E st \in {"assigned", "ready", "offered", "starting", "started"} :
                  state' = [state EXCEPT ![a] = st]
            BY <1>1 DEF PublishTurn, Admit, Offer, BeginStart, MarkStarted, GrantStep
      <2> QED BY <2>1, <2>2, ClaimMoves DEF CurrentSessionTurn
<1>2. ASSUME NEW a \in Attempts, AcceptTurn(a) PROVE ClaimInv'
      <2>1. workerSession[a] # None
            BY <1>2 DEF AcceptTurn, CurrentSessionTurn
      <2> QED BY <1>2, <2>1 DEF AcceptTurn, ClaimInv
<1>3. ASSUME NEW a \in Attempts, NEW prepared \in BOOLEAN,
             \/ BeginPreparation(a) \/ CheckpointPreparation(a)
             \/ CompletePreparation(a, prepared) \/ InterruptPreparation(a)
             \/ BeginCheckout(a) \/ CompleteCheckout(a) \/ CloseCheckouts(a)
             \/ CheckoutsFlushed(a) \/ SetSessionResources(a) \/ BindSessionPod(a)
             \/ AdmitSession(a)
      PROVE  ClaimInv'
      <2>1. UNCHANGED <<claimInvVars, source>> /\ stopped \subseteq stopped'
            BY <1>3 DEF claimInvVars, BeginPreparation, CheckpointPreparation, CompletePreparation,
               InterruptPreparation, RevokeTurn, BeginCheckout, CompleteCheckout,
               CloseCheckouts, CheckoutsFlushed, SetSessionResources, BindSessionPod, AdmitSession
      <2> QED BY <2>1, ClaimKept
<1> QED BY <1>1, <1>2, <1>3 DEF TurnControlNext

\* Results, failures and completion.
LEMMA OutboxClaim == TypeInv /\ LeaseInv /\ ClaimInv /\ OutboxNext => ClaimInv'
<1> SUFFICES ASSUME TypeInv, LeaseInv, ClaimInv, OutboxNext PROVE ClaimInv'
    OBVIOUS
<1>1. ASSUME NEW a \in Attempts, NEW k \in ResultKinds \cup {"cancel-ack"}, ReceiveTerminal(a, k)
      PROVE  ClaimInv'
      <2>1. /\ workerSession[a] # None /\ source[a] = "none" /\ state[a] # "closed"
            /\ state' = [state EXCEPT ![a] = "terminal_received"]
            /\ source' = [source EXCEPT ![a] = "worker"]
            /\ UNCHANGED <<workerSession, selection, cleaned, complete, accepted, stopped>>
            BY <1>1 DEF ReceiveTerminal, WorkerHeard
      <2>2. \A b \in Attempts : source[b] # "none" => source'[b] = source[b]
            BY <2>1 DEF TypeInv, TypeOK, OutboxTypeOK
      <2> QED BY <2>1, <2>2 DEF ClaimInv, TypeInv, TypeOK, GrantTypeOK
<1>2. ASSUME NEW a \in Attempts, ReceiveFailure(a) PROVE ClaimInv'
      <2>1. /\ source[a] = "none" /\ state[a] # "closed"
            /\ source' = [source EXCEPT ![a] = "controller"]
            /\ UNCHANGED <<workerSession, selection, cleaned, complete, accepted>>
            /\ stopped \subseteq stopped'
            /\ \/ workerSession[a] # None /\ state' = [state EXCEPT ![a] = "quarantined"]
               \/ workerSession[a] = None /\ state' = [state EXCEPT ![a] = "unexecuted"]
            BY <1>2 DEF ReceiveFailure, RecordFailure, QuarantineTurn, LeaveUnexecuted, RevokeTurn
      <2>2. ASSUME workerSession[a] = None, state' = [state EXCEPT ![a] = "unexecuted"]
            PROVE  ClaimInv'
            BY <2>1, <2>2 DEF ClaimInv, TypeInv, TypeOK, GrantTypeOK, OutboxTypeOK
      <2> QED BY <2>1, <2>2, ClaimMoves DEF TypeInv, TypeOK, OutboxTypeOK
<1>3. ASSUME NEW a \in Attempts, NEW keep \in BOOLEAN, CompleteTurn(a, keep) PROVE ClaimInv'
      <2>1. /\ workerSession[a] # None /\ state' = [state EXCEPT ![a] = "closed"]
            /\ complete' = complete \cup {a}
            /\ UNCHANGED <<workerSession, selection, cleaned, accepted, stopped, source>>
            BY <1>3 DEF CompleteTurn, SettleTurn, EndTurn
      <2> QED BY <2>1 DEF ClaimInv, TypeInv, TypeOK, GrantTypeOK
<1>4. ASSUME NEW a \in Attempts, NEW outcome \in Outcomes,
             \/ RecordResultReceipt(a) \/ RecordTurnExecutionReceipt(a) \/ RecordRecoveryFailure(a)
             \/ BeginForward(a) \/ RejectTerminal(a) \/ FinishForward(a, outcome)
             \/ FinishRecoveryForward(a, outcome) \/ RecordCompletionWitness(a)
             \/ BeginFailureForward(a) \/ RejectFailure(a)
             \/ BeginRecoveryForward(a) \/ RejectRecoveryFailure(a)
             \/ RecoverClosedCheckpoint(a)
      PROVE  ClaimInv'
      <2>1. UNCHANGED <<claimInvVars, stopped, source>>
            BY <1>4 DEF RecordResultReceipt, RecordTurnExecutionReceipt, RecordRecoveryFailure,
               BeginForward, RejectTerminal, FinishForward, FinishRecoveryForward,
               RecordCompletionWitness, BeginFailureForward, RejectFailure,
               BeginRecoveryForward, RejectRecoveryFailure, RecoverClosedCheckpoint,
               OutboxStep, SetDelivery, SetRecovery, claimInvVars
      <2> QED BY <2>1, ClaimKept
<1>5. "received" \in Outcomes
      BY DEF Outcomes
<1> QED BY <1>1, <1>2, <1>3, <1>4, <1>5 DEF OutboxNext

\* Stops and releases.
LEMMA SessionStopClaim == TypeInv /\ LeaseInv /\ ClaimInv /\ SessionStopNext => ClaimInv'
<1> SUFFICES ASSUME TypeInv, LeaseInv, ClaimInv, SessionStopNext PROVE ClaimInv'
    OBVIOUS
<1>1. ASSUME NEW s \in Attempts, CloseSession(s) PROVE ClaimInv'
      <2>1. /\ state' = [b \in Attempts |-> IF b \in {active[s]} \ {None} THEN "closed" ELSE state[b]]
            /\ complete' = complete \cup ({active[s]} \ {None})
            /\ UNCHANGED <<workerSession, selection, cleaned, accepted, stopped, source>>
            BY <1>1 DEF CloseSession
      <2>2. active[s] # None => workerSession[active[s]] # None
            BY Identities DEF LeaseInv, TurnOwnership
      <2>3. ASSUME NEW a \in Attempts
            PROVE  \/ a = active[s] /\ workerSession[a] # None /\ state'[a] = "closed" /\ a \in complete'
                   \/ state'[a] = state[a] /\ (a \in complete' <=> a \in complete)
            BY <2>1, <2>2, Identities
      <2>4. \A a \in cleaned : state'[a] = "closed"
            BY <2>1 DEF ClaimInv, TypeInv, TypeOK, GrantTypeOK
      <2> QED BY <2>1, <2>3, <2>4 DEF ClaimInv
<1>2. ASSUME NEW a \in Attempts, CloseStopped(a) PROVE ClaimInv'
      BY <1>2 DEF CloseStopped, ClaimInv, TypeInv, TypeOK, GrantTypeOK
<1>3. ASSUME NEW a \in Attempts, MarkCleaned(a) PROVE ClaimInv'
      BY <1>3 DEF MarkCleaned, ClaimInv
<1>4. ASSUME NEW s \in Attempts,
             \/ RequestSessionStop(s) \/ QuarantineSession(s) \/ RequestStop(s)
             \/ RecordSessionControllerFlush(s) \/ RecordSessionStopReceipt(s)
             \/ ObserveSessionStop(s) \/ MarkSessionCleaned(s)
      PROVE  ClaimInv'
      <2>1. UNCHANGED <<claimInvVars, source>> /\ stopped \subseteq stopped'
            BY <1>4 DEF claimInvVars, RequestSessionStop, StopSession, QuarantineSession, RequestStop,
               RevokeTurn, RecordSessionControllerFlush, RecordSessionStopReceipt,
               ObserveSessionStop, MarkSessionCleaned
      <2> QED BY <2>1, ClaimKept
<1> QED BY <1>1, <1>2, <1>3, <1>4 DEF SessionStopNext

\* Every step keeps the facts about claims and turns.
LEMMA ClaimStep == TypeInv /\ LeaseInv /\ ClaimInv /\ [Next]_vars => ClaimInv'
<1> SUFFICES ASSUME TypeInv, LeaseInv, ClaimInv, [Next]_vars PROVE ClaimInv'
    OBVIOUS
<1>1. CASE ClusterNext
      <2>1. UNCHANGED <<claimInvVars, stopped, source>>
            BY <1>1 DEF claimInvVars, ClusterNext, PodCommits, PodRuns, PodNeverStarts,
               PodTerminates, PodLost, SetPod, Seal, WriterExits, BackendStarts,
               BackendCommits, BackendEnds, SetBackend, Restart, ContainerTerminates
      <2> QED BY <2>1, ClaimKept
<1>2. CASE UNCHANGED vars
      BY <1>2, ClaimKept DEF claimInvVars
<1> QED BY <1>1, <1>2, ReservationClaim, TurnControlClaim, OutboxClaim, SessionStopClaim DEF Next
-----------------------------------------------------------------------------
(* Conversations.                                                          *)

bindVars == <<workerSession, storageOf, selection, conversationVars, latest>>

\* A claim is bound to a root, a session and a conversation by its selection
\* and its reservation, and by no other transaction.
LEMMA BoundOnce ==
    ASSUME [Next]_vars
    PROVE  \/ UNCHANGED bindVars
           \/ \E a \in Attempts, choice \in Tasks \cup {Fresh}, reuse \in BOOLEAN :
                 RecordSelection(a, choice, reuse)
           \/ \E a \in Attempts : ReserveWarm(a)
           \/ \E a \in Attempts, t \in Tasks : ReserveNew(a, t)
<1>1. ASSUME ReservationNext,
             ~ \E a \in Attempts, choice \in Tasks \cup {Fresh}, reuse \in BOOLEAN :
                 RecordSelection(a, choice, reuse),
             ~ \E a \in Attempts : ReserveWarm(a),
             ~ \E a \in Attempts, t \in Tasks : ReserveNew(a, t)
      PROVE  UNCHANGED bindVars
      BY <1>1 DEF ReservationNext, QueueClaim, DrainCurrent, DrainForCapacity, ExpireSession,
                  DrainIdle, bindVars
<1>2. ASSUME TurnControlNext PROVE UNCHANGED bindVars
      BY <1>2 DEF TurnControlNext, bindVars, BeginPreparation, CheckpointPreparation,
         CompletePreparation, InterruptPreparation, PublishTurn, AcceptTurn, Admit, Offer,
         BeginStart, MarkStarted, GrantStep, BeginCheckout, CompleteCheckout, CloseCheckouts,
         CheckoutsFlushed, SetSessionResources, BindSessionPod, AdmitSession
<1>3. ASSUME OutboxNext PROVE UNCHANGED bindVars
      <2>1. ASSUME NEW a \in Attempts, NEW k \in ResultKinds \cup {"cancel-ack"}, NEW outcome \in Outcomes,
                   \/ ReceiveTerminal(a, k) \/ RecordResultReceipt(a) \/ RecordTurnExecutionReceipt(a)
                   \/ ReceiveFailure(a) \/ RecordRecoveryFailure(a)
                   \/ RecordCompletionWitness(a) \/ RecoverClosedCheckpoint(a)
            PROVE  UNCHANGED bindVars
            BY <2>1 DEF bindVars, ReceiveTerminal, RecordResultReceipt, RecordTurnExecutionReceipt,
               ReceiveFailure, RecordFailure, RecordRecoveryFailure, RecordCompletionWitness,
               RecoverClosedCheckpoint, OutboxStep
      <2>2. ASSUME NEW a \in Attempts, NEW outcome \in Outcomes,
                   \/ BeginForward(a) \/ RejectTerminal(a) \/ FinishForward(a, outcome)
                   \/ FinishRecoveryForward(a, outcome) \/ BeginFailureForward(a)
                   \/ RejectFailure(a) \/ BeginRecoveryForward(a) \/ RejectRecoveryFailure(a)
            PROVE  UNCHANGED bindVars
            BY <2>2 DEF bindVars, BeginForward, RejectTerminal, FinishForward,
               FinishRecoveryForward, BeginFailureForward, RejectFailure,
               BeginRecoveryForward, RejectRecoveryFailure, OutboxStep
      <2>3. ASSUME NEW a \in Attempts, NEW keep \in BOOLEAN, CompleteTurn(a, keep)
            PROVE  UNCHANGED bindVars
            BY <2>3 DEF bindVars, CompleteTurn, SettleTurn
      <2>4. "received" \in Outcomes /\ "cancel-ack" \in ResultKinds \cup {"cancel-ack"}
            BY DEF Outcomes
      <2> QED BY <1>3, <2>1, <2>2, <2>3, <2>4 DEF OutboxNext
<1>4. ASSUME SessionStopNext PROVE UNCHANGED bindVars
      <2>1. ASSUME NEW s \in Attempts,
                   \/ RequestSessionStop(s) \/ QuarantineSession(s) \/ RecordSessionControllerFlush(s)
                   \/ RecordSessionStopReceipt(s) \/ ObserveSessionStop(s)
            PROVE  UNCHANGED bindVars
            BY <2>1 DEF bindVars, RequestSessionStop, QuarantineSession, RecordSessionControllerFlush,
               RecordSessionStopReceipt, ObserveSessionStop
      <2>2. ASSUME NEW s \in Attempts,
                   \/ CloseSession(s) \/ MarkSessionCleaned(s) \/ RequestStop(s) \/ CloseStopped(s)
                   \/ MarkCleaned(s)
            PROVE  UNCHANGED bindVars
            BY <2>2 DEF bindVars, CloseSession, MarkSessionCleaned, RequestStop, CloseStopped, MarkCleaned
      <2> QED BY <1>4, <2>1, <2>2 DEF SessionStopNext
<1>5. ASSUME ClusterNext PROVE UNCHANGED bindVars
      BY <1>5 DEF bindVars, ClusterNext, PodCommits, PodRuns, PodNeverStarts,
         PodTerminates, PodLost, SetPod, Seal, WriterExits, BackendStarts, BackendCommits,
         BackendEnds, SetBackend, Restart, ContainerTerminates
<1>6. ASSUME UNCHANGED vars PROVE UNCHANGED bindVars
      BY <1>6 DEF bindVars
<1> QED BY <1>1, <1>2, <1>3, <1>4, <1>5, <1>6 DEF Next

\* There is no conversation at first.
LEMMA ConversationInit == Init => ConversationInv
BY Identities DEF Init, ConversationInv, ConversationValid, Residents, Resident, SessionExists

\* Sessions end and nothing is bound.
LEMMA ConversationKept ==
    ASSUME TypeInv, ConversationInv, UNCHANGED bindVars, SessionsKept
    PROVE  ConversationInv'
<1>1. Residents' \subseteq Residents
      BY DEF SessionsKept, Residents, Resident, Closed
<1>2. ASSUME NEW c \in Conversations PROVE ConversationValid(c)'
      <2>1. ConversationValid(c) /\ currentSession[c] \in Attempts \cup {None}
            BY DEF ConversationInv, TypeInv, TypeOK, StorageTypeOK
      <2> QED BY <2>1 DEF bindVars, SessionsKept, ConversationValid, SessionExists
<1> QED BY <1>1, <1>2 DEF ConversationInv, bindVars

\* A reservation makes its session the current one of its conversation.
LEMMA ReserveConversation ==
    ASSUME TypeInv, RootInv, ConversationInv, NEW a \in Attempts, NEW s \in Attempts, NEW t \in Tasks,
           workerSession[a] = None, Reserve(a, s, t), SessionExists(s)', storageOf'[s] = t,
           ConversationOf[t] = ConversationOf[TaskOf[a]],
           ConversationOf[TaskOf[s]] = ConversationOf[TaskOf[a]],
           \A r \in Attempts : r # s => (Resident(r)' => Resident(r)),
           \A r \in Attempts : SessionExists(r) => SessionExists(r)',
           \A r \in Residents : ConversationOf[TaskOf[r]] = ConversationOf[TaskOf[a]] => r = s
    PROVE  ConversationInv'
<1> DEFINE c == ConversationOf[TaskOf[a]]
<1>0. c \in Conversations /\ None \notin Attempts /\ None \notin Tasks
      BY Identities
<1>1. /\ workerSession' = [workerSession EXCEPT ![a] = s] /\ storageOf' = [storageOf EXCEPT ![a] = t]
      /\ currentStorage' = [currentStorage EXCEPT ![c] = t]
      /\ currentSession' = [currentSession EXCEPT ![c] = s]
      /\ UNCHANGED selection
      BY DEF Reserve
<1>2. \A b \in Attempts : workerSession'[b] # None =>
          ConversationOf[storageOf'[b]] = ConversationOf[TaskOf[b]]
      BY <1>1 DEF ConversationInv, TypeInv, TypeOK, GrantTypeOK
<1>3. ASSUME NEW d \in Conversations PROVE ConversationValid(d)'
      <2>1. CASE d = c
            BY <1>0, <1>1, <2>1 DEF ConversationValid, TypeInv, TypeOK, StorageTypeOK
      <2>2. CASE d # c
            <3>1. currentSession'[d] = currentSession[d] /\ currentStorage'[d] = currentStorage[d]
                  BY <1>1, <2>2 DEF TypeInv, TypeOK, StorageTypeOK
            <3>2. ConversationValid(d) /\ currentSession[d] \in Attempts \cup {None}
                  BY DEF ConversationInv, TypeInv, TypeOK, StorageTypeOK
            <3>3. ASSUME currentSession[d] # None PROVE storageOf'[currentSession[d]] = storageOf[currentSession[d]]
                  <4>1. SessionExists(currentSession[d]) /\ currentSession[d] \in Attempts
                        BY <3>2, <3>3 DEF ConversationValid
                  <4>2. workerSession[currentSession[d]] = currentSession[d]
                        BY <4>1 DEF TypeInv, Bindings
                  <4>3. currentSession[d] # a
                        BY <1>0, <4>1, <4>2
                  <4> QED BY <1>1, <4>1, <4>3 DEF TypeInv, TypeOK, GrantTypeOK
            <3> QED BY <3>1, <3>2, <3>3 DEF ConversationValid
      <2> QED BY <2>1, <2>2
<1>4. ASSUME NEW r \in Residents' PROVE currentSession'[ConversationOf[TaskOf[r]]] = r
      <2>1. r \in Attempts /\ (r # s => r \in Residents)
            BY <1>4 DEF Residents
      <2>2. CASE r = s
            BY <1>0, <1>1, <2>2 DEF TypeInv, TypeOK, StorageTypeOK
      <2>3. CASE r # s
            <3>1. r \in Residents /\ ConversationOf[TaskOf[r]] # c
                  BY <2>1, <2>3
            <3>2. currentSession[ConversationOf[TaskOf[r]]] = r /\ ConversationOf[TaskOf[r]] \in Conversations
                  BY <2>1, <3>1, Identities DEF ConversationInv
            <3> QED BY <1>1, <3>1, <3>2 DEF TypeInv, TypeOK, StorageTypeOK
      <2> QED BY <2>2, <2>3
<1>5. \A b \in Attempts : selection'[b] \in Tasks =>
          ConversationOf[selection'[b]] = ConversationOf[TaskOf[b]]
      BY <1>1 DEF ConversationInv
<1> QED BY <1>2, <1>3, <1>4, <1>5 DEF ConversationInv

\* Every step keeps conversations and sessions bound to each other.
LEMMA ConversationStep ==
    TypeInv /\ LeaseInv /\ RootInv /\ ConversationInv /\ [Next]_vars => ConversationInv'
<1> SUFFICES ASSUME TypeInv, LeaseInv, RootInv, ConversationInv, [Next]_vars PROVE ConversationInv'
    OBVIOUS
<1>0. None \notin Attempts /\ None \notin Tasks /\ Fresh \notin Tasks
      BY Identities
<1>1. ASSUME NEW a \in Attempts, NEW choice \in Tasks \cup {Fresh}, NEW reuse \in BOOLEAN,
             RecordSelection(a, choice, reuse)
      PROVE  ConversationInv'
      <2>1. /\ selection' = [selection EXCEPT ![a] = choice]
            /\ choice # Fresh => ConversationOf[choice] = ConversationOf[TaskOf[a]]
            /\ UNCHANGED <<workerSession, storageOf, currentStorage, currentSession, sessionState,
                           resourcesCleaned>>
            BY <1>1 DEF RecordSelection
      <2>2. \A b \in Attempts : selection'[b] \in Tasks =>
                ConversationOf[selection'[b]] = ConversationOf[TaskOf[b]]
            BY <1>0, <2>1 DEF ConversationInv, TypeInv, TypeOK, GrantTypeOK
      <2>3. Residents' = Residents /\ \A c \in Conversations : ConversationValid(c)'
            BY <2>1 DEF ConversationInv, ConversationValid, Residents, Resident, SessionExists
      <2> QED BY <2>1, <2>2, <2>3 DEF ConversationInv
<1>2. ASSUME NEW a \in Attempts, ReserveWarm(a) PROVE ConversationInv'
      <2> DEFINE c == ConversationOf[TaskOf[a]]
      <2>1. PICK s \in Attempts, t \in Tasks :
               /\ t = selection[a] /\ workerSession[a] = None /\ Reserve(a, s, t)
               /\ sessionState[s] = "idle" /\ currentSession[c] = s /\ storageOf[s] = t
               /\ sessionState' = [sessionState EXCEPT ![s] = "reserved"]
            BY <1>0, <1>2 DEF ReserveWarm, Reservable, SelectedWarm, WarmSession, TypeInv, TypeOK,
               StorageTypeOK
      <2>2. c \in Conversations /\ ConversationOf[t] = c
            BY <2>1, Identities DEF ConversationInv
      <2>3. s \in Residents
            BY <2>1 DEF Residents, Resident, SessionExists
      <2>4. workerSession[s] = s /\ storageOf'[s] = t
            BY <1>0, <2>1, <2>3 DEF Reserve, Residents, Resident, TypeInv, Bindings, TypeOK, GrantTypeOK
      <2>5. ConversationOf[TaskOf[s]] = c
            BY <1>0, <2>1, <2>2, <2>4 DEF ConversationInv
      <2>6. /\ sessionState'[s] = "reserved" /\ UNCHANGED resourcesCleaned
            /\ \A r \in Attempts : r # s => sessionState'[r] = sessionState[r]
            BY <2>1 DEF Reserve, TypeInv, TypeOK, SessionTypeOK
      <2>7. /\ SessionExists(s)'
            /\ \A r \in Attempts : SessionExists(r) => SessionExists(r)'
            /\ \A r \in Attempts : r # s => (Resident(r)' => Resident(r))
            BY <2>6 DEF SessionExists, Resident
      <2>8. \A r \in Residents : ConversationOf[TaskOf[r]] = c => r = s
            BY <2>1 DEF ConversationInv
      <2> QED BY <2>1, <2>2, <2>4, <2>5, <2>7, <2>8, ReserveConversation
<1>3. ASSUME NEW a \in Attempts, NEW t \in Tasks, ReserveNew(a, t) PROVE ConversationInv'
      <2> DEFINE c == ConversationOf[TaskOf[a]]
      <2>1. /\ workerSession[a] = None /\ Reserve(a, a, t) /\ ConversationFree(c)
            /\ sessionState' = [sessionState EXCEPT ![a] = "creating"]
            /\ selection[a] = t \/ t = TaskOf[a]
            BY <1>3 DEF ReserveNew, Reservable, ReservableRoot
      <2>2. ConversationOf[t] = c
            BY <2>1 DEF ConversationInv
      <2>3. /\ SessionExists(a)' /\ UNCHANGED resourcesCleaned
            /\ \A r \in Attempts : SessionExists(r) => SessionExists(r)'
            /\ \A r \in Attempts : r # a => (Resident(r)' => Resident(r))
            /\ storageOf'[a] = t
            BY <2>1 DEF Reserve, SessionExists, Resident, TypeInv, TypeOK, SessionTypeOK, GrantTypeOK
      <2>4. \A r \in Residents : ConversationOf[TaskOf[r]] = c => r = a
            BY <1>0, <2>1 DEF ConversationInv, ConversationFree, Residents
      <2> QED BY <2>1, <2>2, <2>3, <2>4, ReserveConversation
<1>4. ASSUME UNCHANGED bindVars,
             ~ \E a \in Attempts, t \in Tasks : ReserveNew(a, t)
      PROVE  ConversationInv'
      BY <1>4, SessionStep, ConversationKept
<1> QED BY <1>1, <1>2, <1>3, <1>4, BoundOnce
-----------------------------------------------------------------------------
(* The last turn of a session and of its root.                             *)

headVars == <<workerSession, storageOf, latest, active, complete, sessionState, lastComplete>>

\* There is no session at first.
LEMMA HeadInit == Init => HeadInv
BY DEF Init, HeadInv

\* A step that moves no session and quarantines no root.
LEMMA HeadKept ==
    ASSUME HeadInv, UNCHANGED headVars, quarantined' \subseteq quarantined,
           execReceipt \subseteq execReceipt', witness \subseteq witness'
    PROVE  HeadInv'
BY DEF headVars, HeadInv

\* A turn moves its session on.
LEMMA HeadMoves ==
    ASSUME TypeInv, HeadInv, NEW s \in Attempts, NEW st \in SessionStates \ {"idle"},
           sessionState' = [sessionState EXCEPT ![s] = st],
           active[s] = None => st \in {"draining", "quarantined", "closed"},
           UNCHANGED <<workerSession, storageOf, latest, active, complete, lastComplete>>,
           quarantined' \subseteq quarantined \/ quarantined' = quarantined \cup {storageOf[s]},
           \A r \in Attempts : sessionState[r] = "idle" /\ r # s => storageOf[r] # storageOf[s],
           execReceipt \subseteq execReceipt', witness \subseteq witness'
    PROVE  HeadInv'
<1>1. \A r \in Attempts : r # s => sessionState'[r] = sessionState[r]
      BY DEF TypeInv, TypeOK, SessionTypeOK
<1>2. sessionState'[s] = st
      BY DEF TypeInv, TypeOK, SessionTypeOK
<1>3. ASSUME NEW r \in Attempts, sessionState'[r] = "idle"
      PROVE  /\ active[r] = None /\ lastComplete[r] # None
             /\ latest[storageOf[r]] = lastComplete[r] /\ storageOf[r] \notin quarantined'
      BY <1>1, <1>2, <1>3 DEF HeadInv
<1>4. \A r \in Attempts : sessionState'[r] \in {"creating", "reserved", "running", "finishing"} =>
                             active[r] # None
      BY <1>1, <1>2 DEF HeadInv
<1> QED BY <1>3, <1>4 DEF HeadInv

\* The open sessions work on different roots.
LEMMA OpenApart ==
    ASSUME LeaseInv, NEW s \in Attempts, NEW r \in Attempts, SessionExists(s), ~ Closed(s),
           SessionExists(r), ~ Closed(r), storageOf[r] = storageOf[s]
    PROVE  r = s
BY DEF LeaseInv, LeaseAgreement

\* A session is stopped, and perhaps its root quarantined.
LEMMA HeadStop ==
    ASSUME TypeInv, LeaseInv, HeadInv, NEW s \in Attempts, SessionExists(s),
           \/ sessionState' = [sessionState EXCEPT ![s] = DrainingState(s)]
           \/ sessionState' = [sessionState EXCEPT ![s] = "quarantined"],
           \/ quarantined' \subseteq quarantined
           \/ quarantined' = quarantined \cup {storageOf[s]} /\ ~ Closed(s),
           UNCHANGED <<workerSession, storageOf, latest, active, complete, lastComplete>>,
           execReceipt \subseteq execReceipt', witness \subseteq witness'
    PROVE  HeadInv'
<1>1. \E st \in {"draining", "quarantined", "closed"} :
         sessionState' = [sessionState EXCEPT ![s] = st]
      BY DEF DrainingState
<1>2. CASE Closed(s)
      <2>1. UNCHANGED headVars \/ sessionState' = [sessionState EXCEPT ![s] = "quarantined"]
            BY <1>2 DEF DrainingState, Closed, headVars, TypeInv, TypeOK, SessionTypeOK
      <2>2. quarantined' \subseteq quarantined
            BY <1>2
      <2>3. ASSUME sessionState' = [sessionState EXCEPT ![s] = "quarantined"] PROVE HeadInv'
            <3>1. \A r \in Attempts : sessionState'[r] # "quarantined" => sessionState'[r] = sessionState[r]
                  BY <2>3 DEF TypeInv, TypeOK, SessionTypeOK
            <3> QED BY <2>2, <3>1 DEF HeadInv
      <2> QED BY <2>1, <2>2, <2>3, HeadKept
<1>3. CASE ~ Closed(s)
      <2>1. \A r \in Attempts : sessionState[r] = "idle" /\ r # s => storageOf[r] # storageOf[s]
            BY <1>3, OpenApart DEF SessionExists, Closed
      <2> QED BY <1>1, <2>1, HeadMoves DEF SessionStates
<1> QED BY <1>2, <1>3

\* A reservation gives its session a turn, the new last one of its root.
LEMMA ReserveHead ==
    ASSUME TypeInv, LeaseInv, ClaimInv, HeadInv, NEW a \in Attempts, NEW s \in Attempts, NEW t \in Tasks,
           NEW st \in {"creating", "reserved"}, sessionState' = [sessionState EXCEPT ![s] = st],
           workerSession[a] = None, writer[t] \in {None, s}, storageOf'[s] = t, Reserve(a, s, t)
    PROVE  HeadInv'
<1>1. /\ storageOf' = [storageOf EXCEPT ![a] = t] /\ active' = [active EXCEPT ![s] = a]
      /\ latest' = [latest EXCEPT ![t] = a] /\ workerSession' = [workerSession EXCEPT ![a] = s]
      /\ UNCHANGED <<complete, lastComplete, quarantined, execReceipt, witness>>
      /\ a \notin complete /\ a # None
      BY Identities DEF Reserve, TakeRoot, ClaimInv
<1>2. ~ SessionExists(a)
      BY Identities DEF TypeInv, Bindings
<1>3. ASSUME NEW r \in Attempts, r # s, SessionExists(r), ~ Closed(r)
      PROVE  /\ storageOf'[r] = storageOf[r] /\ storageOf[r] \in Tasks /\ storageOf[r] # t
             /\ latest'[storageOf[r]] = latest[storageOf[r]]
             /\ active'[r] = active[r] /\ sessionState'[r] = sessionState[r]
      <2>1. storageOf[r] \in Tasks /\ writer[storageOf[r]] = r /\ r # None
            BY <1>3, Identities DEF LeaseInv, LeaseAgreement, TypeInv, TypeOK, GrantTypeOK
      <2> QED BY <1>1, <1>2, <1>3, <2>1 DEF TypeInv, TypeOK, GrantTypeOK, SessionTypeOK, StorageTypeOK
<1>4. active'[s] = a /\ sessionState'[s] = st /\ latest'[t] = a
      BY <1>1 DEF TypeInv, TypeOK, SessionTypeOK, StorageTypeOK
<1>5. ASSUME NEW b \in Attempts, storageOf'[b] # None PROVE latest'[storageOf'[b]] # None
      <2>1. storageOf'[b] = t \/ (storageOf'[b] = storageOf[b] /\ latest[storageOf[b]] # None /\ storageOf[b] \in Tasks)
            BY <1>1, <1>5 DEF HeadInv, TypeInv, TypeOK, GrantTypeOK
      <2> QED BY <1>1, <2>1 DEF TypeInv, TypeOK, StorageTypeOK
<1>6. ASSUME NEW r \in Attempts, active'[r] # None
      PROVE  latest'[storageOf'[r]] = active'[r] /\ active'[r] \notin complete'
      <2>1. CASE r = s
            BY <1>1, <1>4, <2>1
      <2>2. CASE r # s
            <3>1. active[r] # None
                  BY <1>1, <1>6, <2>2 DEF TypeInv, TypeOK, SessionTypeOK
            <3>2. SessionExists(r) /\ ~ Closed(r)
                  BY <3>1 DEF LeaseInv, TurnOwnership
            <3> QED BY <1>1, <1>3, <2>2, <3>1, <3>2 DEF HeadInv
      <2> QED BY <2>1, <2>2
<1>7. ASSUME NEW r \in Attempts,
             sessionState'[r] \in {"creating", "reserved", "running", "finishing", "idle"}
      PROVE  r = s \/ (r # s /\ SessionExists(r) /\ ~ Closed(r) /\ sessionState'[r] = sessionState[r])
      BY <1>1, <1>7 DEF SessionExists, Closed, TypeInv, TypeOK, SessionTypeOK
<1>8. ASSUME NEW r \in Attempts, sessionState'[r] \in {"creating", "reserved", "running", "finishing"}
      PROVE  active'[r] # None
      BY <1>1, <1>3, <1>4, <1>7, <1>8 DEF HeadInv
<1>9. ASSUME NEW r \in Attempts, sessionState'[r] = "idle"
      PROVE  /\ active'[r] = None /\ lastComplete'[r] # None
             /\ latest'[storageOf'[r]] = lastComplete'[r] /\ storageOf'[r] \notin quarantined'
      <2>1. r # s
            BY <1>4, <1>9
      <2>2. SessionExists(r) /\ ~ Closed(r) /\ sessionState[r] = "idle"
            BY <1>7, <1>9, <2>1
      <2> QED BY <1>1, <1>3, <2>1, <2>2 DEF HeadInv
<1>10. ASSUME NEW r \in Attempts, lastComplete'[r] # None
       PROVE  /\ workerSession'[lastComplete'[r]] = r
              /\ lastComplete'[r] \in complete' \cap execReceipt' \cap witness'
       <2>1. lastComplete[r] \in complete \cap execReceipt \cap witness /\ workerSession[lastComplete[r]] = r
             BY <1>1, <1>10 DEF HeadInv
       <2> QED BY <1>1, <2>1 DEF TypeInv, TypeOK, GrantTypeOK
<1> QED BY <1>5, <1>6, <1>8, <1>9, <1>10 DEF HeadInv

\* A turn ends with its session (CloseSession) or before it (CompleteTurn).
LEMMA EndHead ==
    ASSUME TypeInv, LeaseInv, HeadInv, NEW s \in Attempts, NEW st \in SessionStates,
           st \notin {"creating", "reserved", "running", "finishing"},
           sessionState' = [sessionState EXCEPT ![s] = st],
           active' = [active EXCEPT ![s] = None], complete' = complete \cup ({active[s]} \ {None}),
           \/ st # "idle" /\ UNCHANGED lastComplete
           \/ /\ active[s] # None /\ lastComplete' = [lastComplete EXCEPT ![s] = active[s]]
              /\ active[s] \in execReceipt \cap witness /\ storageOf[s] \notin quarantined',
           quarantined' \subseteq quarantined,
           UNCHANGED <<workerSession, storageOf, latest, execReceipt, witness>>
    PROVE  HeadInv'
<1>1. /\ active'[s] = None /\ sessionState'[s] = st
      /\ \A r \in Attempts : r # s => active'[r] = active[r] /\ sessionState'[r] = sessionState[r]
      BY DEF TypeInv, TypeOK, SessionTypeOK
<1>2. ASSUME NEW r \in Attempts, active'[r] # None
      PROVE  latest[storageOf[r]] = active'[r] /\ active'[r] \notin complete'
      <2>1. r # s /\ active'[r] = active[r]
            BY <1>1, <1>2
      <2>2. active[r] # active[s]
            BY <1>2, <2>1 DEF LeaseInv, TurnOwnership
      <2> QED BY <1>2, <2>1, <2>2 DEF HeadInv
<1>3. ASSUME NEW r \in Attempts, sessionState'[r] \in {"creating", "reserved", "running", "finishing"}
      PROVE  active'[r] # None
      BY <1>1, <1>3 DEF HeadInv
<1>4. ASSUME NEW r \in Attempts, lastComplete'[r] # None
      PROVE  /\ workerSession[lastComplete'[r]] = r
             /\ lastComplete'[r] \in complete' \cap execReceipt \cap witness
      <2>1. \/ lastComplete'[r] = lastComplete[r]
            \/ /\ r = s /\ lastComplete'[r] = active[s] /\ active[s] # None
               /\ active[s] \in execReceipt \cap witness
            BY DEF TypeInv, TypeOK, SessionTypeOK
      <2>2. active[s] # None => workerSession[active[s]] = s
            BY DEF LeaseInv, TurnOwnership
      <2> QED BY <1>4, <2>1, <2>2 DEF HeadInv
<1>5. ASSUME NEW r \in Attempts, sessionState'[r] = "idle"
      PROVE  /\ active'[r] = None /\ lastComplete'[r] # None
             /\ latest[storageOf[r]] = lastComplete'[r] /\ storageOf[r] \notin quarantined'
      <2>1. CASE r = s
            <3>1. /\ active[s] # None /\ lastComplete'[s] = active[s] /\ storageOf[s] \notin quarantined'
                  BY <1>1, <1>5, <2>1 DEF TypeInv, TypeOK, SessionTypeOK
            <3> QED BY <1>1, <2>1, <3>1 DEF HeadInv
      <2>2. CASE r # s
            <3>1. sessionState[r] = "idle" /\ lastComplete'[r] = lastComplete[r]
                  BY <1>1, <1>5, <2>2 DEF TypeInv, TypeOK, SessionTypeOK
            <3> QED BY <1>1, <2>2, <3>1 DEF HeadInv
      <2> QED BY <2>1, <2>2
<1> QED BY <1>2, <1>3, <1>4, <1>5 DEF HeadInv
\* Claims and reservations.
LEMMA ReservationHead == TypeInv /\ LeaseInv /\ ClaimInv /\ HeadInv /\ ReservationNext => HeadInv'
<1> SUFFICES ASSUME TypeInv, LeaseInv, ClaimInv, HeadInv, ReservationNext PROVE HeadInv'
    OBVIOUS
<1>0. None \notin Attempts /\ None \notin Tasks /\ \A a \in Attempts : TaskOf[a] \in Tasks
      BY Identities
<1>1. ASSUME NEW a \in Attempts, NEW choice \in Tasks \cup {Fresh}, NEW reuse \in BOOLEAN,
             QueueClaim(a) \/ RecordSelection(a, choice, reuse)
      PROVE  HeadInv'
      BY <1>1, HeadKept DEF QueueClaim, RecordSelection, headVars
<1>2. ASSUME NEW a \in Attempts, ReserveWarm(a) PROVE HeadInv'
      <2>1. PICK s \in Attempts, t \in Tasks :
               /\ writer[t] = s /\ workerSession[a] = None /\ Reserve(a, s, t)
               /\ sessionState[s] = "idle" /\ storageOf[s] = t
               /\ sessionState' = [sessionState EXCEPT ![s] = "reserved"]
            BY <1>0, <1>2 DEF ReserveWarm, Reservable, SelectedWarm, WarmSession, TypeInv, TypeOK,
               StorageTypeOK
      <2>2. storageOf'[s] = t
            BY <2>1 DEF Reserve, TypeInv, TypeOK, GrantTypeOK
      <2> QED BY <2>1, <2>2, ReserveHead
<1>3. ASSUME NEW a \in Attempts, NEW t \in Tasks, ReserveNew(a, t) PROVE HeadInv'
      <2>1. /\ workerSession[a] = None /\ Reserve(a, a, t) /\ writer[t] = None
            /\ sessionState' = [sessionState EXCEPT ![a] = "creating"]
            BY <1>3 DEF ReserveNew, Reservable, ReservableRoot
      <2>2. storageOf'[a] = t
            BY <2>1 DEF Reserve, TypeInv, TypeOK, GrantTypeOK
      <2> QED BY <2>1, <2>2, ReserveHead
<1>4. ASSUME NEW s, DrainIdle(s) PROVE HeadInv'
      <2>1. /\ sessionState[s] = "idle" /\ sessionState' = [sessionState EXCEPT ![s] = "draining"]
            /\ UNCHANGED <<workerSession, storageOf, latest, active, complete, lastComplete,
                           quarantined, execReceipt, witness>>
            BY <1>4 DEF DrainIdle
      <2>2. \A r \in Attempts : sessionState'[r] = sessionState[r] \/ sessionState'[r] = "draining"
            BY <2>1 DEF TypeInv, TypeOK, SessionTypeOK
      <2> QED BY <2>1, <2>2 DEF HeadInv
<1> QED BY <1>0, <1>1, <1>2, <1>3, <1>4
        DEF ReservationNext, DrainCurrent, DrainForCapacity, ExpireSession

\* The start of a turn.
LEMMA TurnControlHead == TypeInv /\ LeaseInv /\ HeadInv /\ TurnControlNext => HeadInv'
<1> SUFFICES ASSUME TypeInv, LeaseInv, HeadInv, TurnControlNext PROVE HeadInv'
    OBVIOUS
<1>1. ASSUME NEW a \in Attempts, InterruptPreparation(a) PROVE HeadInv'
      <2>1. PICK s \in Attempts :
               /\ SessionExists(s) /\ sessionState' = [sessionState EXCEPT ![s] = DrainingState(s)]
               /\ UNCHANGED <<workerSession, storageOf, latest, active, complete, lastComplete,
                              quarantined, execReceipt, witness>>
            BY <1>1 DEF InterruptPreparation, TypeInv, TypeOK, GrantTypeOK, Bindings
      <2> QED BY <2>1, HeadStop
<1>2. ASSUME NEW a \in Attempts, PublishTurn(a) \/ MarkStarted(a) PROVE HeadInv'
      <2>1. /\ CurrentSessionTurn(a)
            /\ UNCHANGED <<workerSession, storageOf, latest, active, complete, lastComplete,
                           quarantined, execReceipt, witness>>
            /\ \E st \in {"reserved", "running"} :
                  sessionState' = [sessionState EXCEPT ![workerSession[a]] = st]
            BY <1>2 DEF PublishTurn, MarkStarted, GrantStep
      <2>2. PICK s \in Attempts, st \in {"reserved", "running"} :
               active[s] # None /\ sessionState' = [sessionState EXCEPT ![s] = st]
            BY <2>1, Identities DEF CurrentSessionTurn, TypeInv, TypeOK, GrantTypeOK
      <2>3. \A r \in Attempts : sessionState[r] = "idle" /\ r # s => storageOf[r] # storageOf[s]
            BY <2>2, OpenApart DEF SessionExists, Closed, LeaseInv, TurnOwnership
      <2> QED BY <2>1, <2>2, <2>3, HeadMoves DEF SessionStates
<1>3. ASSUME NEW a \in Attempts, NEW prepared \in BOOLEAN,
             \/ BeginPreparation(a) \/ CheckpointPreparation(a)
             \/ CompletePreparation(a, prepared) \/ AcceptTurn(a) \/ Admit(a)
             \/ Offer(a) \/ BeginStart(a)
             \/ BeginCheckout(a) \/ CompleteCheckout(a) \/ CloseCheckouts(a)
             \/ CheckoutsFlushed(a) \/ SetSessionResources(a) \/ BindSessionPod(a)
             \/ AdmitSession(a)
      PROVE  HeadInv'
      <2>1. UNCHANGED <<headVars, quarantined, execReceipt, witness>>
            BY <1>3 DEF headVars, BeginPreparation, CheckpointPreparation, CompletePreparation,
               AcceptTurn, Admit, Offer, BeginStart, GrantStep, BeginCheckout, CompleteCheckout,
               CloseCheckouts, CheckoutsFlushed, SetSessionResources, BindSessionPod, AdmitSession
      <2> QED BY <2>1, HeadKept
<1> QED BY <1>1, <1>2, <1>3 DEF TurnControlNext

\* Results, failures and completion.
LEMMA OutboxHead == TypeInv /\ LeaseInv /\ RootInv /\ HeadInv /\ OutboxNext => HeadInv'
<1> SUFFICES ASSUME TypeInv, LeaseInv, RootInv, HeadInv, OutboxNext PROVE HeadInv'
    OBVIOUS
<1>1. ASSUME NEW a \in Attempts, NEW k \in ResultKinds \cup {"cancel-ack"},
             ReceiveTerminal(a, k) \/ RecordTurnExecutionReceipt(a)
      PROVE  HeadInv'
      <2>1. /\ workerSession[a] # None /\ active[workerSession[a]] = a
            /\ UNCHANGED <<workerSession, storageOf, latest, active, complete, lastComplete,
                           quarantined, witness>>
            /\ execReceipt \subseteq execReceipt'
            /\ \/ UNCHANGED sessionState
               \/ sessionState' = [sessionState EXCEPT ![workerSession[a]] = "finishing"]
            BY <1>1 DEF ReceiveTerminal, RecordTurnExecutionReceipt, CurrentSessionTurn, WorkerHeard
      <2>2. PICK s \in Attempts : s = workerSession[a] /\ active[s] # None
            BY <2>1, Identities DEF TypeInv, TypeOK, GrantTypeOK
      <2>3. \A r \in Attempts : sessionState[r] = "idle" /\ r # s => storageOf[r] # storageOf[s]
            BY <2>2, OpenApart DEF SessionExists, Closed, LeaseInv, TurnOwnership
      <2> QED BY <2>1, <2>2, <2>3, HeadMoves, HeadKept DEF SessionStates, headVars
<1>2. ASSUME NEW a \in Attempts, ReceiveFailure(a) PROVE HeadInv'
      <2>1. /\ UNCHANGED <<workerSession, storageOf, latest, active, complete, lastComplete,
                           execReceipt, witness>>
            /\ state[a] # "closed"
            /\ \/ UNCHANGED <<sessionState, quarantined>>
               \/ /\ workerSession[a] # None /\ quarantined' = quarantined \cup {storageOf[a]}
                  /\ sessionState' = [sessionState EXCEPT ![workerSession[a]] =
                                         DrainingState(workerSession[a])]
            BY <1>2 DEF ReceiveFailure, RecordFailure, QuarantineTurn, LeaveUnexecuted
      <2>2. ASSUME workerSession[a] # None, quarantined' = quarantined \cup {storageOf[a]},
                   sessionState' = [sessionState EXCEPT ![workerSession[a]] =
                                         DrainingState(workerSession[a])]
            PROVE  HeadInv'
            <3>1. PICK s \in Attempts : s = workerSession[a]
                  BY <2>2 DEF TypeInv, TypeOK, GrantTypeOK
            <3>2. SessionExists(s) /\ ~ Closed(s) /\ storageOf[s] = storageOf[a]
                  BY <2>1, <2>2, <3>1, Identities DEF LeaseInv, TurnOwnership, RootInv
            <3> QED BY <2>1, <2>2, <3>1, <3>2, HeadStop
      <2> QED BY <2>1, <2>2, HeadKept DEF headVars
<1>3. ASSUME NEW a \in Attempts, NEW keep \in BOOLEAN, CompleteTurn(a, keep) PROVE HeadInv'
      <2>1. /\ workerSession[a] # None /\ active[workerSession[a]] = a
            /\ a \in execReceipt /\ a \in witness
            /\ active' = [active EXCEPT ![workerSession[a]] = None] /\ complete' = complete \cup {a}
            /\ lastComplete' = [lastComplete EXCEPT ![workerSession[a]] = a]
            /\ quarantined' = quarantined \ {storageOf[a]}
            /\ UNCHANGED <<workerSession, storageOf, latest, execReceipt, witness>>
            /\ \/ sessionState' = [sessionState EXCEPT ![workerSession[a]] = "idle"]
               \/ sessionState' = [sessionState EXCEPT ![workerSession[a]] =
                                         DrainingState(workerSession[a])]
            BY <1>3 DEF CompleteTurn, SettleTurn, EndTurn, KeepRoot, RetainSession, ReleaseSession
      <2>2. PICK s \in Attempts : s = workerSession[a]
            BY <2>1 DEF TypeInv, TypeOK, GrantTypeOK
      <2>3. storageOf[s] = storageOf[a] /\ a # None /\ {a} = {active[s]} \ {None}
            BY <2>1, <2>2, Identities DEF RootInv
      <2>4. PICK st \in {"idle", "draining", "quarantined", "closed"} :
               sessionState' = [sessionState EXCEPT ![s] = st]
            BY <2>1, <2>2 DEF DrainingState
      <2> QED BY <2>1, <2>2, <2>3, <2>4, EndHead DEF SessionStates
<1>4. ASSUME NEW a \in Attempts, NEW outcome \in Outcomes,
             \/ RecordResultReceipt(a) \/ RecordRecoveryFailure(a)
             \/ BeginForward(a) \/ RejectTerminal(a) \/ FinishForward(a, outcome)
             \/ FinishRecoveryForward(a, outcome) \/ RecordCompletionWitness(a)
             \/ BeginFailureForward(a) \/ RejectFailure(a)
             \/ BeginRecoveryForward(a) \/ RejectRecoveryFailure(a)
             \/ RecoverClosedCheckpoint(a)
      PROVE  HeadInv'
      <2>1. /\ UNCHANGED <<headVars, execReceipt>> /\ quarantined' \subseteq quarantined
            /\ witness \subseteq witness'
            BY <1>4 DEF RecordResultReceipt, RecordRecoveryFailure,
               BeginForward, RejectTerminal, FinishForward, FinishRecoveryForward,
               RecordCompletionWitness, BeginFailureForward, RejectFailure,
               BeginRecoveryForward, RejectRecoveryFailure, RecoverClosedCheckpoint,
               OutboxStep, SetDelivery, SetRecovery, headVars
      <2> QED BY <2>1, HeadKept
<1>5. "received" \in Outcomes /\ "cancel-ack" \in ResultKinds \cup {"cancel-ack"}
      BY DEF Outcomes
<1> QED BY <1>1, <1>2, <1>3, <1>4, <1>5 DEF OutboxNext

\* Stops and releases.
LEMMA SessionStopHead == TypeInv /\ LeaseInv /\ HeadInv /\ SessionStopNext => HeadInv'
<1> SUFFICES ASSUME TypeInv, LeaseInv, HeadInv, SessionStopNext PROVE HeadInv'
    OBVIOUS
<1>1. ASSUME NEW s \in Attempts, RequestSessionStop(s) \/ QuarantineSession(s) PROVE HeadInv'
      <2>1. /\ SessionExists(s)
            /\ \/ sessionState' = [sessionState EXCEPT ![s] = DrainingState(s)]
               \/ sessionState' = [sessionState EXCEPT ![s] = "quarantined"]
            /\ \/ UNCHANGED quarantined
               \/ quarantined' = quarantined \cup {storageOf[s]} /\ ~ Closed(s)
            /\ UNCHANGED <<workerSession, storageOf, latest, active, complete, lastComplete,
                           execReceipt, witness>>
            BY <1>1 DEF RequestSessionStop, StopSession, QuarantineSession, Closed
      <2> QED BY <2>1, HeadStop
<1>2. ASSUME NEW a \in Attempts, RequestStop(a) PROVE HeadInv'
      <2>1. /\ UNCHANGED <<workerSession, storageOf, latest, active, complete, lastComplete,
                           execReceipt, witness, quarantined>>
            /\ \/ UNCHANGED sessionState
               \/ /\ workerSession[a] # None
                  /\ sessionState' = [sessionState EXCEPT ![workerSession[a]] =
                                         DrainingState(workerSession[a])]
            BY <1>2 DEF RequestStop
      <2>2. ASSUME workerSession[a] # None,
                   sessionState' = [sessionState EXCEPT ![workerSession[a]] =
                                         DrainingState(workerSession[a])]
            PROVE  HeadInv'
            <3>1. PICK s \in Attempts : s = workerSession[a] /\ SessionExists(s)
                  BY <2>2 DEF TypeInv, TypeOK, GrantTypeOK, Bindings
            <3> QED BY <2>1, <2>2, <3>1, HeadStop
      <2> QED BY <2>1, <2>2, HeadKept DEF headVars
<1>3. ASSUME NEW s \in Attempts, CloseSession(s) PROVE HeadInv'
      <2>1. /\ sessionState' = [sessionState EXCEPT ![s] = "closed"]
            /\ active' = [active EXCEPT ![s] = None]
            /\ complete' = complete \cup ({active[s]} \ {None})
            /\ quarantined' \subseteq quarantined
            /\ UNCHANGED <<workerSession, storageOf, latest, execReceipt, witness, lastComplete>>
            BY <1>3 DEF CloseSession
      <2> QED BY <2>1, EndHead DEF SessionStates
<1>4. ASSUME NEW s \in Attempts,
             \/ RecordSessionControllerFlush(s) \/ RecordSessionStopReceipt(s)
             \/ ObserveSessionStop(s) \/ MarkSessionCleaned(s) \/ CloseStopped(s) \/ MarkCleaned(s)
      PROVE  HeadInv'
      <2>1. UNCHANGED <<headVars, quarantined, execReceipt, witness>>
            BY <1>4 DEF headVars, RecordSessionControllerFlush, RecordSessionStopReceipt,
               ObserveSessionStop, MarkSessionCleaned, CloseStopped, MarkCleaned
      <2> QED BY <2>1, HeadKept
<1> QED BY <1>1, <1>2, <1>3, <1>4 DEF SessionStopNext

\* Every step keeps the facts about the last turns.
LEMMA HeadStep == TypeInv /\ LeaseInv /\ RootInv /\ ClaimInv /\ HeadInv /\ [Next]_vars => HeadInv'
<1> SUFFICES ASSUME TypeInv, LeaseInv, RootInv, ClaimInv, HeadInv, [Next]_vars PROVE HeadInv'
    OBVIOUS
<1>1. CASE ClusterNext
      <2>1. UNCHANGED <<headVars, quarantined, execReceipt, witness>>
            BY <1>1 DEF headVars, ClusterNext, PodCommits, PodRuns, PodNeverStarts,
               PodTerminates, PodLost, SetPod, Seal, WriterExits, BackendStarts,
               BackendCommits, BackendEnds, SetBackend, Restart, ContainerTerminates
      <2> QED BY <2>1, HeadKept
<1>2. CASE UNCHANGED vars
      BY <1>2, HeadKept DEF headVars
<1> QED BY <1>1, <1>2, ReservationHead, TurnControlHead, OutboxHead, SessionStopHead DEF Next
-----------------------------------------------------------------------------
(* The progress of a turn.                                                 *)

WorkerStates == {"assigned", "ready", "offered", "starting", "started", "terminal_received"}
UnstartedStates == {"unknown", "waiting_storage", "intent", "assigned", "ready", "offered", "starting"}

\* What a step adds to the progress of turns it first made sure of.
ProgressAdds ==
    /\ \A s \in supervisorKey' : s \in supervisorKey \/ s \in podBound
    /\ \A s \in podRequested' : s \in podRequested \/ storageOf'[s] \in rootPrepared
    /\ \A a \in Attempts :
          /\ prep'[a] = "prepared" => prep[a] = "prepared" \/ storageOf'[a] \in rootPrepared'
          /\ checkoutBy'[a] # 0 => a \in needsFlush' \/ (checkoutBy[a] # 0 /\ a \notin needsFlush)
          /\ a \in needsFlush' => a \in needsFlush \/ prep'[a] = "prepared"
          /\ state'[a] \in WorkerStates =>
                \/ state[a] \in WorkerStates
                \/ workerSession'[a] \in supervisorKey' /\ prep'[a] = "prepared"
          /\ a \in startConfirmed' =>
                \/ a \in startConfirmed /\ (state'[a] \in UnstartedStates => state[a] \in UnstartedStates)
                \/ state[a] = "starting" /\ state'[a] = "started"

progressVars == <<supervisorKey, podRequested, prep, checkoutBy, needsFlush, state, startConfirmed>>

\* No turn is on its way at first.
LEMMA ProgressInit == Init => ProgressInv
BY DEF Init, ProgressInv

\* A step that neither prepares, starts nor checks out.
LEMMA ProgressKept == UNCHANGED progressVars => ProgressAdds
BY DEF progressVars, ProgressAdds

\* What was made sure of stays so.
LEMMA ProgressFrom ==
    ASSUME TypeInv, TypeInv', PodInv, Advance, ProgressInv, ProgressAdds PROVE ProgressInv'
<1>1. \A a \in Attempts : workerSession[a] # None =>
          workerSession'[a] = workerSession[a] /\ storageOf'[a] = storageOf[a]
      BY DEF Advance, GrantsAdvance
<1>2. /\ podBound \subseteq podBound' /\ supervisorKey \subseteq supervisorKey'
      /\ rootPrepared \subseteq rootPrepared'
      BY DEF Advance, SessionsAdvance
<1>3. \A a \in Attempts : prep[a] = "prepared" => prep'[a] = "prepared" /\ workerSession[a] # None
      BY DEF Advance, GrantsAdvance, TypeInv, Bindings
<1>4. \A s \in podRequested : s \in Attempts /\ workerSession[s] # None
      BY Identities DEF PodInv, TypeInv, TypeOK, SessionTypeOK, Bindings
<1>5. supervisorKey \subseteq Attempts /\ needsFlush \subseteq Attempts /\ startConfirmed \subseteq Attempts
      BY DEF TypeInv, TypeOK, SessionTypeOK, GrantTypeOK
<1>6. supervisorKey' \subseteq podBound'
      BY <1>2 DEF ProgressInv, ProgressAdds
<1>7. \A s \in podRequested' : storageOf'[s] \in rootPrepared'
      BY <1>1, <1>2, <1>4 DEF ProgressInv, ProgressAdds
<1>8. \A a \in Attempts : prep'[a] = "prepared" => storageOf'[a] \in rootPrepared'
      BY <1>1, <1>2, <1>3 DEF ProgressInv, ProgressAdds
<1>9. \A a \in Attempts : checkoutBy'[a] # 0 => a \in needsFlush'
      BY DEF ProgressInv, ProgressAdds
<1>10. \A a \in Attempts : a \in needsFlush' => prep'[a] = "prepared"
      BY <1>3 DEF ProgressInv, ProgressAdds
<1>11. ASSUME NEW a \in Attempts, state'[a] \in WorkerStates
       PROVE  workerSession'[a] \in supervisorKey' /\ prep'[a] = "prepared"
       <2>1. state[a] \in WorkerStates => workerSession[a] \in supervisorKey /\ prep[a] = "prepared"
             BY DEF ProgressInv, WorkerStates
       <2> QED BY <1>1, <1>2, <1>3, <1>11, <2>1 DEF ProgressAdds
<1>12. ASSUME NEW a \in Attempts, a \in startConfirmed'
       PROVE  workerSession'[a] \in supervisorKey' /\ state'[a] \notin UnstartedStates
       <2>1. CASE a \in startConfirmed /\ (state'[a] \in UnstartedStates => state[a] \in UnstartedStates)
             <3>1. workerSession[a] \in supervisorKey /\ state[a] \notin UnstartedStates
                   BY <1>5, <2>1, Identities DEF ProgressInv, UnstartedStates, TypeInv, Bindings
             <3> QED BY <1>1, <1>2, <1>5, <2>1, <3>1, Identities
       <2>2. CASE state[a] = "starting" /\ state'[a] = "started"
             BY <1>11, <2>2 DEF WorkerStates, UnstartedStates
       <2> QED BY <1>12, <2>1, <2>2 DEF ProgressAdds
<1>13. needsFlush' \subseteq Attempts /\ startConfirmed' \subseteq Attempts
       BY DEF TypeInv, TypeOK, GrantTypeOK
<1> QED BY <1>6, <1>7, <1>8, <1>9, <1>10, <1>11, <1>12, <1>13 DEF ProgressInv, WorkerStates, UnstartedStates

\* A reservation moves one claim on, or drains a session.
LEMMA ReservationMoves ==
    ASSUME ReservationNext
    PROVE  /\ UNCHANGED <<supervisorKey, podRequested, prep, checkoutBy, needsFlush, startConfirmed,
                          source, execReceipt, witness, delivery, resultReceipt, recovery>>
           /\ \/ UNCHANGED state
              \/ \E a \in Attempts, st \in {"waiting_storage", "intent"} :
                    state[a] \in {"unknown", "waiting_storage"} /\ state' = [state EXCEPT ![a] = st]
<1> DEFINE Moves ==
       /\ UNCHANGED <<supervisorKey, podRequested, prep, checkoutBy, needsFlush, startConfirmed,
                      source, execReceipt, witness, delivery, resultReceipt, recovery>>
       /\ \/ UNCHANGED state
          \/ \E a \in Attempts, st \in {"waiting_storage", "intent"} :
                state[a] \in {"unknown", "waiting_storage"} /\ state' = [state EXCEPT ![a] = st]
<1>1. ASSUME NEW a \in Attempts, QueueClaim(a) PROVE Moves
      BY <1>1 DEF QueueClaim
<1>2. ASSUME NEW a \in Attempts, NEW t \in Tasks, ReserveWarm(a) \/ ReserveNew(a, t) PROVE Moves
      BY <1>2 DEF ReserveWarm, ReserveNew, Reserve, Reservable
<1>3. ASSUME NEW a \in Attempts, NEW choice \in Tasks \cup {Fresh}, NEW reuse \in BOOLEAN,
             RecordSelection(a, choice, reuse)
      PROVE  Moves
      BY <1>3 DEF RecordSelection
<1>4. ASSUME NEW s, DrainIdle(s) PROVE Moves
      BY <1>4 DEF DrainIdle
<1> HIDE DEF Moves
<1>5. Moves
      BY <1>1, <1>2, <1>3, <1>4, Identities DEF ReservationNext, DrainCurrent, DrainForCapacity, ExpireSession
<1> QED BY <1>5 DEF Moves

\* Claims and reservations.
LEMMA ReservationProgress == TypeInv /\ ReservationNext => ProgressAdds
<1> SUFFICES ASSUME TypeInv, ReservationNext PROVE ProgressAdds
    OBVIOUS
<1>1. UNCHANGED <<supervisorKey, podRequested, prep, checkoutBy, needsFlush, startConfirmed>>
      BY ReservationMoves
<1>2. state \in [Attempts -> GrantStates]
      BY DEF TypeInv, TypeOK, GrantTypeOK
<1>3. CASE UNCHANGED state
      BY <1>1, <1>3 DEF ProgressAdds
<1>4. ASSUME NEW a \in Attempts, NEW st \in {"waiting_storage", "intent"},
             state[a] \in {"unknown", "waiting_storage"}, state' = [state EXCEPT ![a] = st]
      PROVE  ProgressAdds
      BY <1>1, <1>2, <1>4 DEF ProgressAdds, WorkerStates, UnstartedStates
<1> QED BY <1>3, <1>4, ReservationMoves

\* Preparation, Pods, the start of a turn and its checkouts.
LEMMA TurnControlProgress == TypeInv /\ LeaseInv /\ RootInv /\ ProgressInv /\ TurnControlNext => ProgressAdds
<1> SUFFICES ASSUME TypeInv, LeaseInv, RootInv, ProgressInv, TurnControlNext PROVE ProgressAdds
    OBVIOUS
<1>1. ASSUME NEW a \in Attempts, NEW prepared \in BOOLEAN,
             \/ BeginPreparation(a) \/ CompletePreparation(a, prepared) \/ InterruptPreparation(a)
      PROVE  ProgressAdds
      <2>1. /\ UNCHANGED <<supervisorKey, podRequested, checkoutBy, needsFlush, state, startConfirmed, storageOf>>
            /\ rootPrepared \subseteq rootPrepared'
            /\ \E p \in {"none", "running", "stopped", "prepared"} :
                  /\ prep' = [prep EXCEPT ![a] = p]
                  /\ p = "prepared" => storageOf[a] \in rootPrepared'
            BY <1>1 DEF BeginPreparation, CompletePreparation, InterruptPreparation
      <2> QED BY <2>1 DEF ProgressAdds, TypeInv, TypeOK, GrantTypeOK
<1>2. ASSUME NEW a \in Attempts,
             \/ PublishTurn(a) \/ Admit(a) \/ Offer(a) \/ BeginStart(a) \/ MarkStarted(a)
      PROVE  ProgressAdds
      <2>1. /\ UNCHANGED <<supervisorKey, podRequested, checkoutBy, needsFlush, prep, workerSession>>
            /\ \/ /\ state[a] = "intent" /\ workerSession[a] \in supervisorKey /\ prep[a] = "prepared"
                  /\ state' = [state EXCEPT ![a] = "assigned"] /\ UNCHANGED startConfirmed
               \/ /\ state[a] \in {"assigned", "ready", "offered"} /\ UNCHANGED startConfirmed
                  /\ \E st \in {"ready", "offered", "starting"} : state' = [state EXCEPT ![a] = st]
               \/ /\ state[a] = "starting" /\ startConfirmed' = startConfirmed \cup {a}
                  /\ state' = [state EXCEPT ![a] = "started"]
            BY <1>2 DEF PublishTurn, Admit, Offer, BeginStart, MarkStarted, GrantStep
      <2> QED BY <2>1 DEF ProgressAdds, WorkerStates, UnstartedStates, TypeInv, TypeOK, GrantTypeOK
<1>3. ASSUME NEW a \in Attempts, \/ BeginCheckout(a) \/ CompleteCheckout(a) \/ CheckoutsFlushed(a)
      PROVE  ProgressAdds
      <2>1. /\ UNCHANGED <<supervisorKey, podRequested, prep, state, startConfirmed>>
            /\ \/ /\ prep[a] = "prepared" /\ checkoutBy' = [checkoutBy EXCEPT ![a] = incarnation]
                  /\ needsFlush' = needsFlush \cup {a}
               \/ checkoutBy' = [checkoutBy EXCEPT ![a] = 0] /\ UNCHANGED needsFlush
               \/ UNCHANGED checkoutBy /\ checkoutBy[a] = 0 /\ needsFlush' = needsFlush \ {a}
            BY <1>3 DEF BeginCheckout, CompleteCheckout, CheckoutsFlushed
      <2> QED BY <2>1 DEF ProgressAdds, TypeInv, TypeOK, GrantTypeOK
<1>4. ASSUME NEW s \in Attempts, SetSessionResources(s) PROVE ProgressAdds
      <2>1. /\ active[s] # None /\ prep[active[s]] = "prepared" /\ podRequested' = podRequested \cup {s}
            /\ UNCHANGED <<supervisorKey, prep, checkoutBy, needsFlush, state, startConfirmed, storageOf, rootPrepared>>
            BY <1>4 DEF SetSessionResources
      <2>2. active[s] \in Attempts /\ workerSession[active[s]] = s
            BY <2>1 DEF LeaseInv, TurnOwnership, TypeInv, TypeOK, SessionTypeOK
      <2>3. storageOf[s] = storageOf[active[s]] /\ storageOf[active[s]] \in rootPrepared
            BY <2>1, <2>2, Identities DEF RootInv, ProgressInv
      <2> QED BY <2>1, <2>3 DEF ProgressAdds
<1>5. ASSUME NEW a \in Attempts, CheckpointPreparation(a) \/ AcceptTurn(a) \/ CloseCheckouts(a) \/ BindSessionPod(a)
      PROVE  ProgressAdds
      BY <1>5, ProgressKept DEF CheckpointPreparation, AcceptTurn, CloseCheckouts, BindSessionPod, progressVars
<1>6. ASSUME NEW s \in Attempts, AdmitSession(s) PROVE ProgressAdds
      BY <1>6 DEF AdmitSession, ProgressAdds
<1> QED BY <1>1, <1>2, <1>3, <1>4, <1>5, <1>6 DEF TurnControlNext

\* Results, failures and completion.
LEMMA OutboxProgress == TypeInv /\ OutboxNext => ProgressAdds
<1> SUFFICES ASSUME TypeInv, OutboxNext PROVE ProgressAdds
    OBVIOUS
<1>1. ASSUME NEW a \in Attempts, NEW k \in ResultKinds \cup {"cancel-ack"}, NEW keep \in BOOLEAN,
             ReceiveTerminal(a, k) \/ ReceiveFailure(a) \/ CompleteTurn(a, keep)
      PROVE  ProgressAdds
      <2>1. /\ UNCHANGED <<supervisorKey, podRequested, checkoutBy, needsFlush, prep, startConfirmed>>
            /\ \/ state[a] \in WorkerStates /\ state' = [state EXCEPT ![a] = "terminal_received"]
               \/ \E st \in {"quarantined", "unexecuted", "closed"} : state' = [state EXCEPT ![a] = st]
            BY <1>1 DEF ReceiveTerminal, ReceiveFailure, RecordFailure, QuarantineTurn, LeaveUnexecuted,
               CompleteTurn, SettleTurn, EndTurn, WorkerStates
      <2> QED BY <2>1 DEF ProgressAdds, WorkerStates, UnstartedStates, TypeInv, TypeOK, GrantTypeOK
<1>2. ASSUME NEW a \in Attempts, NEW outcome \in Outcomes,
             \/ RecordResultReceipt(a) \/ RecordTurnExecutionReceipt(a) \/ RecordRecoveryFailure(a)
             \/ BeginForward(a) \/ RejectTerminal(a) \/ FinishForward(a, outcome)
             \/ FinishRecoveryForward(a, outcome) \/ RecordCompletionWitness(a)
             \/ BeginFailureForward(a) \/ RejectFailure(a)
             \/ BeginRecoveryForward(a) \/ RejectRecoveryFailure(a)
             \/ RecoverClosedCheckpoint(a)
      PROVE  ProgressAdds
      <2>1. UNCHANGED progressVars
            BY <1>2 DEF RecordResultReceipt, RecordTurnExecutionReceipt, RecordRecoveryFailure,
               BeginForward, RejectTerminal, FinishForward, FinishRecoveryForward,
               RecordCompletionWitness, BeginFailureForward, RejectFailure,
               BeginRecoveryForward, RejectRecoveryFailure, RecoverClosedCheckpoint,
               OutboxStep, progressVars
      <2> QED BY <2>1, ProgressKept
<1>3. "received" \in Outcomes /\ "cancel-ack" \in ResultKinds \cup {"cancel-ack"} /\ TRUE \in BOOLEAN
      BY DEF Outcomes
<1> QED BY <1>1, <1>2, <1>3 DEF OutboxNext

\* Stops and releases.
LEMMA SessionStopProgress == TypeInv /\ SessionStopNext => ProgressAdds
<1> SUFFICES ASSUME TypeInv, SessionStopNext PROVE ProgressAdds
    OBVIOUS
<1>1. ASSUME NEW s \in Attempts, CloseSession(s) \/ CloseStopped(s) PROVE ProgressAdds
      <2>1. /\ UNCHANGED <<supervisorKey, podRequested, checkoutBy, needsFlush, prep, startConfirmed>>
            /\ \A a \in Attempts : state'[a] = state[a] \/ state'[a] = "closed"
            BY <1>1 DEF CloseSession, CloseStopped, TypeInv, TypeOK, GrantTypeOK
      <2> QED BY <2>1 DEF ProgressAdds, WorkerStates, UnstartedStates
<1>2. ASSUME NEW s \in Attempts, RecordSessionControllerFlush(s) PROVE ProgressAdds
      <2>1. /\ UNCHANGED <<supervisorKey, podRequested, checkoutBy, prep, state, startConfirmed>>
            /\ needsFlush' = needsFlush \ {stopActive[s]}
            /\ stopActive[s] # None => checkoutBy[stopActive[s]] = 0
            BY <1>2 DEF RecordSessionControllerFlush, ControllerWritersEnded
      <2> QED BY <2>1, Identities DEF ProgressAdds
<1>3. ASSUME NEW s \in Attempts,
             \/ RequestSessionStop(s) \/ QuarantineSession(s) \/ RequestStop(s)
             \/ RecordSessionStopReceipt(s) \/ ObserveSessionStop(s) \/ MarkSessionCleaned(s)
             \/ MarkCleaned(s)
      PROVE  ProgressAdds
      <2>1. UNCHANGED progressVars
            BY <1>3 DEF progressVars, RequestSessionStop, QuarantineSession, RequestStop,
               RecordSessionStopReceipt, ObserveSessionStop, MarkSessionCleaned, MarkCleaned
      <2> QED BY <2>1, ProgressKept
<1> QED BY <1>1, <1>2, <1>3 DEF SessionStopNext

\* Every step keeps the facts about the progress of a turn.
LEMMA ProgressStep ==
    ASSUME TypeInv, TypeInv', LeaseInv, PodInv, RootInv, ProgressInv, Advance, [Next]_vars
    PROVE  ProgressInv'
<1>1. CASE ClusterNext
      <2>1. UNCHANGED progressVars
            BY <1>1 DEF progressVars, ClusterNext, PodCommits, PodRuns, PodNeverStarts,
               PodTerminates, PodLost, SetPod, Seal, WriterExits, BackendStarts,
               BackendCommits, BackendEnds, SetBackend, Restart, ContainerTerminates
      <2> QED BY <2>1, ProgressKept, ProgressFrom
<1>2. CASE UNCHANGED vars
      BY <1>2, ProgressKept, ProgressFrom DEF progressVars
<1> QED BY <1>1, <1>2, ReservationProgress, TurnControlProgress, OutboxProgress, SessionStopProgress,
        ProgressFrom DEF Next
-----------------------------------------------------------------------------
(* Terminal records.                                                       *)

OverStates == {"terminal_received", "quarantined", "unexecuted", "closed"}

\* What a step adds to the outbox, and what it proved of it before.
TerminalAdds ==
    \A a \in Attempts :
        /\ source'[a] # "none" =>
              \/ source[a] # "none" /\ (state[a] \in OverStates => state'[a] \in OverStates)
              \/ state'[a] \in OverStates /\ kind'[a] # "none"
        /\ state'[a] = "terminal_received" => state[a] = "terminal_received" \/ source'[a] = "worker"
        /\ a \in execReceipt' =>
              \/ a \in execReceipt
              \/ source[a] = "worker" /\ CheckoutFenced(a) /\ prep[a] \in {"stopped", "prepared"}
        /\ a \in witness' => a \in witness \/ delivery'[a] = "delivered"
        /\ a \in resultReceipt' => a \in resultReceipt \/ AuthenticResult(a)
        /\ recovery'[a] # "none" =>
              /\ delivery[a] = "received" => delivery'[a] = "received"
              /\ \/ recovery[a] # "none"
                 \/ /\ delivery[a] = "received" /\ source[a] = "worker"
                    /\ a \in stopped \cap checkoutClosed /\ StopEvidence(a) = "terminated"
        /\ source'[a] = "controller" /\ state'[a] = "closed" /\ workerSession'[a] # None =>
              \/ source[a] = "controller" /\ state[a] = "closed" /\ workerSession[a] # None
              \/ a \in stopped /\ StopEvidence(a) # "none"

terminalVars == <<source, state, execReceipt, witness, delivery, resultReceipt, recovery>>

\* There is no record at first.
LEMMA TerminalInit == Init => TerminalInv
BY DEF Init, TerminalInv

\* A step that records nothing and binds nothing.
LEMMA TerminalKept == UNCHANGED <<terminalVars, workerSession>> => TerminalAdds
BY DEF terminalVars, TerminalAdds

\* What was proved of a record stays so.
LEMMA TerminalFrom ==
    ASSUME TypeInv, TypeInv', OutboxShape, StopInv, Advance, OutcomeStep, TerminalInv, TerminalAdds
    PROVE  TerminalInv'
<1>1. ASSUME NEW a \in Attempts, StopEvidence(a) # "none"
      PROVE  StopEvidence(a)' = StopEvidence(a)
      <2>1. PICK s \in Attempts : s = workerSession[a] /\ s # None /\ stopActive[s] = a /\ evidence[s] # "none"
            BY <1>1 DEF StopEvidence, TypeInv, TypeOK, GrantTypeOK
      <2>2. s \in sessionStop
            BY <2>1, Identities DEF StopInv
      <2>3. workerSession'[a] = s /\ stopActive'[s] = a /\ evidence'[s] = evidence[s]
            BY <2>1, <2>2 DEF Advance, GrantsAdvance, SessionsAdvance
      <2> QED BY <2>1, <2>3 DEF StopEvidence
<1>2. /\ stopped \subseteq stopped' /\ checkoutClosed \subseteq checkoutClosed'
      /\ startConfirmed \subseteq startConfirmed' /\ revoked \subseteq revoked'
      /\ \A a \in Attempts : CheckoutFenced(a) => CheckoutFenced(a)'
      /\ \A a \in Attempts : prep[a] \in {"stopped", "prepared"} => prep'[a] = prep[a]
      BY DEF Advance, GrantsAdvance
<1>3. \A a \in Attempts : source[a] # "none" => source'[a] = source[a] /\ kind'[a] = kind[a]
      BY DEF OutcomeStep
<1>4. \A a \in Attempts : source'[a] # "none" => state'[a] \in OverStates /\ kind'[a] # "none"
      BY <1>3 DEF TerminalInv, TerminalAdds, OverStates
<1>5. \A a \in Attempts : state'[a] = "terminal_received" => source'[a] = "worker"
      BY <1>3 DEF TerminalInv, TerminalAdds
<1>6. ASSUME NEW a \in Attempts, a \in execReceipt'
      PROVE  source'[a] = "worker" /\ CheckoutFenced(a)' /\ prep'[a] \in {"stopped", "prepared"}
      <2>1. source[a] = "worker" /\ CheckoutFenced(a) /\ prep[a] \in {"stopped", "prepared"}
            BY <1>6 DEF TerminalInv, TerminalAdds
      <2> QED BY <1>2, <1>3, <2>1
<1>7. \A a \in Attempts : a \in witness' => delivery'[a] = "delivered"
      BY DEF TerminalInv, TerminalAdds, OutcomeStep
<1>8. ASSUME NEW a \in Attempts, a \in resultReceipt' PROVE AuthenticResult(a)'
      <2>1. AuthenticResult(a)
            BY <1>8 DEF TerminalInv, TerminalAdds
      <2> QED BY <1>2, <1>3, <2>1 DEF AuthenticResult
<1>9. ASSUME NEW a \in Attempts, recovery'[a] # "none"
      PROVE  /\ delivery'[a] = "received" /\ a \in stopped' \cap checkoutClosed'
             /\ StopEvidence(a)' = "terminated"
      <2>1. /\ delivery[a] = "received" /\ a \in stopped \cap checkoutClosed
            /\ StopEvidence(a) = "terminated"
            BY <1>9 DEF TerminalInv, TerminalAdds
      <2> QED BY <1>1, <1>2, <1>9, <2>1 DEF TerminalAdds
<1>10. ASSUME NEW a \in Attempts, source'[a] = "controller", state'[a] = "closed", workerSession'[a] # None
       PROVE  a \in stopped' /\ StopEvidence(a)' # "none"
       <2>1. a \in stopped /\ StopEvidence(a) # "none"
             BY <1>10 DEF TerminalInv, TerminalAdds
       <2> QED BY <1>1, <1>2, <2>1
<1>11. execReceipt' \subseteq Attempts /\ witness' \subseteq Attempts /\ resultReceipt' \subseteq Attempts
       BY DEF TypeInv, TypeOK, GrantTypeOK, OutboxTypeOK
<1> QED BY <1>4, <1>5, <1>6, <1>7, <1>8, <1>9, <1>10, <1>11 DEF TerminalInv, OverStates

\* Claims and reservations.
LEMMA ReservationTerminal == TypeInv /\ ReservationNext => TerminalAdds
<1> SUFFICES ASSUME TypeInv, ReservationNext PROVE TerminalAdds
    OBVIOUS
<1>1. UNCHANGED <<source, execReceipt, witness, delivery, resultReceipt, recovery>>
      BY ReservationMoves
<1>2. ASSUME NEW a \in Attempts, NEW st \in {"waiting_storage", "intent"},
             state[a] \in {"unknown", "waiting_storage"}, state' = [state EXCEPT ![a] = st],
             \A b \in Attempts \ {a} : workerSession'[b] = workerSession[b]
      PROVE  TerminalAdds
      BY <1>1, <1>2 DEF TerminalAdds, OverStates, TypeInv, TypeOK, GrantTypeOK
<1>3. ASSUME NEW a \in Attempts, QueueClaim(a) PROVE TerminalAdds
      BY <1>2, <1>3 DEF QueueClaim
<1>4. ASSUME NEW a \in Attempts, NEW t \in Tasks, ReserveWarm(a) \/ ReserveNew(a, t) PROVE TerminalAdds
      <2>1. /\ state[a] = "waiting_storage" /\ state' = [state EXCEPT ![a] = "intent"]
            /\ \E s : workerSession' = [workerSession EXCEPT ![a] = s]
            BY <1>4 DEF ReserveWarm, ReserveNew, Reserve, Reservable
      <2> QED BY <1>2, <2>1 DEF TypeInv, TypeOK, GrantTypeOK
<1>5. ASSUME NEW a \in Attempts, NEW choice \in Tasks \cup {Fresh}, NEW reuse \in BOOLEAN,
             RecordSelection(a, choice, reuse)
      PROVE  TerminalAdds
      BY <1>5, TerminalKept DEF RecordSelection, terminalVars
<1>6. ASSUME NEW s, DrainIdle(s) PROVE TerminalAdds
      BY <1>6, TerminalKept DEF DrainIdle, terminalVars
<1>7. \A a \in Attempts : TaskOf[a] \in Tasks
      BY Identities
<1> QED BY <1>3, <1>4, <1>5, <1>6, <1>7 DEF ReservationNext, DrainCurrent, DrainForCapacity, ExpireSession

\* The start of a turn.
LEMMA TurnControlTerminal == TypeInv /\ TurnControlNext => TerminalAdds
<1> SUFFICES ASSUME TypeInv, TurnControlNext PROVE TerminalAdds
    OBVIOUS
<1>1. UNCHANGED <<workerSession, source, execReceipt, witness, delivery, resultReceipt, recovery>>
      BY DEF TurnControlNext, BeginPreparation, CheckpointPreparation, CompletePreparation,
         InterruptPreparation, PublishTurn, AcceptTurn, Admit, Offer, BeginStart, MarkStarted,
         GrantStep, BeginCheckout, CompleteCheckout, CloseCheckouts, CheckoutsFlushed,
         SetSessionResources, BindSessionPod, AdmitSession
<1>2. \/ UNCHANGED state
      \/ \E a \in Attempts, st \in {"assigned", "ready", "offered", "starting", "started"} :
            state[a] \in UnstartedStates /\ state' = [state EXCEPT ![a] = st]
      BY DEF TurnControlNext, BeginPreparation, CheckpointPreparation, CompletePreparation,
         InterruptPreparation, PublishTurn, AcceptTurn, Admit, Offer, BeginStart, MarkStarted,
         GrantStep, BeginCheckout, CompleteCheckout, CloseCheckouts, CheckoutsFlushed,
         SetSessionResources, BindSessionPod, AdmitSession, UnstartedStates
<1> QED BY <1>1, <1>2 DEF TerminalAdds, OverStates, UnstartedStates, TypeInv, TypeOK, GrantTypeOK

\* Results, failures and their delivery.
LEMMA OutboxTerminal ==
    TypeInv /\ LeaseInv /\ PodInv /\ OutboxShape /\ TerminalInv /\ OutboxNext => TerminalAdds
<1> SUFFICES ASSUME TypeInv, LeaseInv, PodInv, OutboxShape, TerminalInv, OutboxNext PROVE TerminalAdds
    OBVIOUS
<1>1. ASSUME NEW a \in Attempts, NEW k \in ResultKinds \cup {"cancel-ack"},
             ReceiveTerminal(a, k) \/ ReceiveFailure(a)
      PROVE  TerminalAdds
      <2>1. k # "none"
            BY BoundsAssumption
      <2>2. PICK st \in OverStates, so \in {"worker", "controller"}, kd \in {k, "fail"} :
               /\ source[a] = "none"
               /\ state' = [state EXCEPT ![a] = st] /\ source' = [source EXCEPT ![a] = so]
               /\ kind' = [kind EXCEPT ![a] = kd] /\ delivery' = [delivery EXCEPT ![a] = "received"]
               /\ st = "terminal_received" => so = "worker"
               /\ st # "closed"
               /\ UNCHANGED <<workerSession, execReceipt, witness, resultReceipt, recovery>>
            BY <1>1 DEF ReceiveTerminal, ReceiveFailure, RecordFailure, QuarantineTurn,
               LeaveUnexecuted, OverStates
      <2>3. \A b \in Attempts \ {a} : /\ state'[b] = state[b] /\ source'[b] = source[b]
                                      /\ delivery'[b] = delivery[b]
            BY <2>2 DEF TypeInv, TypeOK, GrantTypeOK, OutboxTypeOK
      <2>4. state'[a] = st /\ source'[a] = so /\ kind'[a] = kd /\ delivery'[a] = "received"
            BY <2>2 DEF TypeInv, TypeOK, GrantTypeOK, OutboxTypeOK
      <2>5. recovery[a] = "none" /\ kd # "none"
            BY <2>1, <2>2 DEF OutboxShape
      <2> QED BY <2>2, <2>3, <2>4, <2>5 DEF TerminalAdds, OverStates
<1>2. ASSUME NEW a \in Attempts, RecordResultReceipt(a) PROVE TerminalAdds
      BY <1>2 DEF RecordResultReceipt, OutboxStep, TerminalAdds
<1>3. ASSUME NEW a \in Attempts, RecordTurnExecutionReceipt(a) PROVE TerminalAdds
      BY <1>3 DEF RecordTurnExecutionReceipt, TerminalAdds
<1>4. ASSUME NEW a \in Attempts, RecordRecoveryFailure(a) PROVE TerminalAdds
      <2>1. PICK s \in Attempts : s = workerSession[a] /\ active[s] = a /\ evidence[s] = "terminated"
            BY <1>4, Identities DEF RecordRecoveryFailure, TypeInv, TypeOK, GrantTypeOK, Bindings
      <2>2. s \in sessionStop
            BY <2>1 DEF PodInv
      <2>3. stopActive[s] = a /\ s # None
            BY <2>1, <2>2, Identities DEF LeaseInv, StopAgreement, TypeInv, Bindings
      <2>4. StopEvidence(a) = "terminated"
            BY <2>1, <2>3 DEF StopEvidence
      <2>5. /\ recovery' = [recovery EXCEPT ![a] = "received"]
            /\ delivery[a] = "received" /\ source[a] = "worker" /\ a \in stopped \cap checkoutClosed
            /\ UNCHANGED <<source, state, execReceipt, witness, delivery, resultReceipt, workerSession>>
            BY <1>4 DEF RecordRecoveryFailure
      <2> QED BY <2>4, <2>5 DEF TerminalAdds, TypeInv, TypeOK, OutboxTypeOK
<1>5. ASSUME NEW a \in Attempts, NEW outcome \in Outcomes,
             \/ BeginForward(a) \/ RejectTerminal(a) \/ FinishForward(a, outcome)
             \/ RecordCompletionWitness(a) \/ BeginFailureForward(a) \/ RejectFailure(a)
      PROVE  TerminalAdds
      <2>1. /\ \E d : delivery' = [delivery EXCEPT ![a] = d] /\ (a \in witness' /\ a \notin witness => d = "delivered")
            /\ \A b \in Attempts \ {a} : b \in witness' => b \in witness
            /\ recovery[a] = "none" \/ delivery[a] = "forwarding" \/ source[a] = "controller"
            /\ UNCHANGED <<source, state, execReceipt, resultReceipt, recovery, workerSession>>
            BY <1>5 DEF BeginForward, RejectTerminal, FinishForward, RecordCompletionWitness,
               BeginFailureForward, RejectFailure, Deliverable, SetDelivery, OutboxStep
      <2>2. recovery[a] = "none"
            BY <2>1 DEF OutboxShape, TerminalInv
      <2> QED BY <2>1, <2>2 DEF TerminalAdds, TypeInv, TypeOK, OutboxTypeOK
<1>6. ASSUME NEW a \in Attempts, NEW outcome \in Outcomes,
             \/ BeginRecoveryForward(a) \/ FinishRecoveryForward(a, outcome) \/ RejectRecoveryFailure(a)
      PROVE  TerminalAdds
      <2>1. /\ \E d : recovery' = [recovery EXCEPT ![a] = d]
            /\ recovery[a] # "none"
            /\ UNCHANGED <<source, state, execReceipt, witness, resultReceipt, delivery, workerSession>>
            BY <1>6 DEF BeginRecoveryForward, FinishRecoveryForward, RejectRecoveryFailure, SetRecovery,
               OutboxStep
      <2> QED BY <2>1 DEF TerminalAdds, TypeInv, TypeOK, OutboxTypeOK
<1>7. ASSUME NEW a \in Attempts, NEW keep \in BOOLEAN, CompleteTurn(a, keep) PROVE TerminalAdds
      <2>1. /\ state' = [state EXCEPT ![a] = "closed"] /\ a \in execReceipt
            /\ UNCHANGED <<source, execReceipt, witness, resultReceipt, delivery, recovery, workerSession>>
            BY <1>7 DEF CompleteTurn, SettleTurn, EndTurn
      <2>2. source[a] = "worker"
            BY <2>1 DEF TerminalInv
      <2> QED BY <2>1, <2>2 DEF TerminalAdds, OverStates, TypeInv, TypeOK, GrantTypeOK
<1>8. ASSUME NEW a \in Attempts, RecoverClosedCheckpoint(a) PROVE TerminalAdds
      BY <1>8, TerminalKept DEF RecoverClosedCheckpoint, terminalVars
<1>9. "received" \in Outcomes /\ "cancel-ack" \in ResultKinds \cup {"cancel-ack"}
      BY DEF Outcomes
<1> QED BY <1>1, <1>2, <1>3, <1>4, <1>5, <1>6, <1>7, <1>8, <1>9 DEF OutboxNext

\* Stops and releases.
LEMMA SessionStopTerminal == TypeInv /\ LeaseInv /\ SessionStopNext => TerminalAdds
<1> SUFFICES ASSUME TypeInv, LeaseInv, SessionStopNext PROVE TerminalAdds
    OBVIOUS
<1>1. ASSUME NEW s \in Attempts, CloseSession(s) PROVE TerminalAdds
      <2>1. /\ state' = [b \in Attempts |-> IF b \in {active[s]} \ {None} THEN "closed" ELSE state[b]]
            /\ s \in sessionStop /\ evidence[s] # "none"
            /\ UNCHANGED <<source, execReceipt, witness, resultReceipt, delivery, recovery, workerSession>>
            BY <1>1 DEF CloseSession, EvidenceHolds
      <2>2. ASSUME NEW a \in Attempts, a = active[s], a # None
            PROVE  a \in stopped /\ StopEvidence(a) # "none"
            <3>1. SessionExists(s) /\ workerSession[a] = s /\ s # None
                  BY <2>2, Identities DEF LeaseInv, TurnOwnership
            <3>2. stopActive[s] = a /\ a \in stopped
                  BY <2>1, <2>2, <3>1 DEF LeaseInv, StopAgreement
            <3> QED BY <2>1, <3>1, <3>2 DEF StopEvidence
      <2>3. \A a \in Attempts : \/ state'[a] = state[a]
                                \/ a = active[s] /\ a # None /\ state'[a] = "closed"
            BY <2>1
      <2> QED BY <2>1, <2>2, <2>3 DEF TerminalAdds, OverStates
<1>2. ASSUME NEW a \in Attempts, CloseStopped(a) PROVE TerminalAdds
      BY <1>2 DEF CloseStopped, TerminalAdds, OverStates, TypeInv, TypeOK, GrantTypeOK
<1>3. ASSUME NEW s \in Attempts,
             \/ RequestSessionStop(s) \/ QuarantineSession(s) \/ RequestStop(s)
             \/ RecordSessionControllerFlush(s) \/ RecordSessionStopReceipt(s)
             \/ ObserveSessionStop(s) \/ MarkSessionCleaned(s) \/ MarkCleaned(s)
      PROVE  TerminalAdds
      <2>1. UNCHANGED <<terminalVars, workerSession>>
            BY <1>3 DEF terminalVars, RequestSessionStop, QuarantineSession, RequestStop,
               RecordSessionControllerFlush, RecordSessionStopReceipt, ObserveSessionStop,
               MarkSessionCleaned, MarkCleaned
      <2> QED BY <2>1, TerminalKept
<1> QED BY <1>1, <1>2, <1>3 DEF SessionStopNext

\* A restart makes requests in flight uncertain; other events outside the
\* journal change no record.
LEMMA ClusterTerminal == TypeInv /\ TerminalInv /\ ClusterNext => TerminalAdds
<1> SUFFICES ASSUME TypeInv, TerminalInv, ClusterNext PROVE TerminalAdds
    OBVIOUS
<1>1. CASE Restart
      <2>1. /\ UNCHANGED <<source, state, execReceipt, witness, resultReceipt, workerSession>>
            /\ \A a \in Attempts : /\ delivery[a] # "forwarding" => delivery'[a] = delivery[a]
                                   /\ recovery'[a] # "none" => recovery[a] # "none"
            BY <1>1 DEF Restart
      <2> QED BY <2>1 DEF TerminalAdds, TerminalInv
<1>2. CASE ~ Restart
      <2>1. UNCHANGED <<terminalVars, workerSession>>
            BY <1>2 DEF terminalVars, ClusterNext, PodCommits, PodRuns, PodNeverStarts,
               PodTerminates, PodLost, SetPod, Seal, WriterExits, BackendStarts,
               BackendCommits, BackendEnds, SetBackend, ContainerTerminates
      <2> QED BY <2>1, TerminalKept
<1> QED BY <1>1, <1>2

\* Every step keeps the facts about the outbox.
LEMMA TerminalStep ==
    ASSUME TypeInv, TypeInv', LeaseInv, PodInv, OutcomeInv, StopInv, TerminalInv, Advance, [Next]_vars
    PROVE  TerminalInv'
<1>1. OutboxShape /\ OutcomeStep
      BY OutcomeNext, OutcomeFrame DEF OutcomeInv, outcomeVars
<1>2. TerminalAdds
      <2>1. UNCHANGED vars => TerminalAdds
            BY TerminalKept DEF terminalVars
      <2> QED BY <1>1, <2>1, ReservationTerminal, TurnControlTerminal, OutboxTerminal, SessionStopTerminal,
              ClusterTerminal DEF Next
<1> QED BY <1>1, <1>2, TerminalFrom
-----------------------------------------------------------------------------
(* Stop records.                                                           *)

\* A closed session stays closed.
LEMMA ClosedStays == TypeInv /\ LeaseInv /\ [Next]_vars => \A s \in Attempts : Closed(s) => Closed(s)'
<1> SUFFICES ASSUME TypeInv, LeaseInv, [Next]_vars PROVE \A s \in Attempts : Closed(s) => Closed(s)'
    OBVIOUS
<1>1. ASSUME NEW a \in Attempts, NEW t \in Tasks, ReserveNew(a, t), NEW s \in Attempts, Closed(s)
      PROVE  Closed(s)'
      <2>1. ~ SessionExists(a) /\ sessionState' = [sessionState EXCEPT ![a] = "creating"]
            BY <1>1, Identities DEF ReserveNew, Reservable, TypeInv, Bindings
      <2> QED BY <1>1, <2>1 DEF Closed, SessionExists, TypeInv, TypeOK, SessionTypeOK
<1> QED BY <1>1, SessionStep DEF SessionsKept

\* What a step adds to a stop record, and what it proved of it before.
StopAdds ==
    /\ \A s \in Attempts :
          \/ stopActive'[s] \in {stopActive[s], None}
          \/ s \in sessionStop' /\ stopActive'[s] = active[s] /\ active[s] \in stopped'
    /\ \A s \in writersStopped' :
          \/ s \in writersStopped
          \/ s \in sessionStop /\ (stopActive[s] # None =>
                CheckoutFenced(stopActive[s])' /\ PreparationSettled(stopActive[s])')
    /\ \A s \in Attempts :
          /\ stopReceipt'[s] # "none" => stopReceipt[s] # "none" \/ s \in sessionStop \cap supervisorKey
          /\ stopReceipt'[s] = "clean" => stopReceipt[s] = "clean" \/ s \in writersStopped
          /\ \/ evidence'[s] = evidence[s] /\ (s \in preparedFlush' => s \in preparedFlush)
             \/ /\ s \in sessionStop /\ UNCHANGED supervisorKey
                /\ ValidSessionStopEvidence(s, evidence'[s], s \in preparedFlush')
          /\ s \in supervisorKey' => s \in supervisorKey \/ pod[s] = "running"
          /\ s \in resourcesCleaned' => s \in resourcesCleaned \/ Closed(s)

\* No session is stopped at first.
LEMMA StopInit == Init => StopInv
BY DEF Init, StopInv

\* A step that stops no session.
LEMMA StopKeeps == UNCHANGED <<stopVars, supervisorKey, resourcesCleaned>> => StopAdds
BY DEF StopAdds

\* A session is stopped with its turn.
LEMMA StopRecords ==
    ASSUME TypeInv, NEW s, NEW turn, RecordStop(s, turn), UNCHANGED <<supervisorKey, resourcesCleaned>>,
           turn # None => turn = active[s] /\ turn \in stopped'
    PROVE  StopAdds
BY DEF RecordStop, StopAdds, TypeInv, TypeOK, SessionTypeOK

\* What was proved of a stop record stays so.
LEMMA StopFrom ==
    ASSUME TypeInv, TypeInv', LeaseInv, LeaseInv', PodInv, PodInv', ReceiptInv,
           ProgressInv', StopInv, Advance,
           StopAdds, \A s \in Attempts : Closed(s) => Closed(s)'
    PROVE  StopInv'
<1>1. /\ \A a \in Attempts : workerSession[a] # None => workerSession'[a] = workerSession[a]
      /\ stopped \subseteq stopped' /\ sessionStop \subseteq sessionStop'
      /\ podBound \subseteq podBound' /\ writersStopped \subseteq writersStopped'
      /\ supervisorKey \subseteq supervisorKey'
      /\ \A s \in sessionStop : stopActive'[s] = stopActive[s]
      /\ \A a \in Attempts : prep[a] \in {"stopped", "prepared"} => prep'[a] = prep[a]
      /\ \A a \in Attempts : CheckoutFenced(a) => CheckoutFenced(a)'
      /\ \A a \in stopped : /\ checkoutBy[a] = 0 => checkoutBy'[a] = 0
                            /\ PreparationSettled(a) => PreparationSettled(a)'
      BY DEF Advance, GrantsAdvance, SessionsAdvance
<1>2. ASSUME NEW s \in Attempts, stopActive'[s] # None
      PROVE  /\ s \in sessionStop' /\ stopActive'[s] \in Attempts
             /\ workerSession'[stopActive'[s]] = s /\ stopActive'[s] \in stopped'
      <2>1. stopActive'[s] \in Attempts /\ s # None
            BY <1>2, Identities DEF TypeInv, TypeOK, SessionTypeOK
      <2>2. CASE stopActive'[s] = stopActive[s]
            BY <1>1, <1>2, <2>1, <2>2 DEF StopInv
      <2>3. CASE s \in sessionStop' /\ stopActive'[s] = active[s] /\ active[s] \in stopped'
            BY <1>1, <1>2, <2>1, <2>3 DEF LeaseInv, TurnOwnership
      <2> QED BY <1>2, <2>2, <2>3 DEF StopAdds
<1>3. ASSUME NEW s \in sessionStop PROVE StopTurn(s) = stopActive[s]
      BY <1>3 DEF StopTurn, LeaseInv, StopAgreement, TypeInv, Bindings, TypeOK, SessionTypeOK
<1>4. ASSUME NEW s \in sessionStop' PROVE StopTurn(s)' = stopActive'[s]
      BY <1>4 DEF StopTurn, LeaseInv, StopAgreement, TypeInv, Bindings, TypeOK, SessionTypeOK
<1>5. ASSUME NEW s \in Attempts, s \in writersStopped', stopActive'[s] # None
      PROVE  CheckoutFenced(stopActive[s])' /\ PreparationSettled(stopActive[s])'
      <2>1. CASE s \in writersStopped /\ s \in sessionStop
            <3>1. stopActive'[s] = stopActive[s] /\ stopActive[s] \in stopped
                  BY <1>1, <1>5, <2>1 DEF StopInv
            <3>2. SessionWritersFenced(s)
                  BY <2>1 DEF StopInv, StopRecordValid
            <3>3. CheckoutFenced(stopActive[s]) /\ PreparationSettled(stopActive[s])
                  BY <1>3, <1>5, <2>1, <3>1, <3>2 DEF SessionWritersFenced, TurnWritersFenced
            <3> QED BY <1>1, <3>1, <3>3 DEF TypeInv, TypeOK, GrantTypeOK, CheckoutFenced, PreparationSettled
      <2>2. CASE s \in sessionStop /\ (stopActive[s] # None =>
                    CheckoutFenced(stopActive[s])' /\ PreparationSettled(stopActive[s])')
            BY <1>1, <1>5, <2>2
      <2>3. s \in writersStopped => s \in sessionStop
            BY DEF ReceiptInv
      <2> QED BY <1>5, <2>1, <2>2, <2>3 DEF StopAdds
<1>6. ASSUME NEW s \in sessionStop, evidence'[s] # "none",
             stopActive[s] # None =>
                /\ checkoutBy[stopActive[s]] = 0 /\ PreparationSettled(stopActive[s])
                /\ s \in preparedFlush' => prep[stopActive[s]] = "prepared",
             \/ evidence'[s] = "terminated" /\ s \in podBound /\ s \notin preparedFlush'
             \/ evidence'[s] = "never-started" /\ s \in podBound /\ s \notin supervisorKey'
             \/ evidence'[s] = "no-worker"
      PROVE  EvidenceHolds(s)'
      <2>1. s \in sessionStop' /\ StopTurn(s)' = stopActive[s] /\ s \in Attempts
            BY <1>1, <1>4 DEF TypeInv, TypeOK, SessionTypeOK
      <2>2. stopActive[s] # None =>
                /\ checkoutBy'[stopActive[s]] = 0 /\ prep'[stopActive[s]] # "running"
                /\ s \in preparedFlush' => prep'[stopActive[s]] = "prepared"
            <3>1. stopActive[s] # None => stopActive[s] \in stopped /\ stopActive[s] \in Attempts
                  BY <2>1 DEF StopInv, TypeInv, TypeOK, SessionTypeOK
            <3> QED BY <1>1, <1>6, <3>1 DEF PreparationSettled
      <2>3. evidence'[s] = "no-worker" =>
                s \notin podBound' /\ s \notin supervisorKey' /\ s \notin podRequested'
            BY <2>1 DEF PodInv, ProgressInv
      <2> QED BY <1>1, <1>6, <2>1, <2>2, <2>3
              DEF EvidenceHolds, ValidSessionStopEvidence, PreparationSettled
<1>7. ASSUME NEW s \in Attempts, evidence'[s] # "none" PROVE EvidenceHolds(s)'
      <2>1. CASE evidence'[s] = evidence[s] /\ (s \in preparedFlush' => s \in preparedFlush)
            <3>1. s \in sessionStop /\ EvidenceHolds(s)
                  BY <1>7, <2>1 DEF PodInv, StopInv, StopRecordValid
            <3>2. evidence[s] = "never-started" /\ s \notin supervisorKey => s \notin supervisorKey'
                  BY DEF PodInv, StopAdds
            <3> QED BY <1>3, <1>6, <1>7, <2>1, <3>1, <3>2 DEF EvidenceHolds, ValidSessionStopEvidence
      <2>2. CASE /\ s \in sessionStop /\ UNCHANGED supervisorKey
                 /\ ValidSessionStopEvidence(s, evidence'[s], s \in preparedFlush')
            BY <1>3, <1>6, <1>7, <2>2 DEF ValidSessionStopEvidence
      <2> QED BY <2>1, <2>2 DEF StopAdds
<1>8. ASSUME NEW s \in Attempts, s \in sessionStop' PROVE StopRecordValid(s)'
      <2>1. s \in writersStopped' => SessionWritersFenced(s)'
            BY <1>4, <1>5, <1>8 DEF SessionWritersFenced, TurnWritersFenced
      <2>2. stopReceipt'[s] = "clean" => s \in writersStopped'
            <3>1. stopReceipt[s] = "clean" => s \in writersStopped
                  BY DEF StopInv, StopRecordValid
            <3> QED BY <1>1, <3>1 DEF StopAdds
      <2> QED BY <1>2, <1>7, <2>1, <2>2 DEF StopRecordValid
<1>9. \A s \in Attempts : stopReceipt'[s] # "none" => s \in sessionStop' \cap supervisorKey'
      BY <1>1 DEF StopInv, StopAdds
<1>10. \A s \in resourcesCleaned' : Closed(s)'
       BY DEF StopInv, StopAdds, TypeInv, TypeOK, SessionTypeOK
<1>11. \A s \in preparedFlush' : evidence'[s] # "none"
       BY DEF StopInv, StopAdds, ValidSessionStopEvidence, TypeInv, TypeOK, SessionTypeOK
<1> QED BY <1>2, <1>8, <1>9, <1>10, <1>11 DEF StopInv

\* Claims and reservations.
LEMMA ReservationStopRecord == TypeInv /\ ReservationNext => StopAdds
<1> SUFFICES ASSUME TypeInv, ReservationNext PROVE StopAdds
    OBVIOUS
<1>1. ASSUME NEW s, DrainIdle(s) PROVE StopAdds
      <2>1. /\ RecordStop(s, active[s]) /\ UNCHANGED <<supervisorKey, resourcesCleaned>>
            /\ active[s] # None => active[s] \in stopped'
            BY <1>1 DEF DrainIdle, RevokeTurn
      <2> QED BY <2>1, StopRecords
<1>2. ASSUME NEW a \in Attempts, NEW choice \in Tasks \cup {Fresh}, NEW reuse \in BOOLEAN, NEW t \in Tasks,
             \/ QueueClaim(a) \/ RecordSelection(a, choice, reuse) \/ ReserveWarm(a) \/ ReserveNew(a, t)
      PROVE  StopAdds
      <2>1. UNCHANGED <<stopVars, supervisorKey, resourcesCleaned>>
            BY <1>2 DEF QueueClaim, RecordSelection, ReserveWarm, ReserveNew, Reserve
      <2> QED BY <2>1, StopKeeps
<1>3. (\A a \in Attempts : TaskOf[a] \in Tasks) /\ Fresh \in Tasks \cup {Fresh} /\ TRUE \in BOOLEAN
      BY Identities
<1> QED BY <1>1, <1>2, <1>3 DEF ReservationNext, DrainCurrent, DrainForCapacity, ExpireSession

\* Preparation, Pods and the start of a turn.
LEMMA TurnControlStopRecord == TypeInv /\ TurnControlNext => StopAdds
<1> SUFFICES ASSUME TypeInv, TurnControlNext PROVE StopAdds
    OBVIOUS
<1>1. ASSUME NEW a \in Attempts, InterruptPreparation(a) PROVE StopAdds
      <2>1. PICK s : /\ RecordStop(s, active[s]) /\ UNCHANGED <<supervisorKey, resourcesCleaned>>
                     /\ active[s] # None => active[s] \in stopped'
            BY <1>1 DEF InterruptPreparation, RevokeTurn
      <2> QED BY <2>1, StopRecords
<1>2. ASSUME NEW s \in Attempts, AdmitSession(s) PROVE StopAdds
      BY <1>2 DEF AdmitSession, StopAdds
<1>3. ASSUME NEW a \in Attempts, NEW prepared \in BOOLEAN,
             \/ BeginPreparation(a) \/ CheckpointPreparation(a) \/ CompletePreparation(a, prepared)
             \/ PublishTurn(a) \/ AcceptTurn(a) \/ Admit(a) \/ Offer(a) \/ BeginStart(a) \/ MarkStarted(a)
             \/ BeginCheckout(a) \/ CompleteCheckout(a) \/ CloseCheckouts(a) \/ CheckoutsFlushed(a)
             \/ SetSessionResources(a) \/ BindSessionPod(a)
      PROVE  StopAdds
      <2>1. UNCHANGED <<stopVars, supervisorKey, resourcesCleaned>>
            BY <1>3 DEF BeginPreparation, CheckpointPreparation, CompletePreparation,
               PublishTurn, AcceptTurn, Admit, Offer, BeginStart, MarkStarted, GrantStep,
               BeginCheckout, CompleteCheckout, CloseCheckouts, CheckoutsFlushed,
               SetSessionResources, BindSessionPod
      <2> QED BY <2>1, StopKeeps
<1> QED BY <1>1, <1>2, <1>3 DEF TurnControlNext

\* Failures and completion stop a session, no other step of the outbox does.
LEMMA OutboxStopRecord == TypeInv /\ OutboxNext => StopAdds
<1> SUFFICES ASSUME TypeInv, OutboxNext PROVE StopAdds
    OBVIOUS
<1>1. ASSUME NEW a \in Attempts, NEW keep \in BOOLEAN, ReceiveFailure(a) \/ CompleteTurn(a, keep)
      PROVE  StopAdds
      <2>1. /\ UNCHANGED <<supervisorKey, resourcesCleaned>>
            /\ \/ UNCHANGED stopVars
               \/ RecordStop(workerSession[a], None)
               \/ /\ RecordStop(workerSession[a], active[workerSession[a]])
                  /\ active[workerSession[a]] # None => active[workerSession[a]] \in stopped'
            BY <1>1 DEF ReceiveFailure, RecordFailure, QuarantineTurn, LeaveUnexecuted, RevokeTurn,
               CompleteTurn, SettleTurn, RetainSession, ReleaseSession
      <2> QED BY <2>1, StopKeeps, StopRecords
<1>2. ASSUME NEW a \in Attempts, NEW k \in ResultKinds \cup {"cancel-ack"},
             \/ ReceiveTerminal(a, k) \/ RecordResultReceipt(a) \/ RecordTurnExecutionReceipt(a)
             \/ RecordRecoveryFailure(a) \/ RecordCompletionWitness(a) \/ RecoverClosedCheckpoint(a)
      PROVE  StopAdds
      <2>1. UNCHANGED <<stopVars, supervisorKey, resourcesCleaned>>
            BY <1>2 DEF ReceiveTerminal, RecordResultReceipt, RecordTurnExecutionReceipt,
               RecordRecoveryFailure, RecordCompletionWitness, RecoverClosedCheckpoint, OutboxStep
      <2> QED BY <2>1, StopKeeps
<1>3. ASSUME NEW a \in Attempts, NEW outcome \in Outcomes,
             \/ BeginForward(a) \/ RejectTerminal(a) \/ FinishForward(a, outcome)
             \/ FinishRecoveryForward(a, outcome) \/ BeginFailureForward(a) \/ RejectFailure(a)
             \/ BeginRecoveryForward(a) \/ RejectRecoveryFailure(a)
      PROVE  StopAdds
      <2>1. UNCHANGED <<stopVars, supervisorKey, resourcesCleaned>>
            BY <1>3 DEF BeginForward, RejectTerminal, FinishForward, FinishRecoveryForward,
               BeginFailureForward, RejectFailure, BeginRecoveryForward, RejectRecoveryFailure, OutboxStep
      <2> QED BY <2>1, StopKeeps
<1>4. "received" \in Outcomes /\ "cancel-ack" \in ResultKinds \cup {"cancel-ack"} /\ TRUE \in BOOLEAN
      BY DEF Outcomes
<1> QED BY <1>1, <1>2, <1>3, <1>4 DEF OutboxNext

\* Stops, fences, evidence and releases.
LEMMA SessionStopStopRecord == TypeInv /\ LeaseInv /\ StopInv /\ SessionStopNext => StopAdds
<1> SUFFICES ASSUME TypeInv, LeaseInv, StopInv, SessionStopNext PROVE StopAdds
    OBVIOUS
<1>1. ASSUME NEW s \in Attempts, RequestSessionStop(s) \/ QuarantineSession(s) PROVE StopAdds
      <2>1. /\ RecordStop(s, active[s]) /\ UNCHANGED <<supervisorKey, resourcesCleaned>>
            /\ active[s] # None => active[s] \in stopped'
            BY <1>1 DEF RequestSessionStop, StopSession, QuarantineSession, RevokeTurn
      <2> QED BY <2>1, StopRecords
<1>2. ASSUME NEW a \in Attempts, RequestStop(a) PROVE StopAdds
      <2>1. /\ UNCHANGED <<supervisorKey, resourcesCleaned>> /\ a \in stopped' /\ state[a] # "closed"
            /\ \/ workerSession[a] # None /\ RecordStop(workerSession[a], active[workerSession[a]])
               \/ UNCHANGED stopVars
            BY <1>2, Identities DEF RequestStop, RevokeTurn
      <2>2. workerSession[a] # None => active[workerSession[a]] = a
            BY <2>1 DEF LeaseInv, TurnOwnership
      <2> QED BY <2>1, <2>2, StopKeeps, StopRecords
<1>3. ASSUME NEW s \in Attempts, RecordSessionControllerFlush(s) PROVE StopAdds
      <2>1. /\ s \in sessionStop /\ ControllerWritersEnded(s)
            /\ needsFlush' = needsFlush \ {stopActive[s]} /\ writersStopped' = writersStopped \cup {s}
            /\ UNCHANGED <<prep, checkoutClosed, checkoutBy, supervisorKey, resourcesCleaned, sessionStop,
                           stopActive, stopReceipt, evidence, preparedFlush>>
            BY <1>3 DEF RecordSessionControllerFlush
      <2>2. stopActive[s] # None => CheckoutFenced(stopActive[s])' /\ PreparationSettled(stopActive[s])'
            BY <2>1 DEF ControllerWritersEnded, CheckoutFenced, PreparationSettled
      <2> QED BY <2>1, <2>2 DEF StopAdds
<1>4. ASSUME NEW s \in Attempts, RecordSessionStopReceipt(s) PROVE StopAdds
      <2>1. /\ s \in sessionStop \cap supervisorKey /\ (seal[s] = "clean" => s \in writersStopped)
            /\ stopReceipt' = [stopReceipt EXCEPT ![s] = seal[s]]
            /\ UNCHANGED <<supervisorKey, resourcesCleaned, sessionStop, writersStopped,
                           stopActive, evidence, preparedFlush>>
            BY <1>4 DEF RecordSessionStopReceipt
      <2> QED BY <2>1 DEF StopAdds, TypeInv, TypeOK, SessionTypeOK
<1>5. ASSUME NEW s \in Attempts, ObserveSessionStop(s) PROVE StopAdds
      <2>1. PICK e \in {"none", "no-worker", "terminated", "never-started"}, flush \in BOOLEAN :
               /\ s \in sessionStop /\ evidence[s] = "none" /\ ValidSessionStopEvidence(s, e, flush)
               /\ evidence' = [evidence EXCEPT ![s] = e]
               /\ preparedFlush' = IF flush THEN preparedFlush \cup {s} ELSE preparedFlush
               /\ UNCHANGED <<supervisorKey, resourcesCleaned, sessionStop, writersStopped,
                              stopActive, stopReceipt>>
            BY <1>5 DEF ObserveSessionStop, ObservedEnd
      <2>2. s \notin preparedFlush
            BY <2>1 DEF StopInv
      <2>3. ValidSessionStopEvidence(s, e, s \in preparedFlush')
            BY <2>1, <2>2 DEF ValidSessionStopEvidence
      <2>4. /\ evidence'[s] = e
            /\ \A r \in Attempts \ {s} : /\ evidence'[r] = evidence[r]
                                         /\ r \in preparedFlush' <=> r \in preparedFlush
            BY <2>1 DEF TypeInv, TypeOK, SessionTypeOK
      <2> QED BY <2>1, <2>3, <2>4 DEF StopAdds
<1>6. ASSUME NEW s \in Attempts, MarkSessionCleaned(s) PROVE StopAdds
      BY <1>6 DEF MarkSessionCleaned, StopAdds, Closed
<1>7. ASSUME NEW s \in Attempts, CloseSession(s) \/ CloseStopped(s) \/ MarkCleaned(s) PROVE StopAdds
      <2>1. UNCHANGED <<stopVars, supervisorKey, resourcesCleaned>>
            BY <1>7 DEF CloseSession, CloseStopped, MarkCleaned
      <2> QED BY <2>1, StopKeeps
<1> QED BY <1>1, <1>2, <1>3, <1>4, <1>5, <1>6, <1>7 DEF SessionStopNext

\* Every step keeps the facts about stop records.
LEMMA StopRecordStep ==
    ASSUME TypeInv, TypeInv', LeaseInv, LeaseInv', PodInv, PodInv', ReceiptInv, ProgressInv', StopInv,
           Advance, [Next]_vars
    PROVE  StopInv'
<1>1. ClusterNext => StopAdds
      <2> SUFFICES ASSUME ClusterNext PROVE StopAdds
          OBVIOUS
      <2>1. UNCHANGED <<stopVars, supervisorKey, resourcesCleaned>>
            BY DEF ClusterNext, PodCommits, PodRuns, PodNeverStarts,
               PodTerminates, PodLost, SetPod, Seal, WriterExits, BackendStarts,
               BackendCommits, BackendEnds, SetBackend, Restart, ContainerTerminates
      <2> QED BY <2>1, StopKeeps
<1>2. UNCHANGED vars => StopAdds
      BY StopKeeps
<1>3. StopAdds
      BY <1>1, <1>2, StopKeeps, ReservationStopRecord, TurnControlStopRecord, OutboxStopRecord,
         SessionStopStopRecord DEF Next
<1> QED BY <1>3, ClosedStays, StopFrom
-----------------------------------------------------------------------------
(* Settled turns.                                                          *)

\* A turn is settled, and a checkpoint written, by CompleteTurn, by a late
\* acceptance or by the release of the session; only these release a
\* quarantine, and only a failure quarantines a turn.
LEMMA SettledOnce ==
    ASSUME TypeInv, [Next]_vars
    PROVE  \/ /\ UNCHANGED <<complete, checkpoint>> /\ quarantined \subseteq quarantined'
              /\ \A a \in Attempts : state'[a] = "quarantined" => state[a] = "quarantined" \/ ReceiveFailure(a)
           \/ \E a \in Attempts, keep \in BOOLEAN : CompleteTurn(a, keep)
           \/ \E a \in Attempts : RecoverClosedCheckpoint(a)
           \/ \E s \in Attempts : CloseSession(s)
<1> DEFINE Kept == /\ UNCHANGED <<complete, checkpoint>> /\ quarantined \subseteq quarantined'
                   /\ \A a \in Attempts : state'[a] = "quarantined" =>
                         state[a] = "quarantined" \/ ReceiveFailure(a)
<1>1. ASSUME UNCHANGED <<complete, checkpoint, quarantined, state>> PROVE Kept
      BY <1>1
<1>2. ASSUME UNCHANGED <<complete, checkpoint, quarantined>>, NEW a \in Attempts,
             NEW st \in GrantStates \ {"quarantined"}, state' = [state EXCEPT ![a] = st]
      PROVE  Kept
      BY <1>2 DEF TypeInv, TypeOK, GrantTypeOK
<1>3. ASSUME ReservationNext PROVE Kept
      <2>1. ASSUME NEW a \in Attempts, NEW t \in Tasks, QueueClaim(a) \/ ReserveWarm(a) \/ ReserveNew(a, t)
            PROVE  Kept
            <3>1. /\ UNCHANGED <<complete, checkpoint, quarantined>>
                  /\ \E st \in {"waiting_storage", "intent"} : state' = [state EXCEPT ![a] = st]
                  BY <2>1 DEF QueueClaim, ReserveWarm, ReserveNew, Reserve
            <3> QED BY <1>2, <3>1 DEF GrantStates
      <2>2. ASSUME NEW a \in Attempts, NEW choice \in Tasks \cup {Fresh}, NEW reuse \in BOOLEAN,
                   RecordSelection(a, choice, reuse)
            PROVE  Kept
            BY <1>1, <2>2 DEF RecordSelection
      <2>3. ASSUME NEW s, DrainIdle(s) PROVE Kept
            BY <1>1, <2>3 DEF DrainIdle
      <2>4. \A a \in Attempts : TaskOf[a] \in Tasks
            BY Identities
      <2> QED BY <1>3, <2>1, <2>2, <2>3, <2>4 DEF ReservationNext, DrainCurrent, DrainForCapacity, ExpireSession
<1>4. ASSUME TurnControlNext PROVE Kept
      <2>1. ASSUME NEW a \in Attempts,
                   \/ PublishTurn(a) \/ Admit(a) \/ Offer(a) \/ BeginStart(a) \/ MarkStarted(a)
            PROVE  Kept
            <3>1. /\ UNCHANGED <<complete, checkpoint, quarantined>>
                  /\ \E st \in {"assigned", "ready", "offered", "starting", "started"} :
                        state' = [state EXCEPT ![a] = st]
                  BY <2>1 DEF PublishTurn, Admit, Offer, BeginStart, MarkStarted, GrantStep
            <3> QED BY <1>2, <3>1 DEF GrantStates
      <2>2. ASSUME NEW a \in Attempts, NEW prepared \in BOOLEAN,
                   \/ BeginPreparation(a) \/ CheckpointPreparation(a) \/ CompletePreparation(a, prepared)
                   \/ InterruptPreparation(a) \/ AcceptTurn(a)
                   \/ BeginCheckout(a) \/ CompleteCheckout(a) \/ CloseCheckouts(a) \/ CheckoutsFlushed(a)
                   \/ SetSessionResources(a) \/ BindSessionPod(a) \/ AdmitSession(a)
            PROVE  UNCHANGED <<complete, checkpoint, quarantined, state>>
            BY <2>2 DEF BeginPreparation, CheckpointPreparation, CompletePreparation,
               InterruptPreparation, AcceptTurn, BeginCheckout, CompleteCheckout, CloseCheckouts,
               CheckoutsFlushed, SetSessionResources, BindSessionPod, AdmitSession
      <2>3. TRUE \in BOOLEAN
            OBVIOUS
      <2> QED BY <1>1, <1>4, <2>1, <2>2, <2>3 DEF TurnControlNext
<1>5. ASSUME OutboxNext, ~ (\E a \in Attempts, keep \in BOOLEAN : CompleteTurn(a, keep)),
             ~ (\E a \in Attempts : RecoverClosedCheckpoint(a))
      PROVE  Kept
      <2>1. ASSUME NEW a \in Attempts, NEW k \in ResultKinds \cup {"cancel-ack"}, ReceiveTerminal(a, k)
            PROVE  Kept
            BY <1>2, <2>1 DEF ReceiveTerminal, GrantStates
      <2>2. ASSUME NEW a \in Attempts, ReceiveFailure(a) PROVE Kept
            <3>1. /\ UNCHANGED <<complete, checkpoint>> /\ quarantined \subseteq quarantined'
                  /\ \E st : state' = [state EXCEPT ![a] = st]
                  BY <2>2 DEF ReceiveFailure, RecordFailure, QuarantineTurn, LeaveUnexecuted
            <3> QED BY <2>2, <3>1 DEF TypeInv, TypeOK, GrantTypeOK
      <2>3. ASSUME NEW a \in Attempts, NEW outcome \in Outcomes,
                   \/ RecordResultReceipt(a) \/ RecordTurnExecutionReceipt(a) \/ RecordRecoveryFailure(a)
                   \/ BeginForward(a) \/ RejectTerminal(a) \/ FinishForward(a, outcome)
                   \/ FinishRecoveryForward(a, outcome) \/ RecordCompletionWitness(a)
                   \/ BeginFailureForward(a) \/ RejectFailure(a)
                   \/ BeginRecoveryForward(a) \/ RejectRecoveryFailure(a)
            PROVE  UNCHANGED <<complete, checkpoint, quarantined, state>>
            BY <2>3 DEF RecordResultReceipt, RecordTurnExecutionReceipt, RecordRecoveryFailure,
               BeginForward, RejectTerminal, FinishForward, FinishRecoveryForward,
               RecordCompletionWitness, BeginFailureForward, RejectFailure,
               BeginRecoveryForward, RejectRecoveryFailure, OutboxStep
      <2>4. "received" \in Outcomes
            BY DEF Outcomes
      <2> QED BY <1>1, <1>5, <2>1, <2>2, <2>3, <2>4 DEF OutboxNext
<1>6. ASSUME SessionStopNext, ~ (\E s \in Attempts : CloseSession(s)) PROVE Kept
      <2>1. ASSUME NEW a \in Attempts, CloseStopped(a) PROVE Kept
            BY <1>2, <2>1 DEF CloseStopped, GrantStates
      <2>2. ASSUME NEW s \in Attempts, QuarantineSession(s) PROVE Kept
            BY <2>2 DEF QuarantineSession
      <2>3. ASSUME NEW s \in Attempts,
                   \/ RequestSessionStop(s) \/ RequestStop(s) \/ RecordSessionControllerFlush(s)
                   \/ RecordSessionStopReceipt(s) \/ ObserveSessionStop(s) \/ MarkSessionCleaned(s)
                   \/ MarkCleaned(s)
            PROVE  UNCHANGED <<complete, checkpoint, quarantined, state>>
            BY <2>3 DEF RequestSessionStop, RequestStop, RecordSessionControllerFlush,
               RecordSessionStopReceipt, ObserveSessionStop, MarkSessionCleaned, MarkCleaned
      <2> QED BY <1>1, <1>6, <2>1, <2>2, <2>3 DEF SessionStopNext
<1>7. ASSUME ClusterNext PROVE UNCHANGED <<complete, checkpoint, quarantined, state>>
      BY <1>7 DEF ClusterNext, PodCommits, PodRuns, PodNeverStarts, PodTerminates, PodLost, SetPod,
         Seal, WriterExits, BackendStarts, BackendCommits, BackendEnds, SetBackend, Restart,
         ContainerTerminates
<1>8. UNCHANGED vars => Kept
      OBVIOUS
<1> HIDE DEF Kept
<1>9. \/ Kept \/ \E a \in Attempts, keep \in BOOLEAN : CompleteTurn(a, keep)
      \/ \E a \in Attempts : RecoverClosedCheckpoint(a)
      \/ \E s \in Attempts : CloseSession(s)
      BY <1>1, <1>3, <1>4, <1>5, <1>6, <1>7, <1>8 DEF Next
<1> QED BY <1>9 DEF Kept

\* There is no turn at first.
LEMMA OverInit == Init => OverInv
BY DEF Init, OverInv

\* The open session on the root of a turn that is not closed runs that turn.
LEMMA QuarantinedTurn ==
    ASSUME TypeInv, LeaseInv, RootInv, ClaimInv, NEW a \in Attempts, state[a] = "quarantined"
    PROVE  /\ storageOf[a] \in Tasks /\ rootActive[storageOf[a]] = a
           /\ writer[storageOf[a]] = workerSession[a] /\ active[workerSession[a]] = a
<1>1. workerSession[a] # None
      BY DEF ClaimInv
<1>2. PICK s \in Attempts : s = workerSession[a] /\ active[s] = a /\ SessionExists(s) /\ ~ Closed(s)
      BY <1>1, Identities DEF LeaseInv, TurnOwnership, TypeInv, TypeOK, GrantTypeOK
<1>3. storageOf[s] = storageOf[a] /\ storageOf[s] \in Tasks
      BY <1>1, <1>2 DEF RootInv, LeaseInv, LeaseAgreement, TypeInv, TypeOK, GrantTypeOK
<1> QED BY <1>2, <1>3 DEF LeaseInv, LeaseAgreement

\* Every step keeps the facts about quarantined and about complete turns.
LEMMA OverStep ==
    ASSUME TypeInv, LeaseInv, RootInv, ClaimInv, OverInv, Advance, [Next]_vars
    PROVE  OverInv'
<1>1. /\ \A a \in Attempts : workerSession[a] # None =>
            workerSession'[a] = workerSession[a] /\ storageOf'[a] = storageOf[a]
      /\ stopped \subseteq stopped' /\ revoked \subseteq revoked'
      /\ execReceipt \subseteq execReceipt' /\ witness \subseteq witness'
      BY DEF Advance, GrantsAdvance
<1>2. \A s \in Attempts : Closed(s) => Closed(s)'
      BY ClosedStays
<1>3. ASSUME NEW a \in complete
      PROVE  a \in revoked' /\ (a \in execReceipt' \cap witness' \/ Closed(workerSession[a])')
      <2>1. a \in Attempts /\ workerSession[a] # None /\ workerSession[a] \in Attempts
            BY DEF ClaimInv, TypeInv, TypeOK, GrantTypeOK
      <2>2. a \in revoked /\ (a \in execReceipt \cap witness \/ Closed(workerSession[a]))
            BY DEF OverInv
      <2> QED BY <1>1, <1>2, <2>1, <2>2 DEF Closed
<1>4. ASSUME NEW a \in Attempts, state[a] = "quarantined", storageOf[a] \in quarantined'
      PROVE  a \in stopped' /\ storageOf'[a] \in quarantined'
      BY <1>1, <1>4 DEF OverInv, ClaimInv
<1>5. ASSUME UNCHANGED complete, quarantined \subseteq quarantined',
             \A a \in Attempts : state'[a] = "quarantined" => state[a] = "quarantined" \/ ReceiveFailure(a)
      PROVE  OverInv'
      <2>1. ASSUME NEW a \in Attempts, state'[a] = "quarantined", ReceiveFailure(a)
            PROVE  a \in stopped' /\ storageOf'[a] \in quarantined'
            <3>1. workerSession[a] # None /\ state[a] # "closed" /\ QuarantineTurn(a, workerSession[a])
                  BY <2>1 DEF ReceiveFailure, RecordFailure, QuarantineTurn, LeaveUnexecuted,
                     TypeInv, TypeOK, GrantTypeOK
            <3>2. active[workerSession[a]] = a /\ a # None
                  BY <3>1, Identities DEF LeaseInv, TurnOwnership
            <3> QED BY <1>1, <3>1, <3>2 DEF QuarantineTurn, RevokeTurn
      <2>2. \A a \in Attempts : state[a] = "quarantined" => storageOf[a] \in quarantined
            BY DEF OverInv
      <2> QED BY <1>3, <1>4, <1>5, <2>1, <2>2 DEF OverInv
<1>6. ASSUME NEW a \in Attempts, NEW keep \in BOOLEAN, CompleteTurn(a, keep) PROVE OverInv'
      <2>1. /\ rootActive[storageOf[a]] = a /\ a \in execReceipt /\ a \in witness
            /\ complete' = complete \cup {a} /\ revoked' = revoked \cup {a}
            /\ state' = [state EXCEPT ![a] = "closed"] /\ quarantined' = quarantined \ {storageOf[a]}
            BY <1>6 DEF CompleteTurn, SettleTurn, EndTurn, KeepRoot
      <2>2. ASSUME NEW b \in Attempts, state'[b] = "quarantined"
            PROVE  state[b] = "quarantined" /\ storageOf[b] \in quarantined'
            <3>1. b # a /\ state[b] = "quarantined"
                  BY <2>1, <2>2 DEF TypeInv, TypeOK, GrantTypeOK
            <3> QED BY <2>1, <3>1, QuarantinedTurn DEF OverInv
      <2> QED BY <1>1, <1>3, <1>4, <2>1, <2>2 DEF OverInv
<1>7. ASSUME NEW a \in Attempts, RecoverClosedCheckpoint(a) PROVE OverInv'
      <2>1. /\ rootActive[storageOf[a]] = None /\ quarantined' = quarantined \ {storageOf[a]}
            /\ UNCHANGED <<complete, state>>
            BY <1>7 DEF RecoverClosedCheckpoint
      <2>2. \A b \in Attempts : state[b] = "quarantined" => storageOf[b] \in quarantined'
            BY <2>1, QuarantinedTurn, Identities DEF OverInv
      <2> QED BY <1>3, <1>4, <2>1, <2>2 DEF OverInv
<1>8. ASSUME NEW s \in Attempts, CloseSession(s) PROVE OverInv'
      <2>1. /\ writer[storageOf[s]] = s /\ quarantined' = quarantined \ {storageOf[s]}
            /\ state' = [b \in Attempts |-> IF b \in {active[s]} \ {None} THEN "closed" ELSE state[b]]
            /\ complete' = complete \cup ({active[s]} \ {None})
            /\ revoked' = revoked \cup ({active[s]} \ {None})
            /\ Closed(s)'
            BY <1>8 DEF CloseSession, Closed, TypeInv, TypeOK, SessionTypeOK
      <2>2. ASSUME NEW b \in Attempts, state'[b] = "quarantined"
            PROVE  state[b] = "quarantined" /\ storageOf[b] \in quarantined'
            <3>1. ~ (b = active[s] /\ b # None) /\ state[b] = "quarantined"
                  BY <2>1, <2>2
            <3> QED BY <2>1, <3>1, QuarantinedTurn, Identities DEF OverInv
      <2>3. ASSUME NEW a \in complete', a \notin complete
            PROVE  a \in revoked' /\ Closed(workerSession[a])'
            <3>1. a = active[s] /\ a # None /\ workerSession[a] = s /\ a \in Attempts
                  BY <2>1, <2>3 DEF LeaseInv, TurnOwnership, TypeInv, TypeOK, SessionTypeOK
            <3>2. workerSession'[a] = s
                  BY <1>1, <3>1, Identities
            <3> QED BY <2>1, <3>1, <3>2 DEF Closed
      <2> QED BY <1>3, <1>4, <2>2, <2>3 DEF OverInv
<1> QED BY <1>5, <1>6, <1>7, <1>8, SettledOnce
-----------------------------------------------------------------------------
(* Checkpoints.                                                            *)

\* What a checkpoint's basis says of its turn lasts.
LEMMA BasisKept ==
    ASSUME TypeInv, LeaseInv, PodInv, OutcomeInv, StopInv, StopInv', Advance, [Next]_vars,
           complete \subseteq complete', NEW a \in Attempts, NEW t \in Tasks, CheckpointBasis(a, t)
    PROVE  CheckpointBasis(a, t)'
<1>1. PICK s \in Attempts : s = workerSession[a] /\ Closed(s)
      BY DEF CheckpointBasis, TypeInv, TypeOK, GrantTypeOK
<1>2. /\ workerSession'[a] = s /\ storageOf'[a] = t /\ Closed(s)'
      /\ a \in complete' \cap witness' \cap eligible'
      BY <1>1, ClosedStays, Identities DEF CheckpointBasis, Advance, GrantsAdvance
<1>3. CheckpointOutcome(a)'
      <2>1. a \in witness /\ source[a] # "none"
            BY DEF CheckpointBasis, OutcomeInv, OutboxShape
      <2>2. kind'[a] = kind[a]
            BY <2>1, OutcomeNext DEF OutcomeStep
      <2> QED BY <2>2 DEF CheckpointBasis, CheckpointOutcome
<1>4. s \in sessionStop' /\ evidence[s] # "none" /\ evidence'[s] = evidence[s]
      BY <1>1 DEF LeaseInv, StopAgreement, Closed, SessionExists, PodInv, Advance, SessionsAdvance
<1>5. stopReceipt[s] # "none" => stopReceipt'[s] = stopReceipt[s]
      BY DEF Advance, SessionsAdvance
<1>6. evidence[s] \in {"no-worker", "never-started"} => stopReceipt'[s] = "none"
      <2>1. evidence'[s] \in {"no-worker", "never-started"} => s \notin supervisorKey'
            BY <1>4 DEF StopInv, StopRecordValid, EvidenceHolds, ValidSessionStopEvidence
      <2> QED BY <1>4, <2>1 DEF StopInv
<1> QED BY <1>1, <1>2, <1>3, <1>4, <1>5, <1>6, Identities DEF CheckpointBasis

\* There is no checkpoint at first.
LEMMA CheckpointInit == Init => CheckpointInv
BY DEF Init, CheckpointInv

\* Every step keeps the basis of the checkpoints it keeps, and writes a
\* checkpoint only with one.
LEMMA CheckpointStep ==
    ASSUME TypeInv, TypeInv', LeaseInv, PodInv, RootInv, OutcomeInv, ClaimInv, HeadInv, StopInv, StopInv',
           CheckpointInv, Advance, [Next]_vars
    PROVE  CheckpointInv'
<1>1. ASSUME complete \subseteq complete', NEW t \in Tasks, checkpoint'[t] # None, checkpoint'[t] = checkpoint[t]
      PROVE  CheckpointBasis(checkpoint[t], t)'
      <2>1. PICK a \in Attempts : a = checkpoint[t]
            BY <1>1 DEF TypeInv, TypeOK, StorageTypeOK
      <2>2. CheckpointBasis(a, t)
            BY <1>1, <2>1 DEF CheckpointInv
      <2>3. CheckpointBasis(a, t)'
            BY <1>1, <2>2, BasisKept
      <2> QED BY <1>1, <2>1, <2>3 DEF CheckpointBasis
<1>2. ASSUME complete \subseteq complete', NEW u, NEW b \in Attempts \cup {None},
             checkpoint' = [checkpoint EXCEPT ![u] = b],
             u \in Tasks /\ b # None /\ b # checkpoint[u] => CheckpointBasis(b, u)'
      PROVE  CheckpointInv'
      <2> SUFFICES ASSUME NEW t \in Tasks, checkpoint'[t] # None PROVE CheckpointBasis(checkpoint[t], t)'
          BY DEF CheckpointInv
      <2>1. CASE checkpoint'[t] = checkpoint[t]
            BY <1>1, <1>2, <2>1
      <2>2. CASE checkpoint'[t] # checkpoint[t]
            <3>1. t = u /\ checkpoint'[t] = b /\ b # None
                  BY <1>2, <2>2 DEF TypeInv, TypeOK, StorageTypeOK
            <3>2. CheckpointBasis(b, t)'
                  BY <1>2, <2>2, <3>1
            <3> QED BY <3>1, <3>2 DEF CheckpointBasis
      <2> QED BY <2>1, <2>2
<1>3. ASSUME UNCHANGED <<complete, checkpoint>> PROVE CheckpointInv'
      BY <1>1, <1>3 DEF CheckpointInv
<1>4. ASSUME NEW a \in Attempts, NEW keep \in BOOLEAN, CompleteTurn(a, keep) PROVE CheckpointInv'
      <2>1. checkpoint' = [checkpoint EXCEPT ![storageOf[a]] = None] /\ complete \subseteq complete'
            BY <1>4 DEF CompleteTurn, SettleTurn, EndTurn, KeepRoot
      <2> QED BY <1>2, <2>1
<1>5. ASSUME NEW a \in Attempts, RecoverClosedCheckpoint(a) PROVE CheckpointInv'
      <2>1. /\ checkpoint' = [checkpoint EXCEPT ![storageOf[a]] = a] /\ complete' = complete
            /\ CheckpointBasis(a, storageOf[a])
            BY <1>5 DEF RecoverClosedCheckpoint, CheckpointProven, SessionStoppedClean, CheckpointBasis, Closed
      <2>2. ASSUME NEW t \in Tasks, t = storageOf[a] PROVE CheckpointBasis(a, t)'
            BY <2>1, <2>2, BasisKept
      <2> QED BY <1>2, <2>1, <2>2
<1>6. ASSUME NEW s \in Attempts, CloseSession(s) PROVE CheckpointInv'
      <2>1. PICK t \in Tasks : t = storageOf[s] /\ writer[t] = s
            <3>1. SessionExists(s) /\ ~ Closed(s)
                  BY <1>6 DEF CloseSession, Closed, TypeInv, Bindings
            <3> QED BY <1>6, <3>1 DEF LeaseInv, LeaseAgreement, TypeInv, TypeOK, GrantTypeOK, CloseSession
      <2>2. PICK a \in Attempts : a = latest[t] /\ workerSession[a] = s /\ storageOf[a] = t
            BY <2>1, Identities DEF RootInv, TypeInv, TypeOK, StorageTypeOK
      <2>3. PICK b \in Attempts \cup {None} :
               /\ checkpoint' = [checkpoint EXCEPT ![t] = b]
               /\ b = None \/ b = checkpoint[t] \/ (b = a /\ CheckpointProven(a, t, s))
            <3>1. checkpoint[t] \in Attempts \cup {None}
                  BY DEF TypeInv, TypeOK, StorageTypeOK
            <3> QED BY <1>6, <2>1, <2>2, <3>1 DEF CloseSession
      <2>4. /\ complete' = complete \cup ({active[s]} \ {None}) /\ Closed(s)'
            /\ UNCHANGED <<witness, eligible, kind, storageOf, workerSession, stopReceipt, evidence>>
            BY <1>6 DEF CloseSession, Closed, TypeInv, TypeOK, SessionTypeOK
      <2>5. a \in complete'
            <3>1. CASE active[s] # None
                  BY <2>1, <2>2, <2>4, <3>1 DEF HeadInv
            <3>2. CASE active[s] = None
                  BY <2>2, <2>4, <3>2, Identities DEF LeaseInv, TurnOwnership, ClaimInv
            <3> QED BY <3>1, <3>2
      <2>6. CheckpointProven(a, t, s) => CheckpointBasis(a, t)'
            BY <2>2, <2>4, <2>5, Identities DEF CheckpointProven, CheckpointBasis, CheckpointOutcome, SessionStoppedClean
      <2> QED BY <1>2, <2>3, <2>4, <2>6
<1> QED BY <1>3, <1>4, <1>5, <1>6, SettledOnce
-----------------------------------------------------------------------------
(* The invariant.                                                          *)

\* The invariants proved before, on which validity rests.
Ground == TypeInv /\ LeaseInv /\ WriterInv /\ DurableInv /\ OutcomeInv /\ AcceptInv /\ CheckInv

\* They hold together.
LEMMA GroundInvariant == Spec => []Ground
BY TypeInvariant, LeaseInvariant, WriterInvariant, DurableInvariant, OutcomeInvariant,
   AcceptInvariant, CheckInvariant, PTL DEF Ground

\* What the records of the registry say of each other holds in every order
\* of claims, turns, results, failures, stops, releases and restarts
\* (ReserveTurn, CompleteTurn, ReceiveFailure, CloseSession, Store.Open).
THEOREM ValidityInvariant == Spec => []ValidityInv
<1>1. Init => ValidityInv
      BY ClaimInit, ConversationInit, HeadInit, ProgressInit, TerminalInit, StopInit, OverInit,
         CheckpointInit DEF ValidityInv
<1>2. ASSUME Ground, Ground', ValidityInv, [Next]_vars PROVE ValidityInv'
      <2> USE DEF Ground, WriterInv, DurableInv, ValidityInv
      <2>1. Advance
            BY <1>2, AdvanceStep
      <2>2. ClaimInv' /\ ConversationInv' /\ HeadInv'
            BY <1>2, ClaimStep, ConversationStep, HeadStep
      <2>3. ProgressInv'
            BY <1>2, <2>1, ProgressStep
      <2>4. TerminalInv' /\ OverInv'
            BY <1>2, <2>1, TerminalStep, OverStep
      <2>5. StopInv'
            BY <1>2, <2>1, <2>3, StopRecordStep
      <2>6. CheckpointInv'
            BY <1>2, <2>1, <2>5, CheckpointStep
      <2> QED BY <2>2, <2>3, <2>4, <2>5, <2>6
<1> QED BY <1>1, <1>2, GroundInvariant, PTL DEF Spec

-----------------------------------------------------------------------------
(* Idle sessions.                                                          *)

\* What the invariants say of an idle session.
LEMMA IdleWarm ==
    ASSUME Ground, ValidityInv, NEW s \in Attempts, sessionState[s] = "idle",
           lastComplete[s] \in eligible
    PROVE  WarmSession(storageOf[s])
<1> USE DEF Ground, WriterInv, DurableInv, ValidityInv
<1>1. PICK t \in Tasks : t = storageOf[s] /\ writer[t] = s /\ rootActive[t] = active[s] /\ t \in dirty
      BY DEF LeaseInv, LeaseAgreement, SessionExists, Closed, TypeInv, TypeOK, GrantTypeOK
<1>2. PICK g \in Attempts : /\ g = lastComplete[s] /\ workerSession[g] = s /\ latest[t] = g
                            /\ g \in complete \cap execReceipt \cap witness
                            /\ t \notin quarantined /\ active[s] = None
      BY <1>1 DEF HeadInv, TypeInv, TypeOK, SessionTypeOK
<1>3. s \notin sessionStop /\ storageOf[g] = t
      BY <1>1, <1>2, Identities DEF LeaseInv, StopAgreement, SessionExists, RootInv
<1>4. s \in supervisorKey /\ s \in podBound /\ t \in rootPrepared
      <2>1. s \in supervisorKey
            BY <1>2 DEF ReceiptInv
      <2>2. s \in podRequested /\ s \in podBound
            BY <2>1 DEF ProgressInv, PodInv, TypeInv, TypeOK, SessionTypeOK
      <2> QED BY <1>1, <2>1, <2>2 DEF ProgressInv
<1>5. checkpoint[t] = None
      BY <1>1, <1>2, Identities DEF CheckInv
<1>6. /\ currentSession[ConversationOf[t]] = s /\ currentStorage[ConversationOf[t]] = t
      <2>1. workerSession[s] = s /\ s \in Residents
            BY DEF TypeInv, Bindings, SessionExists, Residents, Resident
      <2>2. ConversationOf[t] = ConversationOf[TaskOf[s]] /\ currentSession[ConversationOf[TaskOf[s]]] = s
            BY <1>1, <2>1, Identities DEF ConversationInv
      <2>3. ConversationOf[TaskOf[s]] \in Conversations
            BY Identities
      <2> QED BY <1>1, <2>2, <2>3, Identities DEF ConversationInv, ConversationValid
<1>7. /\ delivery[g] = "delivered" /\ recovery[g] = "none" /\ CheckpointOutcome(g)
      /\ CheckoutFenced(g) /\ prep[g] \in {"stopped", "prepared"}
      <2>1. delivery[g] = "delivered" /\ CheckoutFenced(g) /\ prep[g] \in {"stopped", "prepared"}
            BY <1>2 DEF TerminalInv
      <2>2. source[g] = "worker" /\ recovery[g] = "none"
            BY <1>2 DEF OutcomeInv, OutboxShape
      <2>3. CheckpointOutcome(g)
            BY <2>2 DEF TerminalInv, CheckpointOutcome, TypeInv, TypeOK, OutboxTypeOK
      <2> QED BY <2>1, <2>2, <2>3
<1>8. AttemptSettled(g)
      BY <1>2, <1>7, Identities DEF AttemptSettled, DeliverySettled
<1>9. g # None /\ s # None /\ g \in eligible
      BY <1>2, Identities
<1> QED BY <1>1, <1>2, <1>3, <1>4, <1>5, <1>6, <1>7, <1>8, <1>9 DEF WarmSession

\* An idle session is usable in every behaviour: the proof that
\* warmStorageSession asks for holds, and no later turn of the conversation
\* finds a session that keeps its slot and root but cannot be continued.
THEOREM IdleSafe == Spec => []IdleIsWarm
<1>1. Ground /\ ValidityInv => IdleIsWarm
      BY IdleWarm DEF IdleIsWarm
<1> QED BY <1>1, GroundInvariant, ValidityInvariant, PTL

-----------------------------------------------------------------------------
(* What Store.write checks.                                                *)

\* Sessions that are not closed hold their root, and run the turns of their
\* grants that are not closed.
LEMMA OpenTurn ==
    ASSUME Ground, ValidityInv, NEW a \in Attempts, workerSession[a] # None, a \notin complete
    PROVE  /\ active[workerSession[a]] = a /\ sessionState[workerSession[a]] \notin {"unknown", "closed"}
           /\ rootActive[storageOf[a]] = a /\ writer[storageOf[a]] = workerSession[a]
<1> USE DEF Ground, WriterInv, ValidityInv
<1>1. PICK s \in Attempts : s = workerSession[a] /\ storageOf[s] = storageOf[a]
      BY DEF RootInv, TypeInv, TypeOK, GrantTypeOK
<1>2. active[s] = a /\ SessionExists(s) /\ ~ Closed(s)
      BY <1>1, Identities DEF ClaimInv, LeaseInv, TurnOwnership
<1> QED BY <1>1, <1>2 DEF LeaseInv, LeaseAgreement, SessionExists, Closed

\* Grants and their authority.
LEMMA AuthorityValid ==
    ASSUME Ground, ValidityInv, NEW a \in Attempts
    PROVE  GrantAuthorityValid(a)
<1> USE DEF Ground, WriterInv, ValidityInv
<1>1. a \in cleaned => state[a] = "closed"
      BY DEF ClaimInv
<1>2. a \in startConfirmed =>
         /\ workerSession[a] \in podBound /\ workerSession[a] \in supervisorKey
         /\ state[a] \notin {"intent", "assigned", "ready", "offered", "starting"}
      BY DEF ProgressInv
<1>3. checkoutBy[a] # 0 => a \in needsFlush /\ state[a] # "closed"
      BY Identities DEF HelperInv, Owned, HeadInv, ClaimInv, ProgressInv, TypeInv, TypeOK, GrantTypeOK
<1>4. a \in needsFlush => prep[a] = "prepared"
      BY DEF ProgressInv
<1>5. a \in stopped => a \in revoked
      BY DEF LeaseInv, TurnOwnership
<1>6. ASSUME StopEvidence(a) # "none" PROVE checkoutBy[a] = 0 /\ PreparationSettled(a)
      <2>1. PICK s \in Attempts : s = workerSession[a] /\ stopActive[s] = a /\ evidence[s] # "none"
            BY <1>6 DEF StopEvidence, TypeInv, TypeOK, GrantTypeOK
      <2>2. s \in sessionStop /\ EvidenceHolds(s)
            BY <2>1 DEF PodInv, StopInv, StopRecordValid
      <2>3. StopTurn(s) = a /\ a # None
            BY <2>1, <2>2, Identities DEF StopTurn, LeaseInv, StopAgreement, TypeInv, Bindings
      <2> QED BY <2>2, <2>3 DEF EvidenceHolds, ValidSessionStopEvidence
<1> QED BY <1>1, <1>2, <1>3, <1>4, <1>5, <1>6 DEF GrantAuthorityValid

\* A grant, its session and its root.
LEMMA GrantsValid ==
    ASSUME Ground, ValidityInv, NEW a \in Attempts, Exists(a)
    PROVE  GrantValid(a)
<1> USE DEF Ground, WriterInv, DurableInv, ValidityInv
<1>1. CASE workerSession[a] = None
      <2>1. a \notin execReceipt \cup witness
            BY <1>1, Identities DEF ReceiptInv, TypeInv, TypeOK, SessionTypeOK
      <2>2. PendingGrantValid(a)
            BY <1>1, <2>1 DEF PendingGrantValid, ClaimInv, Exists
      <2> QED BY <1>1, <2>2, AuthorityValid DEF GrantValid
<1>2. CASE workerSession[a] # None
      <2>1. PICK s \in Attempts, t \in Tasks : s = workerSession[a] /\ t = storageOf[a] /\ SessionExists(s)
            BY <1>2 DEF TypeInv, Bindings, TypeOK, GrantTypeOK
      <2>2. /\ t # None /\ latest[t] # None /\ storageOf[s] = t
            /\ ConversationOf[TaskOf[a]] = ConversationOf[t]
            /\ selection[a] # None /\ a \notin cleaned
            BY <1>2, <2>1, Identities DEF HeadInv, RootInv, ConversationInv, ClaimInv
      <2>3. /\ a \in execReceipt =>
                  source[a] = "worker" /\ CheckoutFenced(a) /\ prep[a] \in {"stopped", "prepared"}
            /\ a \in witness => delivery[a] = "delivered" /\ a \in resultReceipt
            BY DEF TerminalInv, OutcomeInv, OutboxShape
      <2>4. a \in complete => /\ state[a] = "closed" /\ a \in revoked
                              /\ \/ a \in execReceipt /\ a \in witness
                                 \/ sessionState[s] = "closed" /\ evidence[s] # "none"
            BY <1>2, <2>1 DEF ClaimInv, OverInv, PodInv, Closed
      <2>5. a \notin complete => active[s] = a /\ rootActive[t] = a /\ writer[t] = s
            BY <1>2, <2>1, OpenTurn
      <2>6. TurnStateValid(a, s, t)
            <3>1. state[a] \in {"assigned", "ready", "offered", "starting", "started", "terminal_received"} =>
                     /\ s \in podBound /\ s \in supervisorKey /\ prep[a] = "prepared"
                     /\ state[a] = "terminal_received" => source[a] # "none"
                  BY <2>1 DEF ProgressInv, TerminalInv
            <3>2. state[a] = "quarantined" =>
                     t \in quarantined /\ sessionState[s] \in {"quarantined", "draining"}
                  <4> SUFFICES ASSUME state[a] = "quarantined"
                               PROVE  t \in quarantined /\ sessionState[s] \in {"quarantined", "draining"}
                      OBVIOUS
                  <4>1. a \notin complete /\ a \in stopped /\ t \in quarantined
                        BY <1>2, <2>1 DEF ClaimInv, OverInv
                  <4>2. active[s] = a /\ sessionState[s] # "closed"
                        BY <1>2, <2>1, <4>1, OpenTurn
                  <4> QED BY <2>1, <4>1, <4>2 DEF LeaseInv, StopAgreement
            <3>3. state[a] = "closed" => a \in complete
                  BY <1>2 DEF ClaimInv
            <3>4. state[a] \in {"intent", "assigned", "ready", "offered", "starting", "started",
                                "terminal_received", "quarantined", "closed"}
                  BY <1>2 DEF ClaimInv, TypeInv, Bindings, TypeOK, GrantTypeOK, GrantStates
            <3> QED BY <3>1, <3>2, <3>3, <3>4 DEF TurnStateValid
      <2>7. SessionGrantValid(a, s, t)
            BY <2>1, <2>2, <2>3, <2>4, <2>5, <2>6 DEF SessionGrantValid
      <2> QED BY <1>2, <2>1, <2>7, AuthorityValid DEF GrantValid
<1> QED BY <1>1, <1>2

\* Outbox records.
LEMMA TerminalsValid ==
    ASSUME Ground, ValidityInv, NEW a \in Attempts, source[a] # "none"
    PROVE  TerminalValid(a)
<1> USE DEF Ground, WriterInv, DurableInv, ValidityInv
<1>1. state[a] \in {"terminal_received", "quarantined", "unexecuted", "closed"}
      BY DEF TerminalInv
<1>2. recovery[a] # "none" =>
         /\ source[a] = "worker" /\ delivery[a] = "received" /\ a \notin resultReceipt
         /\ a \in stopped /\ StopEvidence(a) = "terminated" /\ a \in checkoutClosed
      BY DEF TerminalInv, OutcomeInv, OutboxShape
<1>3. source[a] = "worker" =>
         /\ workerSession[a] \in podBound /\ workerSession[a] \in supervisorKey
         /\ delivery[a] # "received" => a \in resultReceipt
      BY DEF ReceiptInv, ProgressInv, OutcomeInv, OutboxShape
<1>4. source[a] = "controller" =>
         /\ kind[a] = "fail" /\ a \notin resultReceipt /\ state[a] # "terminal_received"
         /\ state[a] = "closed" /\ workerSession[a] # None => a \in stopped /\ StopEvidence(a) # "none"
      BY DEF AcceptInv, TerminalInv, OutcomeInv, OutboxShape
<1>5. a \in resultReceipt => AuthenticResult(a)
      BY DEF TerminalInv
<1> QED BY <1>1, <1>2, <1>3, <1>4, <1>5 DEF TerminalValid

\* Roots.
LEMMA StoragesValid ==
    ASSUME Ground, ValidityInv, NEW t \in Tasks, latest[t] # None
    PROVE  StorageValid(t)
<1> USE DEF Ground, WriterInv, DurableInv, ValidityInv
<1>1. storageOf[latest[t]] = t /\ ConversationOf[TaskOf[latest[t]]] = ConversationOf[t]
      BY DEF RootInv, ConversationInv, TypeInv, TypeOK, StorageTypeOK
<1>2. IF writer[t] # None
      THEN /\ storageOf[writer[t]] = t /\ SessionExists(writer[t])
           /\ sessionState[writer[t]] # "closed" /\ active[writer[t]] = rootActive[t]
      ELSE rootActive[t] = None
      BY DEF LeaseInv, LeaseAgreement, Closed, TypeInv, TypeOK, StorageTypeOK
<1>3. ASSUME checkpoint[t] # None PROVE CheckpointValid(t)
      <2>1. PICK a \in Attempts : a = checkpoint[t] /\ CheckpointBasis(a, t)
            BY <1>3 DEF CheckpointInv, TypeInv, TypeOK, StorageTypeOK
      <2>2. PICK s \in Attempts : s = workerSession[a] /\ Closed(s)
            BY <2>1 DEF CheckpointBasis, TypeInv, TypeOK, GrantTypeOK
      <2>3. s \in sessionStop /\ evidence[s] # "none" /\ active[s] = None
            BY <2>2 DEF LeaseInv, StopAgreement, TurnOwnership, Closed, SessionExists, PodInv
      <2>4. EvidenceHolds(s) /\ SessionStoppedClean(s)
            BY <2>1, <2>2, <2>3 DEF StopInv, StopRecordValid, CheckpointBasis, SessionStoppedClean
      <2>5. rootActive[t] = None /\ t \notin dirty => a = latest[t]
            BY <1>3, <2>1 DEF CheckInv
      <2> QED BY <2>1, <2>2, <2>4, <2>5, Identities DEF CheckpointBasis, CheckpointValid, Closed
<1> QED BY <1>1, <1>2, <1>3 DEF StorageValid

\* Sessions.
LEMMA SessionsValid ==
    ASSUME Ground, ValidityInv, NEW s \in Attempts, SessionExists(s)
    PROVE  SessionValid(s)
<1> USE DEF Ground, WriterInv, DurableInv, ValidityInv
<1>1. PICK t \in Tasks : t = storageOf[s] /\ workerSession[s] = s
      BY Identities DEF TypeInv, Bindings, TypeOK, GrantTypeOK
<1>2. t # None /\ latest[t] # None /\ ConversationOf[t] = ConversationOf[TaskOf[s]]
      BY <1>1, Identities DEF HeadInv, ConversationInv
<1>3. ~ Closed(s) => writer[t] = s /\ rootActive[t] = active[s] /\ t \in dirty
      BY <1>1 DEF LeaseInv, LeaseAgreement
<1>4. active[s] # None => /\ workerSession[active[s]] = s /\ active[s] \notin complete
                          /\ rootActive[t] = active[s]
      BY <1>3 DEF LeaseInv, TurnOwnership, HeadInv
<1>5. lastComplete[s] # None => /\ workerSession[lastComplete[s]] = s
                                /\ lastComplete[s] \in complete \cap execReceipt \cap witness
      BY DEF HeadInv
<1>6. SessionStateValid(s, t)
      <2>1. sessionState[s] \in {"creating", "reserved", "running", "finishing"} =>
               active[s] # None /\ s \notin sessionStop
            BY DEF HeadInv, LeaseInv, StopAgreement
      <2>2. sessionState[s] = "idle" =>
               /\ active[s] = None /\ s \notin sessionStop /\ lastComplete[s] # None
               /\ t \in dirty /\ t \notin quarantined /\ checkpoint[t] = None
            BY <1>1, <1>3, Identities DEF HeadInv, LeaseInv, StopAgreement, CheckInv, Closed
      <2>3. sessionState[s] \in {"draining", "quarantined", "closed"} => s \in sessionStop
            BY DEF LeaseInv, StopAgreement
      <2>4. sessionState[s] = "closed" => active[s] = None /\ evidence[s] # "none" /\ writer[t] # s
            BY Identities DEF LeaseInv, TurnOwnership, LeaseAgreement, PodInv, Closed
      <2>5. sessionState[s] \in {"creating", "reserved", "running", "finishing", "idle", "draining",
                                 "quarantined", "closed"}
            BY DEF TypeInv, TypeOK, SessionTypeOK, SessionStates, SessionExists
      <2> QED BY <2>1, <2>2, <2>3, <2>4, <2>5 DEF SessionStateValid
<1>7. s \in supervisorKey => s \in podBound
      BY DEF ProgressInv
<1>8. /\ s \in resourcesCleaned => sessionState[s] = "closed"
      /\ sessionState[s] # "closed" => writer[t] = s
      /\ s \in sessionStop => StopRecordValid(s)
      BY <1>3 DEF StopInv, Closed
<1>9. \A r \in Residents :
         s \in Residents /\ ConversationOf[TaskOf[r]] = ConversationOf[TaskOf[s]] => r = s
      BY DEF ConversationInv
<1> QED BY <1>1, <1>2, <1>4, <1>5, <1>6, <1>7, <1>8, <1>9 DEF SessionValid

\* No transaction of the controller is refused for the registry it would
\* leave (Store.write, validate.go, session_validate.go), and every journal a
\* controller wrote can be opened by the next one (Open): in every order of
\* transactions, restarts and events, the records agree with one another.
THEOREM RegistrySafe == Spec => []RegistryValid
<1>1. ASSUME Ground, ValidityInv PROVE RegistryValid
      <2>1. \A c \in Conversations : ConversationValid(c)
            BY <1>1 DEF ValidityInv, ConversationInv
      <2> QED BY <1>1, <2>1, GrantsValid, TerminalsValid, StoragesValid, SessionsValid DEF RegistryValid
<1> QED BY <1>1, GroundInvariant, ValidityInvariant, PTL
=============================================================================
