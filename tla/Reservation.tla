---------------------------- MODULE Reservation ----------------------------
(***************************************************************************)
(* From a claimed task to a reserved turn (grant.go, turn_inputs.go,       *)
(* session_reservation.go, resident.go): queueing the claim, freezing the  *)
(* root it continues, and the transaction that takes the root's writer     *)
(* lease, creates or reuses the worker session, or drains a session that   *)
(* stands in the way.                                                      *)
(***************************************************************************)
EXTENDS Journal

\* QueueClaim: the claim becomes durable; a task has one attempt that is
\* not closed.
QueueClaim(a) ==
    /\ state[a] = "unknown"
    /\ \A b \in Attempts : TaskOf[b] = TaskOf[a] => state[b] \in {"unknown", "closed"}
    /\ state' = [state EXCEPT ![a] = "waiting_storage"]
    /\ UNCHANGED <<claimVars, revoked, stopped, complete, cleaned, writerVars,
                   turnVars, outboxVars, sessionVars, podVars, stopVars,
                   storageVars, conversationVars, worldVars>>

\* selectWorkspace: a root may be selected when its writer is settled and it
\* is held by its warm owner, or released with a checkpoint of its latest
\* writer.
SelectableRoot(t) ==
    /\ latest[t] # None /\ rootActive[t] = None /\ t \notin quarantined
    /\ t \in rootPrepared
    /\ IF writer[t] # None THEN WarmSession(t)
       ELSE t \notin dirty /\ checkpoint[t] # None /\ checkpoint[t] = latest[t]

\* RecordSelection freezes the choice, and the writer fence of the root.
\* Whether the claim may reuse files at all (reuse) is the backend's word.
RecordSelection(a, choice, reuse) ==
    /\ state[a] = "waiting_storage" /\ a \notin revoked /\ selection[a] = None
    /\ choice # Fresh =>
          /\ reuse /\ ConversationOf[choice] = ConversationOf[TaskOf[a]]
          /\ SelectableRoot(choice)
    /\ selection' = [selection EXCEPT ![a] = choice]
    /\ fence' = [fence EXCEPT ![a] = IF choice = Fresh THEN None ELSE latest[choice]]
    /\ eligible' = IF reuse THEN eligible \cup {a} ELSE eligible
    /\ UNCHANGED <<workerSession, storageOf, authorityVars, writerVars, turnVars,
                   outboxVars, sessionVars, podVars, stopVars, storageVars,
                   conversationVars, worldVars>>

-----------------------------------------------------------------------------
(* ReserveTurn.  Its checks in the order of the code: the claim, the       *)
(* pending budget, other attempts of the task, the selected root, the      *)
(* conversation's current session, a root to write, a resident slot.       *)

\* The claim may be reserved at all.
Reservable(a) ==
    /\ state[a] = "waiting_storage" /\ a \notin revoked
    /\ workerSession[a] = None /\ selection[a] # None
    /\ PendingBudget
    /\ \A b \in Attempts \ {a} :
          TaskOf[b] = TaskOf[a] /\ state[b] # "unknown" => AttemptSettled(b)

\* selectedWarmStorage
SelectedWarm(a) ==
    LET t == selection[a] IN
    /\ t \in Tasks /\ writer[t] # None
    /\ a \in eligible /\ rootActive[t] = None /\ latest[t] = fence[a]
    /\ WarmSession(t) /\ SelectedWitness(latest[t], t)

\* selectedStorage
SelectedCold(a) ==
    LET t == selection[a]
        predecessor == workerSession[checkpoint[t]]
    IN  /\ t \in Tasks /\ writer[t] = None
        /\ a \in eligible /\ t \in rootPrepared
        /\ rootActive[t] = None /\ t \notin quarantined /\ t \notin dirty
        /\ checkpoint[t] # None /\ checkpoint[t] = fence[a] /\ latest[t] = fence[a]
        /\ predecessor # None /\ sessionState[predecessor] = "closed"
        /\ SessionStoppedClean(predecessor) /\ EvidenceHolds(predecessor)
        /\ SelectedWitness(latest[t], t)

\* Mutant: a closed session is taken to have left the cluster.
ConversationFreeWhenClosed(c) ==
    currentSession[c] # None => sessionState[currentSession[c]] = "closed"

\* The conversation has no session, or the last one left the cluster.
ConversationFree(c) == currentSession[c] # None => ~ Resident(currentSession[c])

\* unusedTaskStorage: a new root, or the task's own root if every owner of
\* it proves that neither preparation nor a worker ever ran.
UnusedTaskStorage(t) ==
    \/ /\ latest[t] = None
       /\ Cardinality({u \in Tasks : latest[u] # None}) < MaxTasks
    \/ /\ latest[t] # None
       /\ t \notin rootPrepared /\ checkpoint[t] = None
       /\ rootActive[t] = None /\ writer[t] = None
       /\ t \notin dirty /\ t \notin quarantined
       /\ \A b \in Attempts : storageOf[b] = t =>
             /\ TaskOf[b] = t /\ prep[b] = "none"
             /\ evidence[workerSession[b]] = "no-worker"
             /\ AttemptSettled(b)
             /\ ~ Resident(workerSession[b])

\* A root this claim may start a new session on.
ReservableRoot(a, t) ==
    /\ ConversationFree(ConversationOf[TaskOf[a]])
    /\ \/ selection[a] = t /\ SelectedCold(a)
       \/ selection[a] = Fresh /\ t = TaskOf[a] /\ UnusedTaskStorage(t)
    /\ rootActive[t] = None /\ t \notin quarantined /\ writer[t] = None
    /\ t \notin dirty

\* Mutant: the fence of later selections stays with the previous writer.
TakeRootWithoutFence(a, s, t) ==
    /\ rootActive' = [rootActive EXCEPT ![t] = a]
    /\ writer' = [writer EXCEPT ![t] = s]
    /\ latest' = [latest EXCEPT ![t] = IF @ = None THEN a ELSE @]
    /\ dirty' = dirty \cup {t}

\* The lease: the root names its turn, its session and its latest writer.
TakeRoot(a, s, t) ==
    /\ rootActive' = [rootActive EXCEPT ![t] = a]
    /\ writer' = [writer EXCEPT ![t] = s]
    /\ latest' = [latest EXCEPT ![t] = a]
    /\ dirty' = dirty \cup {t}

\* The writes of a successful reservation, for session s on root t.
Reserve(a, s, t) ==
    /\ workerSession' = [workerSession EXCEPT ![a] = s]
    /\ storageOf' = [storageOf EXCEPT ![a] = t]
    /\ state' = [state EXCEPT ![a] = "intent"]
    /\ active' = [active EXCEPT ![s] = a]
    /\ TakeRoot(a, s, t)
    /\ currentStorage' = [currentStorage EXCEPT ![ConversationOf[TaskOf[a]]] = t]
    /\ currentSession' = [currentSession EXCEPT ![ConversationOf[TaskOf[a]]] = s]
    /\ UNCHANGED <<selection, fence, eligible, revoked, stopped, complete, cleaned,
                   writerVars, turnVars, outboxVars, lastComplete, resourcesCleaned,
                   podVars, stopVars, quarantined, rootPrepared, checkpoint, worldVars>>

\* The idle session of the conversation runs the next turn on its own root.
ReserveWarm(a) ==
    LET t == selection[a]
        s == writer[t]
    IN  /\ Reservable(a) /\ SelectedWarm(a)
        /\ currentSession[ConversationOf[TaskOf[a]]] = s
        /\ sessionState' = [sessionState EXCEPT ![s] = "reserved"]
        /\ Reserve(a, s, t)

\* Mutant: one session too many.
ReserveNewOffByOne(a, t) ==
    /\ Reservable(a) /\ ReservableRoot(a, t)
    /\ Cardinality(Residents) <= ResidentLimit
    /\ sessionState' = [sessionState EXCEPT ![a] = "creating"]
    /\ Reserve(a, a, t)

\* A new session takes the lease of a cold or a new root.
ReserveNew(a, t) ==
    /\ Reservable(a) /\ ReservableRoot(a, t)
    /\ Cardinality(Residents) < ResidentLimit
    /\ sessionState' = [sessionState EXCEPT ![a] = "creating"]
    /\ Reserve(a, a, t)

\* A reservation that only commits the stop of an idle session.
DrainIdle(s) ==
    /\ sessionState[s] = "idle"
    /\ sessionState' = [sessionState EXCEPT ![s] = "draining"]
    /\ RecordStop(s, active[s]) /\ RevokeTurn(active[s])
    /\ UNCHANGED <<claimVars, state, complete, cleaned, writerVars, turnVars,
                   outboxVars, active, lastComplete, resourcesCleaned, podVars,
                   storageVars, conversationVars, worldVars>>

\* The conversation's idle session expired, or it holds another root than
\* the one this claim selected.
DrainCurrent(a) ==
    LET s == currentSession[ConversationOf[TaskOf[a]]] IN
    /\ Reservable(a)
    /\ \/ selection[a] = Fresh \/ SelectedCold(a) \/ SelectedWarm(a)
    /\ s # None /\ DrainIdle(s)

\* admitResident: every slot is taken, and fewer sessions drain than are
\* needed, so one idle session (the oldest) is stopped.
DrainForCapacity(a, s) ==
    /\ Reservable(a)
    /\ \E t \in Tasks : ReservableRoot(a, t)
    /\ Cardinality(Residents) >= ResidentLimit
    /\ Cardinality({r \in Residents : sessionState[r] \in {"draining", "closed"}})
         < Cardinality(Residents) - ResidentLimit + 1
    /\ DrainIdle(s)

\* ExpireSession and DrainIdleSession: the idle deadline passed.
ExpireSession(s) == DrainIdle(s)

ReservationNext ==
    \/ \E a \in Attempts : QueueClaim(a)
    \/ \E a \in Attempts, choice \in Tasks \cup {Fresh}, reuse \in BOOLEAN :
          RecordSelection(a, choice, reuse)
    \/ \E a \in Attempts : ReserveWarm(a)
    \/ \E a \in Attempts, t \in Tasks : ReserveNew(a, t)
    \/ \E a \in Attempts : DrainCurrent(a)
    \/ \E a, s \in Attempts : DrainForCapacity(a, s)
    \/ \E s \in Attempts : ExpireSession(s)
=============================================================================
