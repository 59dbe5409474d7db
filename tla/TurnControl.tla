---------------------------- MODULE TurnControl ----------------------------
(***************************************************************************)
(* A reserved turn up to its start in the backend: preparation of the root *)
(* by a controller-side helper, the session's Pod and supervisor, the      *)
(* assignment the supervisor accepts, the start handler, and the checkouts *)
(* the controller writes into the root while the turn runs (grant.go,      *)
(* session_control.go, checkout.go, session_provision.go, gateway.go).     *)
(***************************************************************************)
EXTENDS Journal

\* A helper of the running controller writes the root: the process is alive
\* and what it writes is not covered by an earlier syncfs.
StartWriter(a) == unsynced' = unsynced \cup {storageOf[a]}

\* Mutant: nobody but the container itself can report that it ended.
ContainerReportsItself(i) == i \in gone /\ i = incarnation

\* Kubernetes proves that the container that started a writer is gone.
ContainerGone(i) == i \in gone

-----------------------------------------------------------------------------
(* Preparation                                                             *)

\* BeginPreparation, then the helper starts (provisionTurn, startPreparation).
BeginPreparation(a) ==
    /\ state[a] = "intent" /\ a \notin revoked /\ prep[a] = "none"
    /\ CurrentSessionTurn(a) /\ workerSession[a] \notin sessionStop
    /\ prep' = [prep EXCEPT ![a] = "running"]
    /\ prepBy' = [prepBy EXCEPT ![a] = incarnation]
    /\ prepWriter' = prepWriter \cup {a}
    /\ StartWriter(a)
    /\ UNCHANGED <<claimVars, authorityVars, checkoutClosed, needsFlush, checkoutBy,
                   turnVars, outboxVars, sessionVars, podVars, stopVars, storageVars,
                   conversationVars, checkoutWriter, clusterVars, backendVars>>

\* CheckpointPreparation: the helper ended and its files are valid; the root
\* counts as prepared even if the controller dies before it completes.
CheckpointPreparation(a) ==
    /\ state[a] = "intent" /\ prep[a] = "running" /\ prepBy[a] = incarnation
    /\ a \notin prepWriter
    /\ storageOf[a] \notin rootPrepared
    /\ rootPrepared' = rootPrepared \cup {storageOf[a]}
    /\ UNCHANGED <<claimVars, authorityVars, writerVars, turnVars, outboxVars,
                   sessionVars, podVars, stopVars, rootActive, writer, latest, dirty,
                   quarantined, checkpoint, conversationVars, worldVars>>

\* CompletePreparation, called by the container that ran the helper after
\* the helper and its writers exited; without a result when it failed.
CompletePreparation(a, prepared) ==
    /\ state[a] \in {"intent", "quarantined"} /\ prep[a] = "running"
    /\ prepBy[a] = incarnation /\ a \notin prepWriter
    /\ prep' = [prep EXCEPT ![a] = IF prepared THEN "prepared" ELSE "stopped"]
    /\ rootPrepared' = IF prepared THEN rootPrepared \cup {storageOf[a]} ELSE rootPrepared
    /\ UNCHANGED <<claimVars, authorityVars, prepBy, checkoutClosed, needsFlush,
                   checkoutBy, turnVars, outboxVars, sessionVars, podVars, stopVars,
                   rootActive, writer, latest, dirty, quarantined, checkpoint,
                   conversationVars, worldVars>>

\* InterruptPreparation: the container that ran the helper is proven gone,
\* so its writers are too; the session stops with the turn.
InterruptPreparation(a) ==
    LET s == workerSession[a] IN
    /\ s # None /\ CurrentSessionTurn(a)
    /\ state[a] \in {"intent", "quarantined"} /\ prep[a] = "running"
    /\ ContainerGone(prepBy[a])
    /\ prep' = [prep EXCEPT ![a] = "stopped"]
    /\ sessionState' = [sessionState EXCEPT ![s] = DrainingState(s)]
    /\ RecordStop(s, active[s]) /\ RevokeTurn(active[s])
    /\ UNCHANGED <<claimVars, state, complete, cleaned, prepBy, checkoutClosed,
                   needsFlush, checkoutBy, turnVars, outboxVars, active, lastComplete,
                   resourcesCleaned, podVars, storageVars, conversationVars, worldVars>>

-----------------------------------------------------------------------------
(* The session's Pod and supervisor                                        *)

\* ensureSessionResources records, before it sends the create request, that
\* a Pod may appear; a stopped session records no new request.
SetSessionResources(s) ==
    LET a == active[s] IN
    /\ a # None /\ state[a] = "intent" /\ a \notin revoked /\ prep[a] = "prepared"
    /\ s \notin sessionStop /\ s \notin podRequested
    /\ podRequested' = podRequested \cup {s}
    /\ UNCHANGED <<claimVars, authorityVars, writerVars, turnVars, outboxVars,
                   sessionVars, podBound, supervisorKey, stopVars, storageVars,
                   conversationVars, worldVars>>

\* BindSessionPod: the create request is resolved, also during a stop.
BindSessionPod(s) ==
    /\ SessionExists(s) /\ sessionState[s] # "closed"
    /\ s \in podRequested /\ pod[s] # "none" /\ s \notin podBound
    /\ active[s] # None => prep[active[s]] = "prepared"
    /\ podBound' = podBound \cup {s}
    /\ UNCHANGED <<claimVars, authorityVars, writerVars, turnVars, outboxVars,
                   sessionVars, podRequested, supervisorKey, stopVars, storageVars,
                   conversationVars, worldVars>>

\* AdmitSession pins the key of the running supervisor.
AdmitSession(s) ==
    /\ s \in podBound /\ pod[s] = "running" /\ sessionState[s] # "closed"
    /\ s \notin supervisorKey
    /\ supervisorKey' = supervisorKey \cup {s}
    /\ UNCHANGED <<claimVars, authorityVars, writerVars, turnVars, outboxVars,
                   sessionVars, podRequested, podBound, stopVars, storageVars,
                   conversationVars, worldVars>>

-----------------------------------------------------------------------------
(* Assignment and start                                                    *)

\* Mutant: a revoked grant goes on.
GrantStepUnfenced(a, from, to) ==
    /\ state[a] = from /\ CurrentSessionTurn(a)
    /\ state' = [state EXCEPT ![a] = to]
    /\ UNCHANGED <<claimVars, revoked, stopped, complete, cleaned, writerVars,
                   outboxVars, podVars, stopVars, storageVars, conversationVars,
                   worldVars>>

\* A step of one grant that keeps everything but its state.
GrantStep(a, from, to) ==
    /\ state[a] = from /\ a \notin revoked /\ CurrentSessionTurn(a)
    /\ state' = [state EXCEPT ![a] = to]
    /\ UNCHANGED <<claimVars, revoked, stopped, complete, cleaned, writerVars,
                   outboxVars, podVars, stopVars, storageVars, conversationVars,
                   worldVars>>

PublishTurn(a) ==
    LET s == workerSession[a] IN
    /\ GrantStep(a, "intent", "assigned")
    /\ s \notin sessionStop /\ prep[a] = "prepared" /\ s \in podBound
    /\ s \in supervisorKey
    /\ sessionState' = [sessionState EXCEPT ![s] = "reserved"]
    /\ UNCHANGED <<active, lastComplete, resourcesCleaned, turnVars>>

\* AcceptTurn: the supervisor polls its assignment and signs it.
AcceptTurn(a) ==
    LET s == workerSession[a] IN
    /\ state[a] = "assigned" /\ a \notin revoked /\ CurrentSessionTurn(a)
    /\ s \notin sessionStop /\ sessionState[s] = "reserved" /\ pod[s] = "running"
    /\ a \notin accepted
    /\ accepted' = accepted \cup {a}
    /\ UNCHANGED <<claimVars, authorityVars, writerVars, startConfirmed, execReceipt,
                   witness, outboxVars, sessionVars, podVars, stopVars, storageVars,
                   conversationVars, worldVars>>

Admit(a) ==
    /\ GrantStep(a, "assigned", "ready")
    /\ workerSession[a] \notin sessionStop /\ a \in accepted
    /\ UNCHANGED <<sessionVars, turnVars>>

Offer(a) ==
    GrantStep(a, "ready", "offered") /\ a \in accepted /\ UNCHANGED <<sessionVars, turnVars>>

BeginStart(a) ==
    GrantStep(a, "offered", "starting") /\ a \in accepted /\ UNCHANGED <<sessionVars, turnVars>>

\* MarkStarted follows the backend's acknowledgement of the start.  A backend
\* change after the acknowledgement commutes with this step.
MarkStarted(a) ==
    /\ GrantStep(a, "starting", "started") /\ a \in accepted
    /\ backend[a] = "running"
    /\ startConfirmed' = startConfirmed \cup {a}
    /\ sessionState' = [sessionState EXCEPT ![workerSession[a]] = "running"]
    /\ UNCHANGED <<active, lastComplete, resourcesCleaned, accepted, execReceipt, witness>>

-----------------------------------------------------------------------------
(* Checkouts                                                               *)

\* BeginCheckout records the container before it touches the root.
BeginCheckout(a) ==
    /\ a \in CheckoutAttempts
    /\ a \notin checkoutClosed /\ checkoutBy[a] = 0 /\ a \notin stopped
    /\ a \notin revoked /\ prep[a] = "prepared"
    /\ state[a] \in {"ready", "offered", "starting", "started"}
    /\ checkoutBy' = [checkoutBy EXCEPT ![a] = incarnation]
    /\ needsFlush' = needsFlush \cup {a}
    /\ checkoutWriter' = checkoutWriter \cup {a}
    /\ StartWriter(a)
    /\ UNCHANGED <<claimVars, authorityVars, prep, prepBy, checkoutClosed, turnVars,
                   outboxVars, sessionVars, podVars, stopVars, storageVars,
                   conversationVars, prepWriter, clusterVars, backendVars>>

\* CompleteCheckout: finishCheckout of the container that ran it, once its
\* writers are proven stopped, or recoverCheckoutWriter once that container
\* is proven gone.
CompleteCheckout(a) ==
    /\ checkoutBy[a] # 0
    /\ \/ checkoutBy[a] = incarnation /\ a \notin checkoutWriter
       \/ ContainerGone(checkoutBy[a])
    /\ checkoutBy' = [checkoutBy EXCEPT ![a] = 0]
    /\ UNCHANGED <<claimVars, authorityVars, prep, prepBy, checkoutClosed, needsFlush,
                   turnVars, outboxVars, sessionVars, podVars, stopVars, storageVars,
                   conversationVars, worldVars>>

\* CloseCheckouts: the worker reached its result, or the session stops.
CloseCheckouts(a) ==
    /\ a \notin checkoutClosed /\ workerSession[a] # None
    /\ \/ source[a] = "worker"
       \/ workerSession[a] \in sessionStop /\ stopActive[workerSession[a]] = a
    /\ checkoutClosed' = checkoutClosed \cup {a}
    /\ revoked' = revoked \cup {a}
    /\ UNCHANGED <<claimVars, state, stopped, complete, cleaned, prep, prepBy,
                   needsFlush, checkoutBy, turnVars, outboxVars, sessionVars, podVars,
                   stopVars, storageVars, conversationVars, worldVars>>

\* SyncTaskFilesystem makes durable what was written; a helper that is
\* still running goes on writing.
SyncTaskFilesystem(t) ==
    unsynced' = IF \E b \in prepWriter \cup checkoutWriter : storageOf[b] = t
                THEN unsynced ELSE unsynced \ {t}

\* stopCheckoutWrites: syncfs, then CheckoutsFlushed.
CheckoutsFlushed(a) ==
    /\ a \in checkoutClosed /\ checkoutBy[a] = 0 /\ a \in needsFlush
    /\ SyncTaskFilesystem(storageOf[a])
    /\ needsFlush' = needsFlush \ {a}
    /\ UNCHANGED <<claimVars, authorityVars, prep, prepBy, checkoutClosed, checkoutBy,
                   turnVars, outboxVars, sessionVars, podVars, stopVars, storageVars,
                   conversationVars, prepWriter, checkoutWriter, clusterVars, backendVars>>

TurnControlNext ==
    \/ \E a \in Attempts :
          \/ BeginPreparation(a)
          \/ CheckpointPreparation(a)
          \/ \E prepared \in BOOLEAN : CompletePreparation(a, prepared)
          \/ InterruptPreparation(a)
          \/ PublishTurn(a) \/ AcceptTurn(a) \/ Admit(a)
          \/ Offer(a) \/ BeginStart(a) \/ MarkStarted(a)
          \/ BeginCheckout(a) \/ CompleteCheckout(a)
          \/ CloseCheckouts(a) \/ CheckoutsFlushed(a)
    \/ \E s \in Attempts :
          SetSessionResources(s) \/ BindSessionPod(s) \/ AdmitSession(s)
=============================================================================
