------------------------------ MODULE Cluster ------------------------------
(***************************************************************************)
(* What the controller does not decide: Pods, the supervisor in a Pod, the *)
(* helper processes of the controller's containers, restarts of the        *)
(* controller, and the Multica backend.  Kubernetes and the backend are    *)
(* external and are modelled from how the controller uses them; the        *)
(* supervisor is worker/session_linux.go.                                  *)
(***************************************************************************)
EXTENDS Journal

-----------------------------------------------------------------------------
(* Pods and supervisors                                                    *)

SetPod(s, p) ==
    /\ pod' = [pod EXCEPT ![s] = p]
    /\ UNCHANGED <<journalVars, processVars, seal, incarnation, gone, backendVars>>

\* The create request of a session commits once, possibly long after it was
\* sent: the Pod has a fixed name and a finalizer, and a retry sends the
\* same bytes.
PodCommits(s) == s \in podRequested /\ pod[s] = "none" /\ SetPod(s, "created")

PodRuns(s) == pod[s] = "created" /\ SetPod(s, "running")

\* A Pod that was deleted before its worker container ran.
PodNeverStarts(s) ==
    pod[s] = "created" /\ (s \in sessionStop \/ s \in Faulty) /\ SetPod(s, "neverStarted")

\* The worker container ends: after its seal, because its Pod is deleted by
\* the stop of the session, or on its own.
PodTerminates(s) ==
    /\ pod[s] = "running"
    /\ seal[s] # "none" \/ s \in sessionStop \/ s \in Faulty
    /\ SetPod(s, "terminated")

\* The Pod object disappears without a proof that the container ended.
PodLost(s) == pod[s] \in {"created", "running"} /\ s \in Faulty /\ SetPod(s, "lost")

\* finalStop: told to stop, the supervisor ends every process of the session
\* and flushes the root, but not before the controller reports that its own
\* writers stopped; it may also run out of time.
Seal(s, outcome) ==
    /\ pod[s] = "running" /\ s \in supervisorKey /\ s \in sessionStop
    /\ seal[s] = "none"
    /\ IF outcome = "clean" THEN s \in writersStopped ELSE s \in Faulty
    /\ seal' = [seal EXCEPT ![s] = outcome]
    /\ UNCHANGED <<journalVars, processVars, pod, incarnation, gone, backendVars>>

-----------------------------------------------------------------------------
(* Controller containers                                                   *)

WriterExits(a) ==
    /\ \/ prepWriter' = prepWriter \ {a} /\ a \in prepWriter /\ UNCHANGED checkoutWriter
       \/ checkoutWriter' = checkoutWriter \ {a} /\ a \in checkoutWriter /\ UNCHANGED prepWriter
    /\ UNCHANGED <<journalVars, unsynced, clusterVars, backendVars>>

\* The controller is replaced.  Store.Open turns requests in flight into
\* requests of unknown fate; helpers of the old container may still run.
Restart ==
    /\ incarnation <= MaxRestarts
    /\ incarnation' = incarnation + 1
    /\ delivery' = [a \in Attempts |->
                      IF delivery[a] = "forwarding" THEN "uncertain" ELSE delivery[a]]
    /\ recovery' = [a \in Attempts |->
                      IF recovery[a] = "forwarding" THEN "uncertain" ELSE recovery[a]]
    /\ ambiguous' = ambiguous \cup {a \in Attempts : "forwarding" \in {delivery[a], recovery[a]}}
    /\ UNCHANGED <<claimVars, authorityVars, writerVars, turnVars, source, kind,
                   resultReceipt, sessionVars, podVars, stopVars, storageVars,
                   conversationVars, processVars, pod, seal, gone, backend>>

\* Kubernetes reports that a replaced container terminated, and every helper
\* it started with it.
ContainerTerminates(i) ==
    /\ i \in 1 .. incarnation - 1 /\ i \notin gone
    /\ gone' = gone \cup {i}
    /\ prepWriter' = {a \in prepWriter : prepBy[a] # i}
    /\ checkoutWriter' = {a \in checkoutWriter : checkoutBy[a] # i}
    /\ UNCHANGED <<journalVars, unsynced, pod, seal, incarnation, backendVars>>

-----------------------------------------------------------------------------
(* The backend                                                             *)

SetBackend(a, b) ==
    /\ backend' = [backend EXCEPT ![a] = b]
    /\ UNCHANGED <<journalVars, processVars, clusterVars, ambiguous>>

BackendStarts(a) == state[a] = "starting" /\ backend[a] = "dispatched" /\ SetBackend(a, "running")

\* The backend commits a terminal request: the one being sent, or one whose
\* fate the sender never learned.
BackendCommits(a) ==
    /\ \/ "forwarding" \in {delivery[a], recovery[a]}
       \/ a \in ambiguous
    /\ \/ /\ source[a] = "worker" /\ recovery[a] = "none" /\ kind[a] # "cancel-ack"
          /\ backend[a] = "running" /\ SetBackend(a, "result")
       \/ /\ source[a] = "controller" \/ recovery[a] # "none"
          /\ backend[a] \in {"dispatched", "running"} /\ SetBackend(a, "failure")

\* The user cancels the task, or the backend gives up on it.
BackendEnds(a) ==
    /\ a \in Faulty /\ state[a] # "unknown" /\ backend[a] \in {"dispatched", "running"}
    /\ \E b \in {"cancelled", "failure"} : SetBackend(a, b)

ClusterNext ==
    \/ \E s \in Attempts :
          \/ PodCommits(s) \/ PodRuns(s) \/ PodNeverStarts(s) \/ PodTerminates(s)
          \/ PodLost(s)
          \/ \E outcome \in {"clean", "unclean"} : Seal(s, outcome)
    \/ \E a \in Attempts :
          WriterExits(a) \/ BackendStarts(a) \/ BackendCommits(a) \/ BackendEnds(a)
    \/ Restart
    \/ \E i \in Incarnations : ContainerTerminates(i)
=============================================================================
