-------------------------- MODULE WorkerSupervisor --------------------------
(***************************************************************************)
(* A worker session's supervisor (PID 1 of the Pod: worker/session_linux,  *)
(* supervisor_linux, shutdown_linux, relay) and the controller it talks to *)
(* (workspace/session_control, controller/session_gateway).  A mutation is *)
(* signed over a challenge and its exact bytes are repeated until they are *)
(* answered, so a copy may be served at any later time; the challenges     *)
(* live in the controller's memory, what it accepted in the journal.       *)
(***************************************************************************)
EXTENDS Naturals

CONSTANTS MaxTurns,    \* bound: turns of the session
          MaxCrashes   \* bound: deaths of the controller

ASSUME BoundsAreNaturals == MaxTurns \in Nat /\ MaxCrashes \in Nat

VARIABLES session,    \* the WorkerSession record
          grant,      \* the TaskGrant of each turn
          challenge,  \* controlChallenges: the current challenge of an operation
          crashes,
          sent,       \* signed requests the worker has sent, any of them again
          poll,       \* the session poll in progress
          worker,     \* the supervisor
          pod,        \* what runs and exists in the Pod
          checkout    \* a checkout request: on its way, or writing task files

journalVars == <<session, grant>>
controllerVars == <<journalVars, challenge, crashes>>
workerVars == <<poll, worker>>
podVars == <<pod, checkout>>
vars == <<controllerVars, sent, workerVars, podVars>>

Turns == 1 .. MaxTurns
Operations == {"accept", "stop-request", "turn-receipt", "stop-receipt"}
NoChallenge == [op |-> "none", turn |-> 0, attempt |-> 0, body |-> 0]
NoPoll == [phase |-> "none"]
\* What a poll remembers of the session it was authorized for.
Binding == [turn |-> session.turn, active |-> session.active, last |-> session.last,
            state |-> session.state, complete |-> session.complete, stop |-> session.stop]
NoProcesses == [task |-> FALSE, desktop |-> FALSE, private |-> FALSE, relay |-> FALSE,
                request |-> FALSE]

Init ==
    /\ session = [state |-> "creating", key |-> FALSE, turn |-> 0, active |-> 0, last |-> 0,
                  complete |-> 0, stop |-> FALSE, stopActive |-> 0, asked |-> FALSE,
                  fenced |-> FALSE, receipt |-> "none"]
    /\ grant = [n \in Turns |-> [state |-> "none", revoked |-> FALSE, accepted |-> FALSE,
                                 closed |-> FALSE, receipt |-> FALSE]]
    /\ challenge = [o \in Operations |-> NoChallenge]
    /\ crashes = 0 /\ sent = {} /\ poll = NoPoll
    /\ worker = [pc |-> "enroll", cancelled |-> FALSE, sequence |-> 0, completed |-> 0,
                 settled |-> 0, proof |-> NoChallenge, result |-> FALSE, interrupted |-> FALSE,
                 requests |-> "open", writers |-> "open", report |-> "none", stop |-> FALSE]
    /\ pod = NoProcesses
    /\ checkout = "none"

Executing == worker.pc \in {"attempt", "start", "launch", "running"}
Final(w) == [w EXCEPT !.pc = "final", !.requests = "open", !.writers = "open"]

-----------------------------------------------------------------------------
(* The controller's journal                                                *)

StopOf(s) ==
    IF s.stop THEN s
    ELSE [s EXCEPT !.stop = TRUE, !.stopActive = s.active, !.state = "draining"]
RevokedBy(g, s) == IF s.active = 0 THEN g ELSE [g EXCEPT ![s.active].revoked = TRUE]

ReserveTurn ==
    /\ session.state = "idle" \/ (session.state = "creating" /\ session.turn = 0)
    /\ ~session.stop /\ session.active = 0 /\ session.turn < MaxTurns
    /\ session' = [session EXCEPT !.turn = @ + 1, !.active = session.turn + 1,
                                  !.state = IF @ = "idle" THEN "reserved" ELSE @]
    /\ grant' = [grant EXCEPT ![session.turn + 1].state = "intent"]
    /\ UNCHANGED <<challenge, crashes, sent, workerVars, podVars>>

PublishTurn ==
    LET n == session.active IN
    /\ n # 0 /\ ~session.stop /\ session.key
    /\ grant[n].state = "intent" /\ ~grant[n].revoked
    /\ grant' = [grant EXCEPT ![n].state = "assigned"]
    /\ session' = [session EXCEPT !.state = "reserved", !.last = n]
    /\ UNCHANGED <<challenge, crashes, sent, workerVars, podVars>>

\* requestSessionStop: the backend cancelled, a deadline passed, the idle time
\* is over (CreateSessionChallenge looks at it too), or the Pod ended.
RequestSessionStop ==
    /\ ~session.stop
    /\ session' = StopOf(session) /\ grant' = RevokedBy(grant, session)
    /\ UNCHANGED <<challenge, crashes, sent, workerVars, podVars>>

\* CompleteTurn, once the backend acknowledged the result.
CompleteTurn ==
    LET n == session.active IN
    /\ n # 0 /\ grant[n].receipt
    /\ grant' = [grant EXCEPT ![n].state = "closed", ![n].revoked = TRUE]
    /\ session' = [session EXCEPT !.active = 0, !.complete = n,
                                  !.state = IF session.stop THEN @ ELSE "idle"]
    /\ UNCHANGED <<challenge, crashes, sent, workerVars, podVars>>

\* stopCheckoutWriters for a stop, of the reconcile loop or of the worker's read.
CloseCheckouts ==
    /\ session.stop /\ session.stopActive # 0 /\ ~grant[session.stopActive].closed
    /\ grant' = [grant EXCEPT ![session.stopActive].closed = TRUE]
    /\ UNCHANGED <<session, challenge, crashes, sent, workerVars, podVars>>

\* fenceSessionWriters and RecordSessionControllerFlush.
RecordSessionControllerFlush ==
    /\ session.stop /\ ~session.fenced
    /\ session.stopActive # 0 => grant[session.stopActive].closed /\ checkout # "running"
    /\ session' = [session EXCEPT !.fenced = TRUE]
    /\ UNCHANGED <<grant, challenge, crashes, sent, workerVars, podVars>>

\* The controller restarts: the journal remains, challenges and polls do not.
Crash ==
    /\ crashes < MaxCrashes
    /\ crashes' = crashes + 1
    /\ challenge' = [o \in Operations |-> NoChallenge] /\ poll' = NoPoll
    /\ UNCHANGED <<journalVars, sent, worker, podVars>>

-----------------------------------------------------------------------------
(* Signed mutations                                                        *)

ChallengeAttempt(op) ==
    IF session.stop /\ op \in {"stop-request", "stop-receipt"} THEN session.stopActive
                                                              ELSE session.active

\* CreateSessionChallenge and proof: the worker signs what it was given.
CreateChallenge(op, body, next) ==
    /\ session.key
    /\ LET c == [op |-> op, turn |-> session.turn, attempt |-> ChallengeAttempt(op), body |-> body]
       IN  /\ challenge' = [challenge EXCEPT ![op] = c]
           /\ sent' = sent \cup {c}
           /\ worker' = [worker EXCEPT !.pc = next, !.proof = c]
    /\ UNCHANGED <<journalVars, crashes, poll, podVars>>

\* validSessionProof.  A challenge is asked for once per body, so its nonce is
\* left out: a forgotten challenge never comes back.
ValidProof(m) ==
    /\ session.key /\ challenge[m.op] = m
    /\ m.turn = session.turn /\ m.attempt = ChallengeAttempt(m.op)

\* AcceptTurn
MayAccept(m) ==
    /\ ValidProof(m) /\ m.body = session.turn
    /\ ~session.stop /\ session.state = "reserved" /\ session.active # 0
    /\ LET g == grant[session.active] IN g.state = "assigned" /\ ~g.revoked /\ ~g.accepted

\* RecordTurnExecutionReceipt
MayReport(m) ==
    /\ ValidProof(m) /\ m.body = session.active
    /\ grant[m.body].state = "received" /\ grant[m.body].closed

\* RecordSessionStopReceipt; body 1 says that everything ended and was flushed.
MaySeal(m) ==
    /\ ValidProof(m) /\ session.stop
    /\ m.body = 1 => session.fenced /\ (session.stopActive # 0 => grant[session.stopActive].closed)

May(m) == CASE m.op = "accept" -> MayAccept(m)
            [] m.op = "stop-request" -> ValidProof(m)
            [] m.op = "turn-receipt" -> MayReport(m)
            [] m.op = "stop-receipt" -> MaySeal(m)

\* Mutant: any acceptance of the session answers.
KeptOfSession(m) == CASE m.op = "accept" -> \E n \in Turns : grant[n].accepted
                      [] m.op = "stop-request" -> session.asked
                      [] m.op = "turn-receipt" -> grant[m.body].receipt
                      [] m.op = "stop-receipt" -> session.receipt # "none"
\* What the journal keeps of an accepted request answers its later copies.
Kept(m) == CASE m.op = "accept" -> grant[m.body].accepted
             [] m.op = "stop-request" -> session.asked
             [] m.op = "turn-receipt" -> grant[m.body].receipt
             [] m.op = "stop-receipt" -> session.receipt # "none"

Commit(m) ==
    /\ session' = CASE m.op = "stop-request" -> [StopOf(session) EXCEPT !.asked = TRUE]
                    [] m.op = "turn-receipt" /\ ~session.stop -> [session EXCEPT !.state = "finishing"]
                    [] m.op = "stop-receipt" ->
                          [session EXCEPT !.receipt = IF m.body = 1 THEN "clean" ELSE "unclean"]
                    [] OTHER -> session
    /\ grant' = CASE m.op = "accept" -> [grant EXCEPT ![session.active].accepted = TRUE]
                  [] m.op = "stop-request" -> RevokedBy(grant, session)
                  [] m.op = "turn-receipt" ->
                        [grant EXCEPT ![m.body].receipt = TRUE, ![m.body].revoked = TRUE]
                  [] OTHER -> grant

\* The worker hears that its request was accepted, or refused.
Hear(ok) ==
    worker' = CASE worker.pc = "accepting" -> IF ok THEN [worker EXCEPT !.pc = "attempt"] ELSE Final(worker)
                [] worker.pc = "reporting" ->
                      IF ok THEN [worker EXCEPT !.pc = "poll", !.completed = worker.sequence]
                      ELSE Final(worker)
                [] worker.pc = "stopping" ->
                      IF ok THEN [worker EXCEPT !.pc = "fencing", !.stop = TRUE]
                      ELSE [worker EXCEPT !.pc = "closing", !.requests = "failed"]
                [] worker.pc = "sealing" -> [worker EXCEPT !.pc = "ended"]

\* workerSessionControl serves a copy of a request, whose answer may get lost.
Serve(m) ==
    /\ m \in sent
    /\ IF May(m) /\ ~Kept(m) THEN Commit(m) ELSE UNCHANGED journalVars
    /\ \/ /\ worker.proof = m /\ worker.pc \in {"accepting", "reporting", "stopping", "sealing"}
          /\ Hear(Kept(m) \/ May(m))
       \/ UNCHANGED worker
    /\ UNCHANGED <<challenge, crashes, sent, poll, podVars>>

-----------------------------------------------------------------------------
(* Enrollment, polls and the watch                                         *)

\* enroll and AdmitSession; the answer may get lost, the key is the same again.
Enroll ==
    /\ worker.pc \in {"enroll", "final"}
    /\ session' = [session EXCEPT !.key = TRUE]
    /\ \/ worker.pc = "enroll" /\ worker' = [worker EXCEPT !.pc = "poll"]
       \/ ~session.key /\ UNCHANGED worker
    /\ UNCHANGED <<grant, challenge, crashes, sent, poll, podVars>>

PollSession ==
    /\ worker.pc = "poll" /\ poll = NoPoll
    /\ poll' = [phase |-> "read", seen |-> Binding]
    /\ UNCHANGED <<controllerVars, sent, worker, podVars>>

\* sessionPoll observes the Pod and authorizes the poll again; the answer
\* carries the assignment once it is published.  A failed observation only
\* repeats the poll.
PollAnswer ==
    /\ poll.phase = "read"
    /\ poll' = IF poll.seen.stop \/ poll.seen = Binding
               THEN [phase |-> "answered", seen |-> poll.seen,
                     assignment |-> /\ poll.seen.state = "reserved" /\ session.active # 0
                                    /\ grant[session.active].state # "intent"]
               ELSE NoPoll
    /\ UNCHANGED <<controllerVars, sent, worker, podVars>>

\* run; execute consumes the assignment before it is accepted.
PollReceive ==
    /\ poll.phase = "answered" /\ worker.pc = "poll"
    /\ LET p == poll.seen
           next == [worker EXCEPT !.settled = p.complete]
       IN  worker' =
             IF p.stop THEN Final([worker EXCEPT !.stop = TRUE])
             ELSE IF /\ poll.assignment /\ p.turn > worker.sequence
                     /\ worker.completed = 0 \/ p.complete >= worker.completed
             THEN [next EXCEPT !.pc = "accept", !.sequence = p.turn, !.requests = "open",
                      !.writers = "open", !.report = "none", !.result = FALSE, !.interrupted = FALSE]
             ELSE next
    /\ poll' = NoPoll
    /\ UNCHANGED <<controllerVars, sent, podVars>>

FinishingDeadline ==
    /\ worker.pc = "poll" /\ worker.completed > worker.settled
    /\ worker' = Final(worker) /\ poll' = NoPoll
    /\ UNCHANGED <<controllerVars, sent, podVars>>

\* watch cancels what runs: it read the stop, or lost the controller or the
\* desktop for too long.  SIGTERM does the same.
Watch ==
    /\ worker.pc \notin {"enroll", "final", "stopping", "fencing", "closing", "seal", "sealing", "ended"}
    /\ ~worker.cancelled
    /\ worker' = [worker EXCEPT !.cancelled = TRUE, !.stop = session.stop]
    /\ UNCHANGED <<controllerVars, sent, poll, podVars>>

Cancelled ==
    /\ worker.pc = "poll" /\ worker.cancelled
    /\ worker' = Final(worker) /\ poll' = NoPoll
    /\ UNCHANGED <<controllerVars, sent, podVars>>

-----------------------------------------------------------------------------
(* A turn                                                                  *)

\* The challenge must be one of the assignment.
SignAcceptance ==
    /\ worker.pc = "accept" /\ session.turn = worker.sequence /\ session.active = worker.sequence
    /\ CreateChallenge("accept", worker.sequence, "accepting")

\* workerLifecycle.admit and execute up to the start permission: input, HOME,
\* private files, native metadata, packages, the relay, admit.
Prepare ==
    LET n == worker.sequence IN
    /\ worker.pc = "attempt"
    /\ pod' = [pod EXCEPT !.private = TRUE, !.relay = TRUE]
    /\ \/ /\ ~grant[n].revoked /\ grant[n].state = "assigned"
          /\ grant' = [grant EXCEPT ![n].state = "ready"]
          /\ worker' = [worker EXCEPT !.pc = "start"]
       \/ worker' = [worker EXCEPT !.pc = "settle"] /\ UNCHANGED grant
    /\ UNCHANGED <<session, challenge, crashes, sent, poll, checkout>>

\* The start permission is asked for once; without its answer nothing runs.
Start ==
    LET n == worker.sequence IN
    /\ worker.pc = "start"
    /\ \/ /\ grant[n].state = "ready" /\ ~grant[n].revoked
          /\ grant' = [grant EXCEPT ![n].state = "started"]
          /\ session' = [session EXCEPT !.state = IF session.stop THEN @ ELSE "running"]
          /\ \E pc \in {"launch", "settle"} : worker' = [worker EXCEPT !.pc = pc]
       \/ worker' = [worker EXCEPT !.pc = "settle"] /\ UNCHANGED journalVars
    /\ UNCHANGED <<challenge, crashes, sent, poll, podVars>>

\* ensureDesktop and startRunner; a failed handshake leaves what it started.
Launch ==
    /\ worker.pc = "launch"
    /\ \E task, desktop \in BOOLEAN :
          /\ task => desktop
          /\ pod' = [pod EXCEPT !.task = task, !.desktop = @ \/ desktop]
    /\ \E pc \in {"settle"} \cup (IF pod'.task THEN {"running"} ELSE {}) :
          worker' = [worker EXCEPT !.pc = pc, !.interrupted = worker.cancelled]
    /\ UNCHANGED <<controllerVars, sent, poll, checkout>>

\* drainProvider: the provider published its result, or was cancelled and its
\* end stays unproven.  Its tools may run on.
ProviderEnds ==
    /\ worker.pc = "running"
    /\ \E result \in BOOLEAN, interrupted \in {worker.cancelled, TRUE} :
          worker' = [worker EXCEPT !.pc = "settle", !.result = result, !.interrupted = interrupted]
    /\ UNCHANGED <<controllerVars, sent, poll, podVars>>

\* A tool asks the relay for a checkout, which goes to the controller.
RelayRequest ==
    /\ pod.task /\ pod.relay /\ ~pod.request /\ checkout = "none"
    /\ pod' = [pod EXCEPT !.request = TRUE] /\ checkout' = "sent"
    /\ UNCHANGED <<controllerVars, sent, workerVars>>

\* beginCheckout; the handler goes on when the relay's connection is closed.
Checkout ==
    /\ \/ /\ checkout = "sent"
          /\ LET g == grant[worker.sequence] IN
             checkout' = IF g.state = "started" /\ ~g.closed /\ ~g.revoked THEN "running" ELSE "none"
       \/ checkout = "running" /\ checkout' = "none"
    /\ UNCHANGED <<controllerVars, sent, workerVars, pod>>

\* The request ends with its answer, or because the relay stopped.
RelayReturns ==
    /\ pod.request /\ (checkout = "none" \/ ~pod.relay)
    /\ pod' = [pod EXCEPT !.request = FALSE]
    /\ UNCHANGED <<controllerVars, sent, workerVars, checkout>>

-----------------------------------------------------------------------------
(* settle and the cleanup of a turn                                        *)

Cleaning == worker.pc \in {"settle", "final", "stopping", "fencing", "closing"}

\* stopRequests: no new request passes, the active ones are cancelled.
StopRequests ==
    /\ Cleaning /\ pod.relay
    /\ pod' = [pod EXCEPT !.relay = FALSE]
    /\ UNCHANGED <<controllerVars, sent, workerVars, checkout>>
RequestsStopped == ~pod.relay /\ ~pod.request

\* checkout-stop: the controller closes and joins the turn's checkouts.
CheckoutStop ==
    LET n == worker.sequence IN
    /\ worker.pc = "settle" /\ worker.requests = "open" /\ RequestsStopped
    /\ grant' = [grant EXCEPT ![n].closed = TRUE, ![n].revoked = TRUE]
    /\ worker' = [worker EXCEPT !.requests = IF checkout = "running" THEN @ ELSE "stopped"]
    /\ UNCHANGED <<session, challenge, crashes, sent, poll, podVars>>

\* stopTaskProcesses spares the desktop, stopWriters of the final stop does not.
StopWriters ==
    /\ Cleaning /\ worker.writers = "open"
    /\ \/ /\ worker' = [worker EXCEPT !.writers = "stopped"]
          /\ pod' = [pod EXCEPT !.task = FALSE, !.desktop = worker.pc = "settle" /\ @]
       \/ worker' = [worker EXCEPT !.writers = "failed"] /\ UNCHANGED pod
    /\ UNCHANGED <<controllerVars, sent, poll, checkout>>

\* reportResult runs beside the cleanup.
ReportResult ==
    LET n == worker.sequence IN
    /\ worker.pc = "settle" /\ worker.result /\ worker.report = "none"
    /\ \/ /\ grant[n].state \in {"started", "received"}
          /\ grant' = [grant EXCEPT ![n].state = "received"]
          /\ \E report \in {"none", "sealed"} : worker' = [worker EXCEPT !.report = report]
       \/ worker' = [worker EXCEPT !.report = "failed"] /\ UNCHANGED grant
    /\ UNCHANGED <<session, challenge, crashes, sent, poll, podVars>>

\* Mutant: only the processes have to be stopped.
CleanedProcesses(w) == w.writers = "stopped"
Cleaned(w) == w.requests = "stopped" /\ w.writers = "stopped"

\* Private files are cleared once nothing can write them; only a turn whose
\* every part was observed is reported.
Settle ==
    /\ worker.pc = "settle" /\ worker.requests # "open" /\ worker.writers # "open"
    /\ worker.result => worker.report # "none"
    /\ \E cleared \in {FALSE} \cup (IF Cleaned(worker) THEN {TRUE} ELSE {}) :
          /\ pod' = [pod EXCEPT !.private = @ /\ ~cleared]
          /\ worker' = IF cleared /\ worker.result /\ ~worker.interrupted /\ worker.report = "sealed"
                       THEN [worker EXCEPT !.pc = "receipt"] ELSE Final(worker)
    /\ UNCHANGED <<controllerVars, sent, poll, checkout>>

SignTurnReceipt ==
    worker.pc = "receipt" /\ CreateChallenge("turn-receipt", worker.sequence, "reporting")

-----------------------------------------------------------------------------
(* finalStop                                                               *)

\* The session's fence begins when the relay's requests ended.
BeginFence ==
    /\ worker.pc = "final" /\ RequestsStopped
    /\ IF worker.stop
       THEN worker' = [worker EXCEPT !.pc = "fencing"]
            /\ UNCHANGED <<controllerVars, sent, poll, podVars>>
       ELSE CreateChallenge("stop-request", 0, "stopping")

\* The stop command says that the controller's writers ended.
Fenced ==
    /\ worker.pc = "fencing" /\ session.fenced
    /\ worker' = [worker EXCEPT !.pc = "closing", !.requests = "stopped"]
    /\ UNCHANGED <<controllerVars, sent, poll, podVars>>

CloseSession ==
    /\ worker.pc = "closing" /\ worker.writers # "open"
    /\ \E clean \in {FALSE} \cup (IF Cleaned(worker) THEN {TRUE} ELSE {}) :
          /\ pod' = [pod EXCEPT !.private = @ /\ ~clean]
          /\ worker' = [worker EXCEPT !.pc = IF worker.stop THEN "seal" ELSE "ended", !.result = clean]
    /\ UNCHANGED <<controllerVars, sent, poll, checkout>>

SignStopReceipt ==
    worker.pc = "seal" /\ CreateChallenge("stop-receipt", IF worker.result THEN 1 ELSE 0, "sealing")

\* Mutant: the fence waits for the controller without a deadline.
GiveUpUnfenced ==
    /\ worker' = CASE worker.pc \in {"enroll", "accept", "accepting", "receipt", "reporting"} -> Final(worker)
                   [] worker.pc = "settle" /\ worker.requests = "open" -> [worker EXCEPT !.requests = "failed"]
                   [] worker.pc \in {"final", "stopping"} ->
                         [worker EXCEPT !.pc = "closing", !.requests = "failed"]
                   [] worker.pc \in {"seal", "sealing"} -> [worker EXCEPT !.pc = "ended"]
                   [] OTHER -> worker
    /\ worker' # worker
    /\ UNCHANGED <<controllerVars, sent, poll, podVars>>
\* The deadline of a phase passes, or its context is cancelled.
GiveUp ==
    /\ worker' = CASE worker.pc \in {"enroll", "accept", "accepting", "receipt", "reporting"} -> Final(worker)
                   [] worker.pc = "settle" /\ worker.requests = "open" -> [worker EXCEPT !.requests = "failed"]
                   [] worker.pc \in {"final", "stopping", "fencing"} ->
                         [worker EXCEPT !.pc = "closing", !.requests = "failed"]
                   [] worker.pc \in {"seal", "sealing"} -> [worker EXCEPT !.pc = "ended"]
                   [] OTHER -> worker
    /\ worker' # worker
    /\ UNCHANGED <<controllerVars, sent, poll, podVars>>

\* PID 1 returns or is killed: its container ends with everything in it.
PodEnds ==
    /\ worker' = [worker EXCEPT !.pc = "ended"] /\ pod' = NoProcesses /\ poll' = NoPoll
    /\ worker.pc # "ended" \/ pod # NoProcesses
    /\ UNCHANGED <<controllerVars, sent, checkout>>

-----------------------------------------------------------------------------

Controller ==
    \/ ReserveTurn \/ PublishTurn \/ RequestSessionStop \/ CompleteTurn
    \/ CloseCheckouts \/ RecordSessionControllerFlush \/ Checkout \/ Crash
    \/ \E m \in sent : Serve(m)

Turn ==
    \/ SignAcceptance \/ Prepare \/ Start \/ Launch \/ ProviderEnds
    \/ CheckoutStop \/ ReportResult \/ Settle \/ SignTurnReceipt
FinalStop == BeginFence \/ Fenced \/ CloseSession \/ SignStopReceipt
Tools == RelayRequest \/ RelayReturns

Next ==
    \/ Controller \/ Turn \/ FinalStop \/ Tools
    \/ Enroll \/ PollSession \/ PollAnswer \/ PollReceive
    \/ FinishingDeadline \/ Watch \/ Cancelled
    \/ StopRequests \/ StopWriters \/ GiveUp \/ PodEnds

Spec == Init /\ [][Next]_vars

\* Every phase of the worker ends, by itself or at its deadline; its polls and
\* its watch go on; the controller provisions a reserved turn and sees a Pod
\* that ended.  Nothing is assumed of the backend, the tools or the checkouts.
FairSpec ==
    /\ Spec
    /\ WF_vars(Turn \/ FinalStop \/ Enroll \/ Cancelled \/ GiveUp)
    /\ WF_vars(PollSession \/ PollAnswer \/ PollReceive)
    /\ WF_vars(FinishingDeadline) /\ WF_vars(Watch /\ session.stop)
    /\ WF_vars(StopRequests) /\ WF_vars(StopWriters)
    /\ WF_vars(PublishTurn) /\ WF_vars(worker.pc = "ended" /\ RequestSessionStop)

-----------------------------------------------------------------------------
(* Properties                                                              *)

\* A receipt says what is true: after the turn's receipt no process or request
\* of the turn, no checkout and no private file is left, and after a clean
\* final receipt nothing runs at all (settle, cleanup, RecordTurnExecution-
\* Receipt, RecordSessionStopReceipt).
SealsHold ==
    /\ \A n \in Turns : grant[n].receipt /\ worker.sequence = n =>
          ~pod.task /\ ~pod.request /\ ~pod.private /\ checkout # "running"
    /\ session.receipt = "clean" => pod = NoProcesses /\ checkout # "running"

\* The journal never holds an acceptance the worker has not consumed, and what
\* runs in the Pod was accepted: over repeated requests, lost answers and
\* restarts, also when the acceptance of an earlier turn arrives once its
\* successor is published (AcceptTurn, execute).
AcceptanceIsOwn ==
    /\ \A n \in Turns : grant[n].accepted => n <= worker.sequence
    /\ Executing \/ pod.task => grant[worker.sequence].accepted

\* A session with a turn or a stop comes to rest: idle again, or its supervisor
\* ended; whatever answer gets lost, also while the controller is away, when
\* the backend never acknowledges the result or a checkout never ends.
SupervisorSettles ==
    session.active # 0 \/ session.stop
        ~> (session.active = 0 /\ ~session.stop) \/ worker.pc = "ended"
=============================================================================
