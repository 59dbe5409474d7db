---------------------------- MODULE TurnGateway ----------------------------
(***************************************************************************)
(* The requests of one turn at the controller (controller/gateway.go,      *)
(* execution.go, checkout.go, daemonapi/gateway.go).  Every request is a   *)
(* goroutine: it is authorized, observes the Pod, takes the attempt's      *)
(* execution gate, is authorized again and acts.  Its client may have gone *)
(* and repeated it meanwhile.  A stop never takes the gate; checkouts hold *)
(* it only while they register; the controller may die at any step.        *)
(***************************************************************************)
EXTENDS Naturals, Sequences

CONSTANTS Req,         \* bound: requests served at a time
          Services,    \* bound: what the turn uses, one of these in a behaviour
          MaxEvents,   \* bound: provider events of the turn
          MaxCrashes   \* bound: deaths of the controller

ASSUME BoundsAreNaturals == MaxEvents \in Nat /\ MaxCrashes \in Nat

VARIABLES grant,       \* the TaskGrant: state, revoked, stop, checkout fence, receipt
          events,      \* its event list: the delivery state of each
          req,         \* the request goroutines
          sends,       \* requests that may have brought an event to the backend
          worker,      \* the supervisor's side of the turn, and the service it uses
          op,          \* checkoutOps[attempt] and its handler
          helper,      \* the checkout's Git and copy processes: their containers
          dirty,       \* task files written and not yet synced
          fence,       \* a stopCheckoutWrites call
          incarnation, ended  \* controller containers: running, proven ended

journalVars == <<grant, events>>
checkoutVars == <<op, helper, dirty, fence>>
containerVars == <<incarnation, ended>>
vars == <<journalVars, req, sends, worker, checkoutVars, containerVars>>

NoRequest == [kind |-> "none", n |-> 0, pc |-> "idle", revoked |-> FALSE, out |-> "none"]
NoOp == [pc |-> "none", cancelled |-> FALSE, process |-> 0, unproven |-> FALSE]

Init ==
    /\ grant = [state |-> "ready", revoked |-> FALSE, stop |-> FALSE, closed |-> FALSE,
                process |-> 0, flush |-> FALSE, receipt |-> FALSE]
    /\ events = <<>>
    /\ req = [r \in Req |-> NoRequest]
    /\ sends = [n \in 1 .. MaxEvents |-> 0]
    /\ \E service \in Services :
          worker = [phase |-> "ask", acked |-> 0, waits |-> "none", seal |-> FALSE,
                    service |-> service]
    /\ op = NoOp /\ helper = {} /\ dirty = FALSE /\ fence = "idle"
    /\ incarnation = 1 /\ ended = {}

-----------------------------------------------------------------------------
(* Authority                                                               *)

Executable == grant.state \in {"ready", "offered", "starting", "started"}
\* Store.Authorize: revocation leaves only the supervisor's capability.
Authorized(kind) ==
    IF kind \in {"api", "scm"} THEN Executable /\ ~grant.revoked
                               ELSE Executable \/ grant.state = "received"
\* admittedPod, and AuthorizeStop for results: a stop ends the former.
Admitted(kind) == kind = "result" \/ ~grant.stop

Exclusive == {"start", "result"}
Holding(r) == req[r].pc \notin {"idle", "new", "mint", "gate"}
\* Mutant: results take the gate like every other request.
GateFreeShared(r) ==
    \A q \in Req \ {r} : ~(req[q].kind = "start" /\ (Holding(q) \/ req[q].pc = "gate"))
\* sync.RWMutex: a waiting writer keeps new readers out.
GateFree(r) ==
    \A q \in Req \ {r} :
        IF req[r].kind \in Exclusive THEN ~Holding(q)
        ELSE ~(req[q].kind \in Exclusive /\ (Holding(q) \/ req[q].pc = "gate"))

Goto(r, pc) == req' = [req EXCEPT ![r].pc = pc]
\* The handler returns; the worker hears it if it still waits for this one.
Return(r, ok) ==
    /\ req' = [req EXCEPT ![r] = NoRequest]
    /\ worker' = IF worker.waits # r THEN worker
                 ELSE [worker EXCEPT !.waits = "none",
                         !.phase = CASE req[r].kind = "start" -> IF ok THEN "running" ELSE "failed"
                                     [] req[r].kind = "event" /\ ~ok -> "failing"
                                     [] OTHER -> @,
                         !.acked = IF req[r].kind = "event" /\ ok THEN req[r].n ELSE @,
                         !.seal = @ \/ (req[r].kind = "result" /\ ok)]
Refused(r) == Return(r, FALSE) /\ UNCHANGED <<journalVars, sends, checkoutVars, containerVars>>

-----------------------------------------------------------------------------
(* The clients                                                             *)

Spawn(r, kind, n) ==
    /\ req[r].kind = "none"
    /\ req' = [req EXCEPT ![r] = [NoRequest EXCEPT !.kind = kind, !.n = n, !.pc = "new"]]

\* worker.execute asks for the permission once; drainProvider sends the events
\* in order and repeats one whose answer was lost; settle reports the result.
WorkerSends(r) ==
    /\ worker.waits = "none"
    /\ \/ worker.phase = "ask" /\ Spawn(r, "start", 0)
       \/ worker.phase = "running" /\ worker.service = "event" /\ worker.acked < MaxEvents
          /\ Spawn(r, "event", worker.acked + 1)
       \/ worker.phase \in {"done", "broken"} /\ ~worker.seal /\ Spawn(r, "result", 0)
    /\ worker' = [worker EXCEPT !.waits = r, !.phase = IF @ = "ask" THEN "asking" ELSE @]
    /\ UNCHANGED <<journalVars, sends, checkoutVars, containerVars>>

\* Programs of the task call through the relay while it is open.
TaskSends(r) ==
    /\ worker.phase = "running" /\ worker.service \in {"api", "scm"}
    /\ Spawn(r, worker.service, 0)
    /\ UNCHANGED <<journalVars, sends, worker, checkoutVars, containerVars>>

\* The connection breaks; the handler goes on.  A start is never repeated, an
\* event for half a minute.
AnswerLost ==
    /\ worker.waits # "none"
    /\ \E phase \in CASE worker.phase = "asking" -> {"failed"}
                      [] worker.phase = "running" -> {"running", "failing"}
                      [] OTHER -> {worker.phase} :
          worker' = [worker EXCEPT !.waits = "none", !.phase = phase]
    /\ UNCHANGED <<journalVars, req, sends, checkoutVars, containerVars>>

\* The provider ended with a result, also after an event was refused: such a
\* turn reports its result but no receipt.
ProviderEnds ==
    /\ worker.phase \in {"running", "failing"} /\ worker.waits = "none"
    /\ worker' = [worker EXCEPT !.phase = IF @ = "running" THEN "done" ELSE "broken"]
    /\ UNCHANGED <<journalVars, req, sends, checkoutVars, containerVars>>

-----------------------------------------------------------------------------
(* The common path of a request                                            *)

\* supervisor: Authorize, the stop check and the Pod observation; scmToken
\* fetches its token then.  The task API only resolves its capability.
Authorize(r) ==
    /\ req[r].pc = "new"
    /\ LET kind == req[r].kind
       IN \/ /\ Authorized(kind)
             /\ kind = "api" \/ Admitted(kind)
             /\ ~(kind = "start" /\ grant.stop)
             /\ Goto(r, IF kind = "scm" THEN "mint" ELSE "gate")
             /\ UNCHANGED <<journalVars, sends, worker, checkoutVars, containerVars>>
          \/ Refused(r)

\* The GitHub App answered, or refused.
Mint(r) ==
    /\ req[r].pc = "mint"
    /\ \/ Goto(r, "gate") /\ UNCHANGED <<journalVars, sends, worker, checkoutVars, containerVars>>
       \/ Refused(r)

\* The gate is taken and the request authorized again; it keeps this grant.
Enter(r) ==
    /\ req[r].pc = "gate" /\ GateFree(r)
    /\ IF Authorized(req[r].kind) /\ ~(req[r].kind = "start" /\ grant.stop)
       THEN /\ req' = [req EXCEPT ![r].pc = "in", ![r].revoked = grant.revoked]
            /\ UNCHANGED <<journalVars, sends, worker, checkoutVars, containerVars>>
       ELSE Refused(r)

-----------------------------------------------------------------------------
(* start                                                                   *)

\* sameAssignment and Offer: the permission is consumed.
Offer(r) ==
    /\ req[r].kind = "start" /\ req[r].pc = "in"
    /\ \/ /\ grant.state = "ready" /\ ~grant.revoked
          /\ grant' = [grant EXCEPT !.state = "offered"] /\ Goto(r, "begin")
          /\ UNCHANGED <<events, sends, worker, checkoutVars, containerVars>>
       \/ Refused(r)

BeginStart(r) ==
    /\ req[r].kind = "start" /\ req[r].pc = "begin"
    /\ \/ /\ grant.state = "offered" /\ ~grant.revoked
          /\ grant' = [grant EXCEPT !.state = "starting"] /\ Goto(r, "report")
          /\ UNCHANGED <<events, sends, worker, checkoutVars, containerVars>>
       \/ Refused(r)

BackendStart(r) ==
    /\ req[r].kind = "start" /\ req[r].pc = "report"
    /\ \/ Goto(r, "mark") /\ UNCHANGED <<journalVars, sends, worker, checkoutVars, containerVars>>
       \/ Refused(r)

MarkStarted(r) ==
    /\ req[r].kind = "start" /\ req[r].pc = "mark"
    /\ IF grant.state = "starting" /\ ~grant.revoked
       THEN /\ grant' = [grant EXCEPT !.state = "started"] /\ Return(r, TRUE)
            /\ UNCHANGED <<events, sends, checkoutVars, containerVars>>
       ELSE Refused(r)

-----------------------------------------------------------------------------
(* event                                                                   *)

Deliver(n, from, to) == events[n] = from /\ events' = [events EXCEPT ![n] = to]

\* ReceiveEvent appends the event or recognizes a repetition.
ReceiveEvent(r) ==
    /\ req[r].kind = "event" /\ req[r].pc = "in"
    /\ LET n == req[r].n
           known == n <= Len(events)
       IN IF grant.state # "started" \/ n > Len(events) + 1 THEN Refused(r)
          ELSE /\ events' = IF known THEN events ELSE Append(events, "received")
               /\ IF known /\ events[n] # "received" THEN Return(r, TRUE)
                  ELSE Goto(r, IF req[r].revoked THEN "local" ELSE "forward") /\ UNCHANGED worker
               /\ UNCHANGED <<grant, sends, checkoutVars, containerVars>>

KeepLocal(r) ==
    /\ req[r].pc = "local"
    /\ IF events[req[r].n] # "received" THEN Refused(r)
       ELSE /\ Deliver(req[r].n, "received", "local") /\ Return(r, TRUE)
            /\ UNCHANGED <<grant, sends, checkoutVars, containerVars>>

\* Mutant: a repetition forwards whatever state the event is in.
BeginEventForwardAny(r) ==
    /\ req[r].pc = "forward"
    /\ events' = [events EXCEPT ![req[r].n] = "forwarding"] /\ Goto(r, "report")
    /\ UNCHANGED <<grant, sends, worker, checkoutVars, containerVars>>
BeginEventForward(r) ==
    /\ req[r].pc = "forward"
    /\ IF events[req[r].n] # "received" THEN Refused(r)
       ELSE /\ Deliver(req[r].n, "received", "forwarding") /\ Goto(r, "report")
            /\ UNCHANGED <<grant, sends, worker, checkoutVars, containerVars>>

\* API.Report: the request was answered, got lost somewhere, or was never sent.
Report(r) ==
    /\ req[r].kind = "event" /\ req[r].pc = "report"
    /\ \E out \in {"delivered", "uncertain", "received"} :
          /\ req' = [req EXCEPT ![r].pc = "record", ![r].out = out]
          /\ sends' = IF out = "received" THEN sends ELSE [sends EXCEPT ![req[r].n] = @ + 1]
    /\ UNCHANGED <<journalVars, worker, checkoutVars, containerVars>>

EventDelivery(r) ==
    /\ req[r].pc = "record"
    /\ IF events[req[r].n] # "forwarding" THEN Refused(r)
       ELSE /\ Deliver(req[r].n, "forwarding", req[r].out) /\ Return(r, req[r].out # "received")
            /\ UNCHANGED <<grant, sends, checkoutVars, containerVars>>

-----------------------------------------------------------------------------
(* result, its receipt and the end of the turn                             *)

\* receiveResult: recorded once, then repeated; running checkouts are cancelled.
ReceiveResult(r) ==
    /\ req[r].kind = "result" /\ req[r].pc = "in"
    /\ IF grant.state \in {"offered", "starting", "started", "received"}
       THEN /\ grant' = [grant EXCEPT !.state = "received"]
            /\ op' = [op EXCEPT !.cancelled = @ \/ op # NoOp]
            /\ Return(r, TRUE)
            /\ UNCHANGED <<events, sends, helper, dirty, fence, containerVars>>
       ELSE Refused(r)

\* RecordTurnExecutionReceipt, after the worker's fence and the seal.
RecordTurnExecutionReceipt ==
    /\ worker.phase = "done" /\ worker.seal /\ ~grant.receipt
    /\ grant.state = "received" /\ grant.closed /\ ~grant.flush /\ grant.process = 0
    /\ grant' = [grant EXCEPT !.receipt = TRUE, !.revoked = TRUE]
    /\ UNCHANGED <<events, req, sends, worker, checkoutVars, containerVars>>

RequestStopOf(g) == [g EXCEPT !.stop = TRUE, !.revoked = TRUE]

\* finishTurn: an event of unknown fate stops the session, an unsettled one waits.
FinishTurn ==
    /\ grant.state = "received"
    /\ \/ /\ ~grant.stop /\ \E n \in DOMAIN events : events[n] = "uncertain"
          /\ grant' = RequestStopOf(grant)
       \/ /\ \A n \in DOMAIN events : events[n] \in {"delivered", "local"}
          /\ grant.receipt
          /\ grant' = [grant EXCEPT !.state = "closed"]
    /\ UNCHANGED <<events, req, sends, worker, checkoutVars, containerVars>>

\* Mutant: once its receipt was accepted the worker waits for the settlement.
WorkerGivesUpUnaccepted ==
    /\ worker.phase \in {"done", "broken", "failed"} /\ ~grant.receipt /\ ~grant.stop /\ grant.state # "closed"
    /\ grant' = RequestStopOf(grant)
    /\ UNCHANGED <<events, req, sends, worker, checkoutVars, containerVars>>
\* The worker stops its session: after a failed turn, or at finishingDeadline.
WorkerGivesUp ==
    /\ worker.phase \in {"done", "broken", "failed"} /\ ~grant.stop /\ grant.state # "closed"
    /\ grant' = RequestStopOf(grant)
    /\ UNCHANGED <<events, req, sends, worker, checkoutVars, containerVars>>

\* requestStop of the backend's cancellation, a deadline or a failed Pod: it
\* takes no gate, and cancels the running checkout.
RequestStop ==
    /\ ~grant.stop /\ grant.state # "closed"
    /\ grant' = RequestStopOf(grant)
    /\ op' = [op EXCEPT !.cancelled = @ \/ op # NoOp]
    /\ UNCHANGED <<events, req, sends, worker, helper, dirty, fence, containerVars>>

-----------------------------------------------------------------------------
(* The task API and SCM tokens                                             *)

\* daemonapi.Gateway: the Pod is observed under the gate; the request is proxied.
Proxy(r) ==
    /\ req[r].kind = "api" /\ req[r].pc = "in"
    /\ \/ /\ Admitted("api") /\ Goto(r, "proxied")
          /\ UNCHANGED <<journalVars, sends, worker, checkoutVars, containerVars>>
       \/ Refused(r)

\* authorizedResponse, and scmGrant for a token: the disclosure is authorized.
Check(r) ==
    /\ \/ req[r].kind = "api" /\ req[r].pc = "proxied"
       \/ req[r].kind = "scm" /\ req[r].pc = "in"
    /\ IF Authorized(req[r].kind) /\ (req[r].kind = "scm" => Admitted("scm"))
       THEN /\ Goto(r, "write")
            /\ UNCHANGED <<journalVars, sends, worker, checkoutVars, containerVars>>
       ELSE Refused(r)

Write(r) == req[r].pc = "write" /\ Refused(r)

-----------------------------------------------------------------------------
(* Checkouts                                                               *)

\* selectedCheckout
MayCheckout == Executable /\ ~grant.closed /\ ~grant.stop /\ ~grant.revoked

\* beginCheckout registers under the gate and checkoutMu, as one step.
BeginOperation ==
    /\ worker.phase = "running" /\ worker.service = "checkout" /\ op = NoOp /\ MayCheckout
    /\ \A q \in Req : ~(req[q].kind \in Exclusive /\ (Holding(q) \/ req[q].pc = "gate"))
    /\ op' = [NoOp EXCEPT !.pc = "begun"]
    /\ UNCHANGED <<journalVars, req, sends, worker, helper, dirty, fence, containerVars>>

\* Admission, access and the process record, which is in the journal before
\* Retain writes task files through processes of this container.
BeginCheckout ==
    /\ op.pc = "begun" /\ ~op.cancelled /\ Admitted("checkout")
    /\ MayCheckout /\ grant.process = 0
    /\ grant' = [grant EXCEPT !.process = incarnation, !.flush = TRUE]
    /\ op' = [op EXCEPT !.pc = "retaining", !.process = incarnation]
    /\ helper' = helper \cup {incarnation} /\ dirty' = TRUE
    /\ UNCHANGED <<events, req, sends, worker, fence, containerVars>>

\* The processes ended: work was kept or an error stopped them, or the
\* snapshot comes next.
HelperEnds ==
    /\ op.pc \in {"retaining", "copying"}
    /\ \E next \in {"answer"} \cup (IF op.pc = "retaining" THEN {"snapshot"} ELSE {}) :
          op' = [op EXCEPT !.pc = next]
    /\ helper' = helper \ {incarnation}
    /\ UNCHANGED <<journalVars, req, sends, worker, dirty, fence, containerVars>>

\* ErrCheckoutWritersUnproven: the processes could not be stopped.
HelperUnproven ==
    /\ op.pc \in {"retaining", "copying"}
    /\ op' = [op EXCEPT !.pc = "answer", !.unproven = TRUE]
    /\ UNCHANGED <<journalVars, req, sends, worker, helper, dirty, fence, containerVars>>

\* The cache answered; admission and authorizeCheckout are asked again before
\* Copy writes.
Snapshot ==
    /\ op.pc = "snapshot" /\ ~op.cancelled /\ Admitted("checkout") /\ MayCheckout
    /\ op' = [op EXCEPT !.pc = "copying"]
    /\ helper' = helper \cup {incarnation} /\ dirty' = TRUE
    /\ UNCHANGED <<journalVars, req, sends, worker, fence, containerVars>>

\* Mutant: the writer is complete although its processes may still run.
FinishCheckoutUnproven ==
    /\ op.pc \in {"begun", "snapshot", "answer"}
    /\ grant' = IF op.process # 0 THEN [grant EXCEPT !.process = 0] ELSE grant
    /\ op' = NoOp
    /\ UNCHANGED <<events, req, sends, worker, helper, dirty, fence, containerVars>>
\* finishCheckout, after the answer or any error of the handler.
FinishCheckout ==
    /\ op.pc \in {"begun", "snapshot", "answer"}
    /\ grant' = IF op.process # 0 /\ ~op.unproven /\ grant.process = op.process
                THEN [grant EXCEPT !.process = 0] ELSE grant
    /\ op' = NoOp
    /\ UNCHANGED <<events, req, sends, worker, helper, dirty, fence, containerVars>>

-----------------------------------------------------------------------------
(* stopCheckoutWrites: the worker's checkout-stop or the controller's fence *)

CloseCheckouts ==
    /\ fence = "idle" /\ grant.state # "closed"
    /\ worker.phase \in {"done", "broken", "failed"} \/ grant.stop
    /\ grant' = [grant EXCEPT !.closed = TRUE, !.revoked = TRUE]
    /\ op' = [op EXCEPT !.cancelled = @ \/ op # NoOp]
    /\ fence' = "drain"
    /\ UNCHANGED <<events, req, sends, worker, helper, dirty, containerVars>>

\* The operation is joined; an orphaned writer needs Kubernetes' proof.
RecoverWriter ==
    /\ fence = "drain" /\ op = NoOp
    /\ \/ /\ grant.process \in {0} \cup ended
          /\ grant' = [grant EXCEPT !.process = 0] /\ fence' = "sync"
       \/ /\ grant.process \notin {0} \cup ended
          /\ fence' = "idle" /\ UNCHANGED grant
    /\ UNCHANGED <<events, req, sends, worker, op, helper, dirty, containerVars>>

\* Nothing to flush if no checkout began; the sync may fail.
SyncTaskFilesystem ==
    /\ fence = "sync"
    /\ \/ dirty' = (dirty /\ ~grant.flush) /\ fence' = "flushed"
       \/ grant.flush /\ fence' = "idle" /\ UNCHANGED dirty
    /\ UNCHANGED <<journalVars, req, sends, worker, op, helper, containerVars>>

CheckoutsFlushed ==
    /\ fence = "flushed" /\ grant.closed /\ grant.process = 0
    /\ fence' = "idle" /\ grant' = [grant EXCEPT !.flush = FALSE]
    /\ UNCHANGED <<events, req, sends, worker, op, helper, dirty, containerVars>>

-----------------------------------------------------------------------------
(* Failures                                                                *)

\* The controller dies and starts again: goroutines and maps are gone, what was
\* being forwarded is uncertain.  Its processes end with the container.
Crash ==
    /\ incarnation <= MaxCrashes
    /\ incarnation' = incarnation + 1
    /\ events' = [n \in DOMAIN events |-> IF events[n] = "forwarding" THEN "uncertain" ELSE events[n]]
    /\ req' = [r \in Req |-> NoRequest] /\ op' = NoOp /\ fence' = "idle"
    /\ worker' = [worker EXCEPT !.waits = "none", !.phase = IF @ = "asking" THEN "failed" ELSE @]
    /\ UNCHANGED <<grant, sends, helper, dirty, ended>>

\* Kubernetes proves the end of a container that still matters.
ContainerEnds ==
    /\ \E i \in ({grant.process} \cup helper) \ ({0, incarnation} \cup ended) :
          /\ ended' = ended \cup {i} /\ helper' = helper \ {i}
          /\ dirty' = (dirty \/ i \in helper)
    /\ UNCHANGED <<journalVars, req, sends, worker, op, fence, incarnation>>

-----------------------------------------------------------------------------

Serve(r) ==
    \/ Authorize(r) \/ Mint(r) \/ Enter(r)
    \/ Offer(r) \/ BeginStart(r) \/ BackendStart(r) \/ MarkStarted(r)
    \/ ReceiveEvent(r) \/ KeepLocal(r) \/ BeginEventForward(r) \/ Report(r) \/ EventDelivery(r)
    \/ ReceiveResult(r)
    \/ Proxy(r) \/ Check(r) \/ Write(r)

Checkout ==
    \/ BeginOperation \/ BeginCheckout \/ HelperEnds \/ HelperUnproven \/ Snapshot
    \/ FinishCheckout

StopCheckoutWrites == CloseCheckouts \/ RecoverWriter \/ SyncTaskFilesystem \/ CheckoutsFlushed

Next ==
    \/ \E r \in Req : WorkerSends(r) \/ TaskSends(r) \/ Serve(r)
    \/ AnswerLost \/ ProviderEnds
    \/ RecordTurnExecutionReceipt \/ FinishTurn \/ WorkerGivesUp \/ RequestStop
    \/ Checkout \/ StopCheckoutWrites
    \/ Crash \/ ContainerEnds

Spec == Init /\ [][Next]_vars

\* Handlers run to their end, the delivery loop looks at the turn, and the
\* worker's finishing deadline passes.
FairSpec ==
    /\ Spec
    /\ WF_vars(FinishTurn) /\ WF_vars(WorkerGivesUp)
    /\ \A r \in Req : WF_vars(Serve(r))

-----------------------------------------------------------------------------
(* Properties                                                              *)

\* The backend appends messages without a deduplication key, so an event goes
\* to it at most once: over repeated requests served at the same time, lost
\* answers and a restart between two steps (receiveEvent, EventDelivery).
EventSentOnce == \A n \in 1 .. MaxEvents : sends[n] <= 1

\* The gate orders the worker's result after every request that is still to
\* reach the backend or to hand out an answer or a token of the task, although
\* neither stops nor the SCM service are waited for under it.
NothingAfterResult ==
    \A r \in Req : req[r].pc \in {"forward", "report", "proxied", "write"} =>
                       grant.state \notin {"received", "closed"}

\* Once the fence says so, no process of a checkout writes the task's files
\* and every write is synced: what the turn receipt relies on
\* (stopCheckoutWrites, recoverCheckoutWriter, finishCheckout).
CheckoutsSealed ==
    grant.closed /\ grant.process = 0 /\ ~grant.flush => helper = {} /\ ~dirty

\* A recorded result leads to a settled turn or a stopped session, also when
\* an event's fate is unknown or an acknowledged event was never sent.
TurnSettlesOrStops == grant.state = "received" ~> grant.state = "closed" \/ grant.stop

=============================================================================
