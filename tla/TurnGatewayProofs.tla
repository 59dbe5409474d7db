-------------------------- MODULE TurnGatewayProofs --------------------------
(***************************************************************************)
(* The requests of a turn, for any number of concurrent requests, events,  *)
(* repetitions and deaths of the controller: no event is sent twice, no    *)
(* request outlives the result under the gate, and a fenced turn has no    *)
(* process that writes its files and nothing left to sync.                 *)
(***************************************************************************)
EXTENDS TurnGateway, SequenceTheorems, TLAPS

Kinds == {"none", "start", "event", "result", "api", "scm"}
Points == {"idle", "new", "mint", "gate", "in", "begin", "report", "mark", "local", "forward",
           "record", "proxied", "write"}
EventStates == {"received", "local", "forwarding", "delivered", "uncertain"}
Fates == {"none", "received", "delivered", "uncertain"}

Grants == [state : {"ready", "offered", "starting", "started", "received", "closed"},
           revoked : BOOLEAN, stop : BOOLEAN, closed : BOOLEAN, process : Nat, flush : BOOLEAN,
           receipt : BOOLEAN]
Requests == [kind : Kinds, n : Nat, pc : Points, revoked : BOOLEAN, out : Fates]
Workers == [phase : {"ask", "asking", "running", "failing", "failed", "done", "broken"},
            acked : Nat, waits : Req \cup {"none"}, seal : BOOLEAN, service : Services]
CheckoutOps == [pc : {"none", "begun", "retaining", "snapshot", "copying", "answer"},
                cancelled : BOOLEAN, process : Nat, unproven : BOOLEAN]

\* Every field of the turn keeps its range.
TypeOK ==
    /\ grant \in Grants /\ events \in Seq(EventStates)
    /\ req \in [Req -> Requests] /\ sends \in [1 .. MaxEvents -> Nat]
    /\ worker \in Workers
    /\ op \in CheckoutOps /\ helper \subseteq Nat /\ dirty \in BOOLEAN
    /\ fence \in {"idle", "drain", "sync", "flushed"}
    /\ incarnation \in Nat \ {0} /\ ended \subseteq Nat

USE DEF journalVars, checkoutVars, containerVars, vars

\* A turn starts without requests and events.
LEMMA TypeInit == Init => TypeOK
<1> SUFFICES ASSUME Init PROVE TypeOK
    OBVIOUS
<1>1. grant \in Grants /\ op \in CheckoutOps /\ worker \in Workers
      BY DEF Init, Grants, CheckoutOps, NoOp, Workers
<1>2. events \in Seq(EventStates) /\ sends \in [1 .. MaxEvents -> Nat]
      BY DEF Init
<1>3. req \in [Req -> Requests]
      BY DEF Init, NoRequest, Requests, Kinds, Points, Fates
<1>4. dirty \in BOOLEAN /\ helper \subseteq Nat /\ ended \subseteq Nat
      BY DEF Init
<1>5. fence \in {"idle", "drain", "sync", "flushed"} /\ incarnation \in Nat \ {0}
      BY DEF Init
<1> QED BY <1>1, <1>2, <1>3, <1>4, <1>5 DEF TypeOK

\* How a handler moves on, and what its return makes of the worker.
LEMMA RequestType ==
    ASSUME TypeOK, NEW r \in Req, NEW pc \in Points
    PROVE  /\ Goto(r, pc) => req' \in [Req -> Requests]
           /\ \A ok \in BOOLEAN : Return(r, ok) => req' \in [Req -> Requests] /\ worker' \in Workers
<1> USE DEF TypeOK
<1>1. NoRequest \in Requests
      BY DEF NoRequest, Requests, Kinds, Points, Fates
<1>2. Goto(r, pc) => req' \in [Req -> Requests]
      BY DEF Goto, Requests
<1>3. ASSUME NEW ok \in BOOLEAN, Return(r, ok) PROVE req' \in [Req -> Requests] /\ worker' \in Workers
      <2>1. req' \in [Req -> Requests]
            BY <1>1, <1>3 DEF Return
      <2>2. req[r] \in Requests /\ req[r].n \in Nat
            BY DEF Requests
      <2>3. worker' \in Workers
            BY <1>3, <2>2 DEF Return, Workers
      <2> QED BY <2>1, <2>3
<1> QED BY <1>2, <1>3

\* A request that ends, or moves on, and touches nothing else.
LEMMA RefusedType == ASSUME TypeOK, NEW r \in Req, Refused(r) PROVE TypeOK'
<1>1. "idle" \in Points
      BY DEF Points
<1>2. req' \in [Req -> Requests] /\ worker' \in Workers
      BY <1>1, RequestType DEF Refused
<1> QED BY <1>2 DEF Refused, TypeOK

\* A handler that only goes on keeps the types.
LEMMA GotoType ==
    ASSUME TypeOK, NEW r \in Req, NEW pc \in Points, Goto(r, pc),
           UNCHANGED <<journalVars, sends, worker, checkoutVars, containerVars>>
    PROVE  TypeOK'
<1>1. req' \in [Req -> Requests]
      BY RequestType
<1> QED BY <1>1 DEF TypeOK

\* Requests of every kind.
LEMMA CommonType ==
    ASSUME TypeOK, NEW r \in Req,
           \/ Authorize(r) \/ Mint(r) \/ Enter(r) \/ BackendStart(r)
           \/ Proxy(r) \/ Check(r) \/ Write(r)
    PROVE  TypeOK'
<1>1. CASE Refused(r)
      BY <1>1, RefusedType
<1>2. CASE ~ Refused(r) /\ ~ Enter(r)
      <2>1. {"mint", "gate", "mark", "proxied", "write"} \subseteq Points
            BY DEF Points
      <2>2. \E pc \in {"mint", "gate", "mark", "proxied", "write"} : Goto(r, pc)
            BY <1>2 DEF Authorize, Mint, BackendStart, Proxy, Check, Write
      <2>3. UNCHANGED <<journalVars, sends, worker, checkoutVars, containerVars>>
            BY <1>2 DEF Authorize, Mint, BackendStart, Proxy, Check, Write
      <2> QED BY <2>1, <2>2, <2>3, GotoType
<1>3. CASE ~ Refused(r) /\ Enter(r)
      <2>1. /\ req' = [req EXCEPT ![r].pc = "in", ![r].revoked = grant.revoked]
            /\ UNCHANGED <<journalVars, sends, worker, checkoutVars, containerVars>>
            BY <1>3 DEF Enter
      <2>2. grant.revoked \in BOOLEAN /\ req[r] \in Requests /\ req \in [Req -> Requests]
            BY DEF TypeOK, Grants
      <2>3. [req[r] EXCEPT !.pc = "in", !.revoked = grant.revoked] \in Requests
            BY <2>2 DEF Requests, Points
      <2>4. req' = [req EXCEPT ![r] = [req[r] EXCEPT !.pc = "in", !.revoked = grant.revoked]]
            BY <2>1
      <2>5. req' \in [Req -> Requests]
            BY <2>2, <2>3, <2>4
      <2> QED BY <2>1, <2>5 DEF TypeOK
<1> QED BY <1>1, <1>2, <1>3

\* The start of the turn and its result.
LEMMA StartType ==
    ASSUME TypeOK, NEW r \in Req,
           Offer(r) \/ BeginStart(r) \/ MarkStarted(r) \/ ReceiveResult(r)
    PROVE  TypeOK'
<1> USE DEF TypeOK
<1>1. CASE Refused(r)
      BY <1>1, RefusedType
<1>2. ASSUME ~ Refused(r), Offer(r) \/ BeginStart(r) PROVE TypeOK'
      <2>1. \E st \in {"offered", "starting"} : grant' = [grant EXCEPT !.state = st]
            BY <1>2 DEF Offer, BeginStart
      <2>2. \E pc \in {"begin", "report"} : Goto(r, pc)
            BY <1>2 DEF Offer, BeginStart
      <2>3. grant' \in Grants
            BY <2>1 DEF Grants
      <2>4. req' \in [Req -> Requests]
            BY <2>2, RequestType DEF Points
      <2> QED BY <1>2, <2>3, <2>4 DEF Offer, BeginStart
<1>3. ASSUME ~ Refused(r), MarkStarted(r) PROVE TypeOK'
      <2>1. grant' = [grant EXCEPT !.state = "started"] /\ Return(r, TRUE)
            BY <1>3 DEF MarkStarted
      <2>2. grant' \in Grants
            BY <2>1 DEF Grants
      <2>3. req' \in [Req -> Requests] /\ worker' \in Workers
            BY <2>1, RequestType DEF Points
      <2> QED BY <1>3, <2>2, <2>3 DEF MarkStarted
<1>4. ASSUME ~ Refused(r), ReceiveResult(r) PROVE TypeOK'
      <2>1. /\ grant' = [grant EXCEPT !.state = "received"] /\ Return(r, TRUE)
            /\ op' = [op EXCEPT !.cancelled = @ \/ op # NoOp]
            /\ UNCHANGED <<events, sends, helper, dirty, fence, containerVars>>
            BY <1>4 DEF ReceiveResult
      <2>2. grant' \in Grants /\ op' \in CheckoutOps
            BY <2>1 DEF Grants, CheckoutOps
      <2>3. req' \in [Req -> Requests] /\ worker' \in Workers
            BY <2>1, RequestType DEF Points
      <2> QED BY <2>1, <2>2, <2>3
<1> QED BY <1>1, <1>2, <1>3, <1>4

\* A list keeps its length when one event changes.
LEMMA DeliverType ==
    ASSUME TypeOK, NEW n \in 1 .. Len(events), NEW from, NEW to \in EventStates, Deliver(n, from, to)
    PROVE  /\ events' \in Seq(EventStates) /\ Len(events') = Len(events)
           /\ events'[n] = to /\ \A i \in 1 .. Len(events) : i # n => events'[i] = events[i]
BY ExceptSeq DEF Deliver, TypeOK

\* A request serves the kinds of its own path, and the event it delivers is
\* in the list.
PointsOf(kind) ==
    CASE kind = "none" -> {"idle"}
      [] kind = "start" -> {"new", "gate", "in", "begin", "report", "mark"}
      [] kind = "event" -> {"new", "gate", "in", "local", "forward", "report", "record"}
      [] kind = "result" -> {"new", "gate", "in"}
      [] kind = "api" -> {"new", "gate", "in", "proxied", "write"}
      [] kind = "scm" -> {"new", "mint", "gate", "in", "write"}

Delivering(r) ==
    req[r].kind = "event" /\ req[r].pc \in {"local", "forward", "report", "record"}

PathInv ==
    /\ \A r \in Req : req[r].pc \in PointsOf(req[r].kind)
    /\ \A r \in Req : req[r].kind = "event" => req[r].n \in 1 .. MaxEvents
    /\ \A r \in Req : Delivering(r) => req[r].n <= Len(events)
    /\ \A r \in Req : req[r].pc = "record" => req[r].out # "none"
    /\ Len(events) <= MaxEvents

\* The steps of the path that deliver an event.
LEMMA OnPath ==
    ASSUME TypeOK, PathInv, NEW r \in Req
    PROVE  /\ req[r].pc \in {"local", "forward", "record"} => req[r].kind = "event"
           /\ req[r].pc = "report" => req[r].kind \in {"start", "event"}
           /\ req[r].pc \in {"begin", "mark"} => req[r].kind = "start"
           /\ req[r].pc = "proxied" => req[r].kind = "api"
           /\ req[r].pc = "write" => req[r].kind \in {"api", "scm"}
           /\ req[r].pc = "mint" => req[r].kind = "scm"
           /\ req[r].kind = "none" <=> req[r].pc = "idle"
           /\ Delivering(r) => req[r].n \in 1 .. Len(events)
           /\ Len(events) \in Nat
<1>1. req[r].kind \in Kinds /\ req[r].pc \in PointsOf(req[r].kind)
      BY DEF TypeOK, Requests, PathInv
<1>2. Len(events) \in Nat
      BY LenProperties DEF TypeOK
<1>3. Delivering(r) => req[r].n \in 1 .. Len(events)
      BY <1>2, BoundsAreNaturals DEF PathInv, Delivering
<1> QED BY <1>1, <1>2, <1>3 DEF Kinds, PointsOf

\* Provider events.
LEMMA EventType ==
    ASSUME TypeOK, PathInv, NEW r \in Req,
           \/ ReceiveEvent(r) \/ KeepLocal(r) \/ BeginEventForward(r) \/ Report(r) \/ EventDelivery(r)
    PROVE  TypeOK'
<1> USE DEF TypeOK
<1>1. CASE Refused(r)
      BY <1>1, RefusedType
<1>2. ASSUME ~ Refused(r), ReceiveEvent(r) PROVE TypeOK'
      <2>1. events' = events \/ events' = Append(events, "received")
            BY <1>2 DEF ReceiveEvent
      <2>2. "received" \in EventStates
            BY DEF EventStates
      <2>3. Append(events, "received") \in Seq(EventStates)
            BY <2>2, AppendProperties
      <2>4. events' \in Seq(EventStates)
            BY <2>1, <2>3
      <2>5. \/ Return(r, TRUE)
            \/ worker' = worker /\ \E pc \in {"local", "forward"} : Goto(r, pc)
            BY <1>2 DEF ReceiveEvent
      <2>6. req' \in [Req -> Requests] /\ worker' \in Workers
            BY <2>5, RequestType DEF Points
      <2> QED BY <1>2, <2>4, <2>6 DEF ReceiveEvent
<1>3. ASSUME ~ Refused(r), KeepLocal(r) \/ BeginEventForward(r) \/ EventDelivery(r) PROVE TypeOK'
      <2>1. req[r].n \in 1 .. Len(events)
            BY <1>3, OnPath DEF KeepLocal, BeginEventForward, EventDelivery, Delivering
      <2>2. req[r].pc = "record" => req[r].out \in EventStates
            BY DEF PathInv, Requests, Fates, EventStates
      <2>3. \E from, to \in EventStates : Deliver(req[r].n, from, to)
            BY <1>3, <2>2 DEF KeepLocal, BeginEventForward, EventDelivery, EventStates
      <2>4. events' \in Seq(EventStates)
            BY <2>1, <2>3, DeliverType
      <2>5. \/ \E ok \in BOOLEAN : Return(r, ok)
            \/ worker' = worker /\ Goto(r, "report")
            BY <1>3 DEF KeepLocal, BeginEventForward, EventDelivery
      <2>6. req' \in [Req -> Requests] /\ worker' \in Workers
            BY <2>5, RequestType DEF Points
      <2> QED BY <1>3, <2>4, <2>6 DEF KeepLocal, BeginEventForward, EventDelivery
<1>4. ASSUME Report(r) PROVE TypeOK'
      <2>1. PICK out \in {"delivered", "uncertain", "received"} :
               /\ req' = [req EXCEPT ![r].pc = "record", ![r].out = out]
               /\ sends' = IF out = "received" THEN sends ELSE [sends EXCEPT ![req[r].n] = @ + 1]
            BY <1>4 DEF Report
      <2>2. [req[r] EXCEPT !.pc = "record", !.out = out] \in Requests
            BY DEF Requests, Points, Fates
      <2>3. req' = [req EXCEPT ![r] = [req[r] EXCEPT !.pc = "record", !.out = out]]
            BY <2>1
      <2>4. req' \in [Req -> Requests]
            BY <2>2, <2>3
      <2>5. sends' \in [1 .. MaxEvents -> Nat]
            <3> DEFINE n == req[r].n
                       Numbers == 1 .. MaxEvents
            <3>1. sends' = sends \/ sends' = [sends EXCEPT ![n] = sends[n] + 1]
                  BY <2>1
            <3>2. \A i \in Numbers : sends[i] + 1 \in Nat
                  OBVIOUS
            <3> HIDE DEF n, Numbers
            <3>3. sends \in [Numbers -> Nat]
                  BY DEF Numbers
            <3>4. sends' \in [Numbers -> Nat]
                  BY <3>1, <3>2, <3>3
            <3> QED BY <3>4 DEF Numbers
      <2> QED BY <1>4, <2>4, <2>5 DEF Report
<1> QED BY <1>1, <1>2, <1>3, <1>4

\* The clients, and the end of the turn.
LEMMA ClientType ==
    ASSUME TypeOK, NEW r \in Req, WorkerSends(r) \/ TaskSends(r)
    PROVE  TypeOK'
<1> USE DEF TypeOK
<1>1. worker.service \in Services /\ worker.acked + 1 \in Nat
      BY DEF Workers
<1>2. \E kind \in Kinds \ {"none"}, n \in Nat : Spawn(r, kind, n)
      BY <1>1 DEF WorkerSends, TaskSends, Kinds
<1>3. req' \in [Req -> Requests]
      <2>1. PICK kind \in Kinds \ {"none"}, n \in Nat : Spawn(r, kind, n)
            BY <1>2
      <2>2. [NoRequest EXCEPT !.kind = kind, !.n = n, !.pc = "new"] \in Requests
            BY DEF NoRequest, Requests, Points, Fates
      <2> QED BY <2>1, <2>2 DEF Spawn
<1>4. worker' \in Workers
      BY DEF WorkerSends, TaskSends, Workers
<1> QED BY <1>3, <1>4 DEF WorkerSends, TaskSends

\* So do the steps of the turn beside the handlers.
LEMMA TurnType ==
    ASSUME TypeOK,
           \/ AnswerLost \/ ProviderEnds \/ RecordTurnExecutionReceipt \/ FinishTurn
           \/ WorkerGivesUp \/ RequestStop
    PROVE  TypeOK'
<1> USE DEF TypeOK
<1>1. ASSUME AnswerLost \/ ProviderEnds PROVE TypeOK'
      <2>1. worker' \in Workers
            BY <1>1 DEF AnswerLost, ProviderEnds, Workers
      <2> QED BY <1>1, <2>1 DEF AnswerLost, ProviderEnds
<1>2. ASSUME RecordTurnExecutionReceipt \/ FinishTurn \/ WorkerGivesUp \/ RequestStop
      PROVE  grant' \in Grants
      <2>1. \/ grant' = [grant EXCEPT !.receipt = TRUE, !.revoked = TRUE]
            \/ grant' = [grant EXCEPT !.state = "closed"]
            \/ grant' = [grant EXCEPT !.stop = TRUE, !.revoked = TRUE]
            BY <1>2 DEF RecordTurnExecutionReceipt, FinishTurn, WorkerGivesUp, RequestStop,
                        RequestStopOf
      <2> QED BY <2>1 DEF Grants
<1>3. ASSUME RequestStop PROVE op' \in CheckoutOps
      BY <1>3 DEF RequestStop, CheckoutOps
<1> QED BY <1>1, <1>2, <1>3 DEF RecordTurnExecutionReceipt, FinishTurn, WorkerGivesUp, RequestStop

\* Checkouts, their fence, and containers.
LEMMA CheckoutType ==
    ASSUME TypeOK, Checkout \/ StopCheckoutWrites \/ ContainerEnds PROVE TypeOK'
<1> USE DEF TypeOK, Grants, CheckoutOps
<1>1. NoOp \in CheckoutOps
      BY DEF NoOp
<1>2. ASSUME BeginOperation PROVE TypeOK'
      <2>1. [NoOp EXCEPT !.pc = "begun"] \in CheckoutOps
            BY DEF NoOp
      <2> QED BY <1>2, <2>1 DEF BeginOperation
<1>3. ASSUME BeginCheckout PROVE TypeOK'
      <2>1. grant' \in Grants /\ op' \in CheckoutOps
            BY <1>3 DEF BeginCheckout
      <2> QED BY <1>3, <2>1 DEF BeginCheckout
<1>4. ASSUME HelperEnds \/ HelperUnproven \/ Snapshot PROVE TypeOK'
      <2>1. op' \in CheckoutOps /\ helper' \subseteq Nat /\ dirty' \in BOOLEAN
            BY <1>4 DEF HelperEnds, HelperUnproven, Snapshot
      <2> QED BY <1>4, <2>1 DEF HelperEnds, HelperUnproven, Snapshot
<1>5. ASSUME FinishCheckout PROVE TypeOK'
      <2>1. grant' \in Grants
            BY <1>5 DEF FinishCheckout
      <2> QED BY <1>1, <1>5, <2>1 DEF FinishCheckout
<1>6. ASSUME CloseCheckouts PROVE TypeOK'
      <2>1. grant' \in Grants /\ op' \in CheckoutOps
            BY <1>6 DEF CloseCheckouts
      <2> QED BY <1>6, <2>1 DEF CloseCheckouts
<1>7. ASSUME RecoverWriter \/ CheckoutsFlushed PROVE TypeOK'
      <2>1. \/ grant' = grant
            \/ grant' = [grant EXCEPT !.process = 0]
            \/ grant' = [grant EXCEPT !.flush = FALSE]
            BY <1>7 DEF RecoverWriter, CheckoutsFlushed
      <2>2. [grant EXCEPT !.process = 0] \in Grants
            OBVIOUS
      <2>3. [grant EXCEPT !.flush = FALSE] \in Grants
            OBVIOUS
      <2>4. grant' \in Grants
            BY <2>1, <2>2, <2>3
      <2> QED BY <1>7, <2>4 DEF RecoverWriter, CheckoutsFlushed
<1>8. ASSUME SyncTaskFilesystem PROVE TypeOK'
      <2>1. dirty' \in BOOLEAN
            BY <1>8 DEF SyncTaskFilesystem
      <2> QED BY <1>8, <2>1 DEF SyncTaskFilesystem
<1>9. ASSUME ContainerEnds PROVE TypeOK'
      <2>1. dirty' \in BOOLEAN
            BY <1>9 DEF ContainerEnds
      <2> QED BY <1>9, <2>1 DEF ContainerEnds
<1> QED BY <1>2, <1>3, <1>4, <1>5, <1>6, <1>7, <1>8, <1>9 DEF Checkout, StopCheckoutWrites

\* The list of events after a death: what was being forwarded is uncertain.
LEMMA CrashType ==
    ASSUME TypeOK, Crash
    PROVE  /\ TypeOK' /\ Len(events') = Len(events)
           /\ \A n \in 1 .. Len(events) :
                 events'[n] = IF events[n] = "forwarding" THEN "uncertain" ELSE events[n]
<1> USE DEF TypeOK
<1> DEFINE after(n) == IF events[n] = "forwarding" THEN "uncertain" ELSE events[n]
<1>1. DOMAIN events = 1 .. Len(events) /\ Len(events) \in Nat
      BY LenProperties
<1>2. \A n \in 1 .. Len(events) : after(n) \in EventStates
      BY <1>1, ElementOfSeq DEF EventStates
<1>3. events' = [n \in 1 .. Len(events) |-> after(n)]
      BY <1>1 DEF Crash
<1>4. events' \in Seq(EventStates) /\ Len(events') = Len(events)
      <2>1. events' \in [1 .. Len(events) -> EventStates]
            BY <1>2, <1>3
      <2>2. events' \in Seq(EventStates)
            <3>1. Seq(EventStates) = UNION {[1 .. n -> EventStates] : n \in Nat}
                  BY SeqDef
            <3> QED BY <1>1, <2>1, <3>1
      <2>3. 1 .. Len(events') = 1 .. Len(events) /\ Len(events') \in Nat
            BY <2>1, <2>2, LenProperties
      <2>4. \A i, j \in Nat : 1 .. i = 1 .. j => i = j
            <3> SUFFICES ASSUME NEW i \in Nat, NEW j \in Nat, 1 .. i = 1 .. j PROVE i = j
                OBVIOUS
            <3>1. i # 0 => i \in 1 .. j
                  OBVIOUS
            <3>2. j # 0 => j \in 1 .. i
                  OBVIOUS
            <3> QED BY <3>1, <3>2
      <2> QED BY <1>1, <2>2, <2>3, <2>4
<1>5. worker' \in Workers
      BY DEF Crash, Workers
<1>6. req' \in [Req -> Requests] /\ op' \in CheckoutOps
      BY DEF Crash, NoRequest, Requests, NoOp, CheckoutOps, Kinds, Points, Fates
<1>7. incarnation' \in Nat \ {0} /\ UNCHANGED <<grant, sends, helper, dirty, ended>> /\ fence' = "idle"
      BY DEF Crash
<1> QED BY <1>3, <1>4, <1>5, <1>6, <1>7

\* Every step keeps the types.
LEMMA TypeStep == TypeOK /\ PathInv /\ [Next]_vars => TypeOK'
<1>1. TypeOK /\ UNCHANGED vars => TypeOK'
      BY DEF TypeOK
<1> QED BY <1>1, CommonType, StartType, EventType, ClientType, TurnType, CheckoutType, CrashType
        DEF Next, Serve

\* How a step changes the request it serves, and no other.
LEMMA StepOf ==
    ASSUME TypeOK, NEW r \in Req
    PROVE  /\ \A pc \in Points : Goto(r, pc) =>
                 /\ req'[r].pc = pc /\ req'[r].kind = req[r].kind /\ req'[r].n = req[r].n
                 /\ req'[r].out = req[r].out
                 /\ \A q \in Req \ {r} : req'[q] = req[q]
           /\ \A ok \in BOOLEAN : Return(r, ok) =>
                 /\ req'[r].pc = "idle" /\ req'[r].kind = "none"
                 /\ \A q \in Req \ {r} : req'[q] = req[q]
           /\ \A kind \in Kinds, n \in Nat : Spawn(r, kind, n) =>
                 /\ req'[r].pc = "new" /\ req'[r].kind = kind /\ req'[r].n = n
                 /\ \A q \in Req \ {r} : req'[q] = req[q]
<1>1. ASSUME NEW pc \in Points, Goto(r, pc)
      PROVE  /\ req'[r].pc = pc /\ req'[r].kind = req[r].kind /\ req'[r].n = req[r].n
             /\ req'[r].out = req[r].out
             /\ \A q \in Req \ {r} : req'[q] = req[q]
      BY <1>1 DEF Goto, TypeOK, Requests
<1>2. ASSUME NEW ok \in BOOLEAN, Return(r, ok)
      PROVE  /\ req'[r].pc = "idle" /\ req'[r].kind = "none"
             /\ \A q \in Req \ {r} : req'[q] = req[q]
      BY <1>2 DEF Return, TypeOK, Requests, NoRequest
<1>3. ASSUME NEW kind \in Kinds, NEW n \in Nat, Spawn(r, kind, n)
      PROVE  /\ req'[r].pc = "new" /\ req'[r].kind = kind /\ req'[r].n = n
             /\ \A q \in Req \ {r} : req'[q] = req[q]
      BY <1>3 DEF Spawn, TypeOK, Requests, NoRequest
<1> QED BY <1>1, <1>2, <1>3

-----------------------------------------------------------------------------
(* The gate                                                                *)

\* These act on an authority that a result ends.
Bound(r) ==
    \/ req[r].kind \in {"api", "scm"} /\ req[r].pc \in {"in", "proxied", "write"}
    \/ req[r].kind = "start" /\ req[r].pc \in {"begin", "report", "mark"}
    \/ Delivering(r)

GateInv ==
    /\ \A r, q \in Req : r # q /\ Holding(r) /\ Holding(q) => req[r].kind \notin Exclusive
    /\ \A r \in Req : Bound(r) => Executable

InFlight(r) == req[r].kind = "event" /\ req[r].pc \in {"report", "record"}

\* An event goes to the backend once, from the request that found it received.
EventInv ==
    /\ \A n \in 1 .. MaxEvents :
          /\ sends[n] <= 1
          /\ n > Len(events) \/ events[n] \in {"received", "local"} => sends[n] = 0
    /\ \A r \in Req : InFlight(r) =>
          /\ events[req[r].n] = "forwarding"
          /\ req[r].pc = "report" \/ req[r].out = "received" => sends[req[r].n] = 0
    /\ \A r, q \in Req : r # q /\ InFlight(r) /\ InFlight(q) => req[r].n # req[q].n

\* What a step must do to keep each part.
LEMMA PathKept ==
    ASSUME TypeOK, TypeOK', PathInv, NEW r \in Req,
           \A q \in Req \ {r} : req'[q] = req[q],
           req'[r].pc \in PointsOf(req'[r].kind),
           req'[r].kind = "event" => req'[r].n \in 1 .. MaxEvents,
           Delivering(r)' => req'[r].n <= Len(events'),
           req'[r].pc = "record" => req'[r].out # "none",
           Len(events) <= Len(events'), Len(events') <= MaxEvents
    PROVE  PathInv'
<1>1. Len(events) \in Nat /\ Len(events') \in Nat
      BY LenProperties DEF TypeOK
<1>2. ASSUME NEW q \in Req, q # r
      PROVE  /\ req'[q].pc \in PointsOf(req'[q].kind)
             /\ req'[q].kind = "event" => req'[q].n \in 1 .. MaxEvents
             /\ Delivering(q)' => req'[q].n <= Len(events')
             /\ req'[q].pc = "record" => req'[q].out # "none"
      <2>1. req'[q] = req[q] /\ req[q].n \in Nat
            BY <1>2 DEF TypeOK, Requests
      <2>2. Delivering(q)' => req'[q].n <= Len(events')
            BY <1>1, <2>1 DEF Delivering, PathInv
      <2> QED BY <2>1, <2>2 DEF PathInv
<1> QED BY <1>2 DEF PathInv

\* The gate keeps its order when one request moves, holds it only if it held it
\* or found it free, and is bound only to an executable turn.
LEMMA GateKept ==
    ASSUME TypeOK, TypeOK', PathInv, PathInv', GateInv, NEW r \in Req,
           \A q \in Req \ {r} : req'[q] = req[q],
           Holding(r)' => req'[r].kind = req[r].kind /\ (Holding(r) \/ GateFree(r)),
           Bound(r)' => Executable',
           \A q \in Req \ {r} : Bound(q) => Executable'
    PROVE  GateInv'
<1>1. \A q \in Req \ {r} : Holding(q)' = Holding(q) /\ Bound(q)' = Bound(q)
      BY DEF Holding, Bound, Delivering
<1>2. ASSUME NEW q \in Req \ {r}, Holding(r)', Holding(q)'
      PROVE  req'[r].kind \notin Exclusive /\ req'[q].kind \notin Exclusive
      <2>1. CASE Holding(r)
            BY <1>1, <1>2, <2>1 DEF GateInv
      <2>2. CASE GateFree(r)
            BY <1>1, <1>2, <2>2 DEF GateFree
      <2> QED BY <1>2, <2>1, <2>2
<1>3. \A p, q \in Req : p # q /\ Holding(p)' /\ Holding(q)' => req'[p].kind \notin Exclusive
      BY <1>1, <1>2 DEF GateInv
<1>4. \A q \in Req : Bound(q)' => Executable'
      BY <1>1
<1> QED BY <1>3, <1>4 DEF GateInv

\* A request that is not on its way to the backend changes no event.
LEMMA EventKept ==
    ASSUME EventInv, NEW r \in Req, \A q \in Req \ {r} : req'[q] = req[q],
           ~ InFlight(r)', UNCHANGED <<events, sends>>
    PROVE  EventInv'
BY DEF EventInv, InFlight

\* The inductive invariant of the requests.
TurnInv == PathInv /\ GateInv /\ EventInv

\* A request that ends, and one that moves on along its path.
LEMMA EndKeeps ==
    ASSUME TypeOK, TypeOK', TurnInv, NEW r \in Req, NEW ok \in BOOLEAN, Return(r, ok),
           UNCHANGED <<events, sends>>, \A q \in Req \ {r} : Bound(q) => Executable'
    PROVE  TurnInv'
<1>1. /\ req'[r].pc = "idle" /\ req'[r].kind = "none"
      /\ \A q \in Req \ {r} : req'[q] = req[q]
      BY StepOf
<1>2. Len(events) \in Nat /\ Len(events) <= MaxEvents
      BY LenProperties DEF TypeOK, TurnInv, PathInv
<1>3. PathInv'
      BY <1>1, <1>2, PathKept DEF TurnInv, PointsOf, Delivering
<1>4. GateInv'
      BY <1>1, <1>3, GateKept DEF TurnInv, Holding, Bound, Delivering
<1>5. EventInv'
      BY <1>1, EventKept DEF TurnInv, InFlight
<1> QED BY <1>3, <1>4, <1>5 DEF TurnInv

\* A refused request changes nothing.
LEMMA RefusedKeeps ==
    ASSUME TypeOK, TypeOK', TurnInv, NEW r \in Req, Refused(r)
    PROVE  TurnInv'
<1>1. Return(r, FALSE) /\ UNCHANGED <<events, sends>> /\ grant' = grant
      BY DEF Refused
<1>2. \A q \in Req \ {r} : Bound(q) => Executable'
      BY <1>1 DEF TurnInv, GateInv, Executable
<1> QED BY <1>1, <1>2, EndKeeps

\* A request that moves to a point of its kind keeps the invariant if it takes
\* the gate only when free and does not begin to deliver.
LEMMA MoveKeeps ==
    ASSUME TypeOK, TypeOK', TurnInv, NEW r \in Req, UNCHANGED <<events, sends>>,
           \A q \in Req \ {r} : req'[q] = req[q],
           req'[r].kind = req[r].kind, req'[r].n = req[r].n,
           req'[r].pc \in PointsOf(req[r].kind) \ {"record"}, ~ Delivering(r)',
           Holding(r)' => Holding(r) \/ GateFree(r),
           Bound(r)' => Executable', Executable => Executable'
    PROVE  TurnInv'
<1>1. Len(events) \in Nat /\ Len(events) <= MaxEvents
      BY LenProperties DEF TypeOK, TurnInv, PathInv
<1>2. req[r].kind = "event" => req[r].n \in 1 .. MaxEvents
      BY DEF TurnInv, PathInv
<1>3. PathInv'
      BY <1>1, <1>2, PathKept DEF TurnInv
<1>4. \A q \in Req \ {r} : Bound(q) => Executable'
      BY DEF TurnInv, GateInv
<1>5. GateInv'
      BY <1>3, <1>4, GateKept DEF TurnInv
<1>6. ~ InFlight(r)'
      BY DEF InFlight, Delivering
<1>7. EventInv'
      BY <1>6, EventKept DEF TurnInv
<1> QED BY <1>3, <1>5, <1>7 DEF TurnInv

\* Requests of every kind: Check is where a disclosure is authorized.
LEMMA CommonKeeps ==
    ASSUME TypeOK, TypeOK', TurnInv, NEW r \in Req,
           \/ Authorize(r) \/ Mint(r) \/ Enter(r) \/ BackendStart(r)
           \/ Proxy(r) \/ Check(r) \/ Write(r)
    PROVE  TurnInv'
<1>1. CASE Refused(r)
      BY <1>1, RefusedKeeps
<1>2. ASSUME ~ Refused(r) PROVE TurnInv'
      <2>1. UNCHANGED <<events, sends>> /\ grant' = grant
            BY <1>2 DEF Authorize, Mint, Enter, BackendStart, Proxy, Check, Write
      <2>2. Executable' = Executable
            BY <2>1 DEF Executable
      <2>3. req[r].pc \in PointsOf(req[r].kind) /\ req[r].kind \in Kinds
            BY DEF TurnInv, PathInv, TypeOK, Requests
      <2>4. CASE Enter(r)
            <3>1. req' = [req EXCEPT ![r].pc = "in", ![r].revoked = grant.revoked]
                  BY <1>2, <2>4 DEF Enter
            <3>2. /\ req'[r].pc = "in" /\ req'[r].kind = req[r].kind /\ req'[r].n = req[r].n
                  /\ \A q \in Req \ {r} : req'[q] = req[q]
                  BY <3>1 DEF TypeOK, Requests
            <3>3. req[r].pc = "gate" /\ GateFree(r) /\ Authorized(req[r].kind)
                  BY <1>2, <2>4 DEF Enter
            <3>4. Bound(r)' => Executable'
                  BY <2>2, <3>2, <3>3 DEF Bound, Delivering, Authorized
            <3>5. req'[r].pc \in PointsOf(req[r].kind) \ {"record"} /\ ~ Delivering(r)'
                  BY <2>3, <3>2, <3>3 DEF PointsOf, Delivering, Kinds
            <3> QED BY <2>1, <2>2, <3>2, <3>3, <3>4, <3>5, MoveKeeps
      <2>5. CASE Authorize(r) \/ Mint(r)
            <3>1. PICK pc \in {"mint", "gate"} : Goto(r, pc) /\ (pc = "mint" => req[r].kind = "scm")
                  BY <1>2, <2>5 DEF Authorize, Mint
            <3>2. req[r].pc \in {"new", "mint"}
                  BY <1>2, <2>5 DEF Authorize, Mint
            <3>3. /\ req'[r].pc = pc /\ req'[r].kind = req[r].kind /\ req'[r].n = req[r].n
                  /\ \A q \in Req \ {r} : req'[q] = req[q]
                  BY <3>1, StepOf DEF Points
            <3>4. req'[r].pc \in PointsOf(req[r].kind) \ {"record"}
                  BY <2>3, <3>1, <3>2, <3>3 DEF PointsOf, Kinds
            <3>5. ~ Holding(r)' /\ ~ Bound(r)' /\ ~ Delivering(r)'
                  BY <3>1, <3>3 DEF Holding, Bound, Delivering
            <3> QED BY <2>1, <2>2, <3>3, <3>4, <3>5, MoveKeeps
      <2>6. CASE BackendStart(r) \/ Proxy(r) \/ Check(r)
            <3>1. PICK pc \in {"mark", "proxied", "write"} :
                     /\ Goto(r, pc)
                     /\ pc = "mark" => req[r].kind = "start" /\ req[r].pc = "report"
                     /\ pc = "proxied" => req[r].kind = "api" /\ req[r].pc = "in"
                     /\ pc = "write" => /\ req[r].kind \in {"api", "scm"}
                                        /\ req[r].pc \in {"in", "proxied"}
                  BY <1>2, <2>6 DEF BackendStart, Proxy, Check
            <3>2. /\ req'[r].pc = pc /\ req'[r].kind = req[r].kind /\ req'[r].n = req[r].n
                  /\ \A q \in Req \ {r} : req'[q] = req[q]
                  BY <3>1, StepOf DEF Points
            <3>3. Holding(r) /\ Bound(r)
                  BY <3>1 DEF Holding, Bound
            <3>4. Executable'
                  BY <2>2, <3>3 DEF TurnInv, GateInv
            <3>5. req'[r].pc \in PointsOf(req[r].kind) \ {"record"} /\ ~ Delivering(r)'
                  BY <3>1, <3>2 DEF PointsOf, Delivering
            <3> QED BY <2>1, <2>2, <3>2, <3>3, <3>4, <3>5, MoveKeeps
      <2> QED BY <1>2, <2>4, <2>5, <2>6 DEF Write
<1> QED BY <1>1, <1>2

\* The permission keeps the grant executable; a result is recorded while
\* nobody else is inside the gate.
LEMMA StartKeeps ==
    ASSUME TypeOK, TypeOK', TurnInv, NEW r \in Req,
           Offer(r) \/ BeginStart(r) \/ MarkStarted(r) \/ ReceiveResult(r)
    PROVE  TurnInv'
<1>1. CASE Refused(r)
      BY <1>1, RefusedKeeps
<1>2. ASSUME ~ Refused(r), Offer(r) \/ BeginStart(r) PROVE TurnInv'
      <2>1. PICK pc \in {"begin", "report"} : Goto(r, pc)
            BY <1>2 DEF Offer, BeginStart
      <2>2. /\ req[r].kind = "start" /\ req[r].pc \in {"in", "begin"}
            /\ UNCHANGED <<events, sends>>
            BY <1>2 DEF Offer, BeginStart
      <2>3. \E st \in {"offered", "starting"} : grant' = [grant EXCEPT !.state = st]
            BY <1>2 DEF Offer, BeginStart
      <2>4. Executable'
            BY <2>3 DEF Executable, TypeOK, Grants
      <2>5. /\ req'[r].pc = pc /\ req'[r].kind = req[r].kind /\ req'[r].n = req[r].n
            /\ \A q \in Req \ {r} : req'[q] = req[q]
            BY <2>1, StepOf DEF Points
      <2>6. /\ req'[r].pc \in PointsOf(req[r].kind) \ {"record"} /\ ~ Delivering(r)'
            /\ Holding(r)
            BY <2>2, <2>5 DEF PointsOf, Delivering, Holding
      <2> QED BY <2>2, <2>4, <2>5, <2>6, MoveKeeps
<1>3. ASSUME ~ Refused(r), MarkStarted(r) PROVE TurnInv'
      <2>1. grant' = [grant EXCEPT !.state = "started"] /\ Return(r, TRUE) /\ UNCHANGED <<events, sends>>
            BY <1>3 DEF MarkStarted
      <2>2. Executable'
            BY <2>1 DEF Executable, TypeOK, Grants
      <2> QED BY <2>1, <2>2, EndKeeps
<1>4. ASSUME ~ Refused(r), ReceiveResult(r) PROVE TurnInv'
      <2>1. req[r].kind = "result" /\ req[r].pc = "in" /\ Return(r, TRUE) /\ UNCHANGED <<events, sends>>
            BY <1>4 DEF ReceiveResult
      <2>2. \A q \in Req \ {r} : ~ Holding(q)
            BY <2>1 DEF TurnInv, GateInv, Holding, Exclusive
      <2>3. \A q \in Req \ {r} : ~ Bound(q)
            BY <2>2 DEF Holding, Bound, Delivering
      <2> QED BY <2>1, <2>3, EndKeeps
<1> QED BY <1>1, <1>2, <1>3, <1>4

\* The requests the worker and the task's programs send.
LEMMA ClientKeeps ==
    ASSUME TypeOK, TypeOK', TurnInv, NEW r \in Req, WorkerSends(r) \/ TaskSends(r)
    PROVE  TurnInv'
<1>1. PICK kind \in Kinds \ {"none"}, n \in Nat :
         Spawn(r, kind, n) /\ (kind = "event" => n \in 1 .. MaxEvents)
      <2>1. worker.acked \in Nat /\ MaxEvents \in Nat
            BY BoundsAreNaturals DEF TypeOK, Workers
      <2>2. worker.acked < MaxEvents => worker.acked + 1 \in 1 .. MaxEvents
            BY <2>1
      <2> QED BY <2>1, <2>2 DEF WorkerSends, TaskSends, Kinds
<1>2. UNCHANGED <<events, sends, grant>>
      BY DEF WorkerSends, TaskSends
<1>3. /\ req'[r].pc = "new" /\ req'[r].kind = kind /\ req'[r].n = n
      /\ \A q \in Req \ {r} : req'[q] = req[q]
      BY <1>1, StepOf
<1>4. ~ Holding(r)' /\ ~ Bound(r)' /\ ~ Delivering(r)' /\ ~ InFlight(r)'
      BY <1>3 DEF Holding, Bound, Delivering, InFlight
<1>5. Len(events) \in Nat /\ Len(events) <= MaxEvents
      BY LenProperties DEF TypeOK, TurnInv, PathInv
<1>6. req'[r].pc \in PointsOf(req'[r].kind)
      BY <1>1, <1>3 DEF PointsOf, Kinds
<1>7. PathInv'
      BY <1>1, <1>2, <1>3, <1>4, <1>5, <1>6, PathKept DEF TurnInv
<1>8. \A q \in Req : Bound(q) => Executable'
      BY <1>2 DEF TurnInv, GateInv, Executable
<1>9. GateInv'
      BY <1>3, <1>4, <1>7, <1>8, GateKept DEF TurnInv
<1>10. EventInv'
      BY <1>2, <1>3, <1>4, EventKept DEF TurnInv
<1> QED BY <1>7, <1>9, <1>10 DEF TurnInv

\* Steps that serve no request.
LEMMA OtherKeeps ==
    ASSUME TypeOK, TurnInv,
           \/ AnswerLost \/ ProviderEnds \/ RecordTurnExecutionReceipt \/ FinishTurn
           \/ WorkerGivesUp \/ RequestStop \/ Checkout \/ StopCheckoutWrites \/ ContainerEnds
           \/ UNCHANGED vars
    PROVE  TurnInv'
<1>1. UNCHANGED <<req, events, sends>>
      BY DEF AnswerLost, ProviderEnds, RecordTurnExecutionReceipt, FinishTurn, WorkerGivesUp,
             RequestStop, Checkout, BeginOperation, BeginCheckout, HelperEnds, HelperUnproven,
             Snapshot, FinishCheckout, StopCheckoutWrites, CloseCheckouts, RecoverWriter,
             SyncTaskFilesystem, CheckoutsFlushed, ContainerEnds
<1>2. grant'.state = grant.state \/ grant.state = "received"
      <2> USE DEF TypeOK, Grants
      <2>1. CASE AnswerLost \/ ProviderEnds \/ ContainerEnds \/ UNCHANGED vars
            BY <2>1 DEF AnswerLost, ProviderEnds, ContainerEnds
      <2>2. CASE RecordTurnExecutionReceipt \/ FinishTurn
            BY <2>2 DEF RecordTurnExecutionReceipt, FinishTurn
      <2>3. CASE WorkerGivesUp \/ RequestStop
            BY <2>3 DEF WorkerGivesUp, RequestStop, RequestStopOf
      <2>4. CASE Checkout
            BY <2>4 DEF Checkout, BeginOperation, BeginCheckout, HelperEnds, HelperUnproven,
                        Snapshot, FinishCheckout
      <2>5. CASE StopCheckoutWrites
            BY <2>5 DEF StopCheckoutWrites, CloseCheckouts, RecoverWriter, SyncTaskFilesystem,
                        CheckoutsFlushed
      <2> QED BY <2>1, <2>2, <2>3, <2>4, <2>5
<1>3. Executable => Executable'
      BY <1>2 DEF Executable
<1>4. PathInv'
      BY <1>1 DEF TurnInv, PathInv, Delivering
<1>5. GateInv'
      BY <1>1, <1>3 DEF TurnInv, GateInv, Holding, Bound, Delivering
<1>6. EventInv'
      BY <1>1 DEF TurnInv, EventInv, InFlight
<1> QED BY <1>4, <1>5, <1>6 DEF TurnInv

\* An event is appended, or recognized; nothing was sent for a new one.
LEMMA ReceiveKeeps ==
    ASSUME TypeOK, TypeOK', TurnInv, NEW r \in Req, ReceiveEvent(r), ~ Refused(r)
    PROVE  TurnInv'
<1> DEFINE n == req[r].n
           known == n <= Len(events)
<1>0. n \in Nat /\ Len(events) \in Nat
      BY LenProperties DEF TypeOK, Requests
<1>1. /\ req[r].kind = "event" /\ req[r].pc = "in" /\ grant.state = "started" /\ n <= Len(events) + 1
      /\ events' = (IF known THEN events ELSE Append(events, "received"))
      /\ \/ known /\ Return(r, TRUE)
         \/ \E pc \in {"local", "forward"} : Goto(r, pc)
      /\ UNCHANGED <<grant, sends>>
      <2>1. /\ req[r].kind = "event" /\ req[r].pc = "in"
            /\ grant.state = "started" /\ ~ (n > Len(events) + 1)
            BY DEF ReceiveEvent
      <2>2. /\ events' = (IF known THEN events ELSE Append(events, "received"))
            /\ UNCHANGED <<grant, sends>>
            BY DEF ReceiveEvent
      <2>3. \/ known /\ Return(r, TRUE)
            \/ \E pc \in {"local", "forward"} : Goto(r, pc)
            BY DEF ReceiveEvent
      <2>4. n <= Len(events) + 1
            BY <1>0, <2>1
      <2> QED BY <2>1, <2>2, <2>3, <2>4
<1>2. Executable'
      BY <1>1 DEF Executable
<1>3. Len(events) \in Nat /\ Len(events) <= MaxEvents /\ n \in 1 .. MaxEvents /\ MaxEvents \in Nat
      BY <1>1, LenProperties, BoundsAreNaturals DEF TypeOK, TurnInv, PathInv
<1>4. CASE Return(r, TRUE) /\ events' = events
      BY <1>1, <1>2, <1>4, EndKeeps
<1>5. ASSUME NEW pc \in {"local", "forward"}, Goto(r, pc) PROVE TurnInv'
      <2>1. /\ req'[r].pc = pc /\ req'[r].kind = "event" /\ req'[r].n = n
            /\ \A q \in Req \ {r} : req'[q] = req[q]
            BY <1>1, <1>5, StepOf DEF Points
      <2>2. "received" \in EventStates /\ events \in Seq(EventStates)
            BY DEF EventStates, TypeOK
      <2>3. ~ known => /\ Len(events') = Len(events) + 1 /\ events'[Len(events) + 1] = "received"
                       /\ \A i \in 1 .. Len(events) : events'[i] = events[i]
            BY <1>1, <2>2, AppendProperties
      <2>4. Len(events) <= Len(events') /\ Len(events') <= MaxEvents /\ n <= Len(events')
            BY <1>1, <1>3, <2>3
      <2>5. \A i \in 1 .. Len(events) : events'[i] = events[i]
            BY <1>1, <2>3
      <2>6. \A i \in 1 .. Len(events') : i > Len(events) => events'[i] = "received"
            BY <1>1, <1>3, <2>3
      <2>7. Len(events') \in Nat
            BY LenProperties DEF TypeOK
      <2>8. PathInv'
            <3>1. req'[r].pc \in PointsOf(req'[r].kind)
                  BY <2>1 DEF PointsOf
            <3> QED BY <1>3, <2>1, <2>4, <3>1, PathKept DEF TurnInv
      <2>9. GateInv'
            <3>1. Holding(r)
                  BY <1>1 DEF Holding
            <3> QED BY <1>1, <1>2, <2>1, <2>8, <3>1, GateKept DEF TurnInv
      <2>10. \A q \in Req : InFlight(q)' => req'[q] = req[q] /\ InFlight(q) /\ req[q].n \in 1 .. Len(events)
             <3>1. ASSUME NEW q \in Req, InFlight(q)'
                   PROVE  req'[q] = req[q] /\ InFlight(q) /\ req[q].n \in 1 .. Len(events)
                   <4>1. req'[q] = req[q] /\ InFlight(q)
                         BY <2>1, <3>1 DEF InFlight
                   <4>2. Delivering(q)
                         BY <4>1 DEF InFlight, Delivering
                   <4> QED BY <4>1, <4>2, OnPath DEF TurnInv
             <3> QED BY <3>1
      <2>11. EventInv'
             <3>1. ASSUME NEW i \in 1 .. MaxEvents
                   PROVE  /\ sends'[i] <= 1
                          /\ i > Len(events') \/ events'[i] \in {"received", "local"} => sends'[i] = 0
                   <4>1. sends' = sends /\ sends[i] <= 1
                         BY <1>1 DEF TurnInv, EventInv
                   <4>2. CASE i <= Len(events)
                         BY <1>3, <2>4, <2>5, <2>7, <4>1, <4>2 DEF TurnInv, EventInv
                   <4>3. CASE i > Len(events)
                         BY <4>1, <4>3 DEF TurnInv, EventInv
                   <4> QED BY <1>3, <4>2, <4>3
             <3>2. ASSUME NEW q \in Req, InFlight(q)'
                   PROVE  /\ events'[req'[q].n] = "forwarding"
                          /\ req'[q].pc = "report" \/ req'[q].out = "received" => sends'[req'[q].n] = 0
                   BY <1>1, <2>5, <2>10, <3>2 DEF TurnInv, EventInv
             <3>3. \A p, q \in Req : p # q /\ InFlight(p)' /\ InFlight(q)' => req'[p].n # req'[q].n
                   BY <2>10 DEF TurnInv, EventInv
             <3> QED BY <3>1, <3>2, <3>3 DEF EventInv
      <2> QED BY <2>8, <2>9, <2>11 DEF TurnInv
<1> QED BY <1>1, <1>4, <1>5

\* Its delivery state advances from the one state, and in the one request, that
\* may still send it.
LEMMA ForwardKeeps ==
    ASSUME TypeOK, TypeOK', TurnInv, NEW r \in Req, ~ Refused(r),
           KeepLocal(r) \/ BeginEventForward(r) \/ EventDelivery(r)
    PROVE  TurnInv'
<1> DEFINE n == req[r].n
<1>1. req[r].pc \in {"local", "forward", "record"}
      BY DEF KeepLocal, BeginEventForward, EventDelivery
<1>2. req[r].kind = "event" /\ Delivering(r) /\ n \in 1 .. Len(events) /\ Len(events) \in Nat
      BY <1>1, OnPath DEF TurnInv, Delivering
<1>3. Len(events) <= MaxEvents /\ n \in 1 .. MaxEvents /\ MaxEvents \in Nat
      BY <1>2, BoundsAreNaturals DEF TurnInv, PathInv
<1>4. UNCHANGED <<grant, sends>>
      BY DEF KeepLocal, BeginEventForward, EventDelivery
<1>5. PICK from \in EventStates, to \in EventStates :
         /\ Deliver(n, from, to)
         /\ \/ from = "received" /\ to = "local" /\ Return(r, TRUE)
            \/ from = "received" /\ to = "forwarding" /\ Goto(r, "report")
            \/ /\ from = "forwarding" /\ to = req[r].out /\ to \notin {"none", "local", "forwarding"}
               /\ InFlight(r) /\ req[r].pc = "record" /\ \E ok \in BOOLEAN : Return(r, ok)
      <2>1. CASE KeepLocal(r)
            BY <2>1 DEF KeepLocal, EventStates
      <2>2. CASE BeginEventForward(r)
            BY <2>2 DEF BeginEventForward, EventStates
      <2>3. CASE EventDelivery(r)
            <3>1. /\ req[r].pc = "record" /\ Deliver(n, "forwarding", req[r].out)
                  /\ Return(r, req[r].out # "received")
                  BY <2>3 DEF EventDelivery
            <3>2. req[r].out \in Fates \ {"none"} /\ InFlight(r)
                  BY <1>2, <3>1 DEF TurnInv, PathInv, TypeOK, Requests, InFlight
            <3> QED BY <3>1, <3>2 DEF Fates, EventStates
      <2> QED BY <2>1, <2>2, <2>3
<1>6. events[n] = from
      BY <1>5 DEF Deliver
<1>7. /\ Len(events') = Len(events) /\ events'[n] = to
      /\ \A i \in 1 .. Len(events) : i # n => events'[i] = events[i]
      BY <1>2, <1>5, DeliverType
<1>8. /\ \A q \in Req \ {r} : req'[q] = req[q]
      /\ \/ req'[r].pc = "idle" /\ req'[r].kind = "none"
         \/ /\ to = "forwarding" /\ from = "received"
            /\ req'[r].pc = "report" /\ req'[r].kind = "event" /\ req'[r].n = n
      BY <1>2, <1>5, StepOf DEF Points
<1>9. Executable /\ Executable'
      BY <1>2, <1>4 DEF TurnInv, GateInv, Bound, Executable
<1>10. PathInv'
       <2>1. req'[r].pc \in PointsOf(req'[r].kind) /\ req'[r].pc # "record"
             BY <1>8 DEF PointsOf
       <2>2. /\ req'[r].kind = "event" => req'[r].n \in 1 .. MaxEvents
             /\ Delivering(r)' => req'[r].n <= Len(events')
             BY <1>2, <1>3, <1>7, <1>8 DEF Delivering
       <2> QED BY <1>2, <1>3, <1>7, <1>8, <2>1, <2>2, PathKept DEF TurnInv
<1>11. GateInv'
       <2>1. Holding(r)
             BY <1>1 DEF Holding
       <2>2. Holding(r)' => req'[r].kind = req[r].kind
             BY <1>2, <1>8 DEF Holding
       <2> QED BY <1>8, <1>9, <1>10, <2>1, <2>2, GateKept DEF TurnInv
<1>12. \A q \in Req \ {r} : InFlight(q)' =>
          req'[q] = req[q] /\ InFlight(q) /\ req[q].n # n /\ req[q].n \in 1 .. Len(events)
       <2>1. ASSUME NEW q \in Req \ {r}, InFlight(q)'
             PROVE  req'[q] = req[q] /\ InFlight(q) /\ req[q].n # n /\ req[q].n \in 1 .. Len(events)
             <3>1. req'[q] = req[q] /\ InFlight(q)
                   BY <1>8, <2>1 DEF InFlight
             <3>2. req[q].n \in 1 .. Len(events)
                   BY <3>1, OnPath DEF InFlight, Delivering, TurnInv
             <3>3. events[req[q].n] = "forwarding"
                   BY <3>1 DEF TurnInv, EventInv
             <3>4. InFlight(r) => req[q].n # n
                   BY <3>1 DEF TurnInv, EventInv
             <3>5. req[q].n # n
                   BY <1>5, <1>6, <3>3, <3>4
             <3> QED BY <3>1, <3>2, <3>5
       <2> QED BY <2>1
<1>13. to \in {"received", "local", "forwarding"} => sends[n] = 0
       <2>1. CASE from = "received"
             BY <1>3, <1>6, <2>1 DEF TurnInv, EventInv
       <2>2. CASE InFlight(r) /\ req[r].pc = "record" /\ to = req[r].out /\ to \notin {"local", "forwarding"}
             BY <2>2 DEF TurnInv, EventInv
       <2> QED BY <1>5, <2>1, <2>2
<1>14. EventInv'
       <2>1. ASSUME NEW i \in 1 .. MaxEvents
             PROVE  /\ sends'[i] <= 1
                    /\ i > Len(events') \/ events'[i] \in {"received", "local"} => sends'[i] = 0
             <3>1. sends' = sends /\ sends[i] <= 1
                   BY <1>4 DEF TurnInv, EventInv
             <3>2. CASE i = n
                   BY <1>2, <1>7, <1>13, <3>1, <3>2
             <3>3. CASE i # n
                   BY <1>2, <1>7, <3>1, <3>3 DEF TurnInv, EventInv
             <3> QED BY <3>2, <3>3
       <2>2. ASSUME NEW q \in Req, InFlight(q)'
             PROVE  /\ events'[req'[q].n] = "forwarding"
                    /\ req'[q].pc = "report" \/ req'[q].out = "received" => sends'[req'[q].n] = 0
             <3>1. CASE q = r
                   BY <1>4, <1>7, <1>8, <1>13, <2>2, <3>1 DEF InFlight
             <3>2. CASE q # r
                   BY <1>4, <1>7, <1>12, <2>2, <3>2 DEF TurnInv, EventInv
             <3> QED BY <3>1, <3>2
       <2>3. ASSUME NEW p \in Req, NEW q \in Req, p # q, InFlight(p)', InFlight(q)'
             PROVE  req'[p].n # req'[q].n
             <3>1. CASE p # r /\ q # r
                   BY <1>12, <2>3, <3>1 DEF TurnInv, EventInv
             <3>2. CASE p = r \/ q = r
                   BY <1>8, <1>12, <2>3, <3>2 DEF InFlight
             <3> QED BY <3>1, <3>2
       <2> QED BY <2>1, <2>2, <2>3 DEF EventInv
<1> QED BY <1>10, <1>11, <1>14 DEF TurnInv

\* Only this request reports the event, and nobody reported it before.
LEMMA ReportKeeps ==
    ASSUME TypeOK, TypeOK', TurnInv, NEW r \in Req, Report(r)
    PROVE  TurnInv'
<1> DEFINE n == req[r].n
<1>1. PICK out \in {"delivered", "uncertain", "received"} :
         /\ req' = [req EXCEPT ![r].pc = "record", ![r].out = out]
         /\ sends' = IF out = "received" THEN sends ELSE [sends EXCEPT ![n] = @ + 1]
      BY DEF Report
<1>2. req[r].kind = "event" /\ req[r].pc = "report" /\ InFlight(r) /\ Delivering(r) /\ Holding(r)
      BY DEF Report, InFlight, Delivering, Holding
<1>3. UNCHANGED <<grant, events>>
      BY DEF Report
<1>4. /\ req'[r].pc = "record" /\ req'[r].out = out /\ req'[r].kind = "event" /\ req'[r].n = n
      /\ \A q \in Req \ {r} : req'[q] = req[q]
      BY <1>1, <1>2 DEF TypeOK, Requests
<1>5. /\ Len(events) \in Nat /\ Len(events) <= MaxEvents /\ MaxEvents \in Nat
      /\ n \in 1 .. Len(events) /\ n \in 1 .. MaxEvents
      BY <1>2, OnPath, BoundsAreNaturals DEF TurnInv, PathInv
<1>6. PathInv'
      <2>1. req'[r].pc \in PointsOf(req'[r].kind) /\ req'[r].out # "none"
            BY <1>4 DEF PointsOf
      <2> QED BY <1>3, <1>4, <1>5, <2>1, PathKept DEF TurnInv
<1>7. Executable'
      BY <1>2, <1>3 DEF TurnInv, GateInv, Bound, Executable
<1>8. GateInv'
      BY <1>2, <1>4, <1>6, <1>7, GateKept DEF TurnInv
<1>9. \A q \in Req \ {r} : InFlight(q)' =>
         req'[q] = req[q] /\ InFlight(q) /\ req[q].n # n /\ req[q].n \in 1 .. MaxEvents
      <2>1. ASSUME NEW q \in Req \ {r}, InFlight(q)'
            PROVE  req'[q] = req[q] /\ InFlight(q) /\ req[q].n # n /\ req[q].n \in 1 .. MaxEvents
            <3>1. req'[q] = req[q] /\ InFlight(q)
                  BY <1>4, <2>1 DEF InFlight
            <3>2. req[q].n \in 1 .. MaxEvents /\ req[q].n # n
                  BY <1>2, <3>1 DEF TurnInv, PathInv, EventInv, InFlight
            <3> QED BY <3>1, <3>2
      <2> QED BY <2>1
<1>10. events[n] = "forwarding" /\ sends[n] = 0
       BY <1>2 DEF TurnInv, EventInv
<1>11. /\ sends'[n] = IF out = "received" THEN 0 ELSE 1
       /\ \A i \in 1 .. MaxEvents : i # n => sends'[i] = sends[i]
       <2>1. sends \in [1 .. MaxEvents -> Nat]
             BY DEF TypeOK
       <2>2. CASE out = "received"
             BY <1>1, <1>10, <2>2
       <2>3. CASE out # "received"
             <3>1. sends' = [sends EXCEPT ![n] = sends[n] + 1]
                   BY <1>1, <2>3
             <3>2. sends'[n] = sends[n] + 1 /\ \A i \in 1 .. MaxEvents : i # n => sends'[i] = sends[i]
                   BY <1>5, <2>1, <3>1
             <3> QED BY <1>10, <2>3, <3>2
       <2> QED BY <2>2, <2>3
<1>12. EventInv'
       <2>1. ASSUME NEW i \in 1 .. MaxEvents
             PROVE  /\ sends'[i] <= 1
                    /\ i > Len(events') \/ events'[i] \in {"received", "local"} => sends'[i] = 0
             <3>1. CASE i = n
                   BY <1>3, <1>5, <1>10, <1>11, <3>1
             <3>2. CASE i # n
                   BY <1>3, <1>11, <3>2 DEF TurnInv, EventInv
             <3> QED BY <3>1, <3>2
       <2>2. ASSUME NEW q \in Req, InFlight(q)'
             PROVE  /\ events'[req'[q].n] = "forwarding"
                    /\ req'[q].pc = "report" \/ req'[q].out = "received" => sends'[req'[q].n] = 0
             <3>1. CASE q = r
                   BY <1>3, <1>4, <1>10, <1>11, <3>1
             <3>2. CASE q # r
                   BY <1>3, <1>9, <1>11, <2>2, <3>2 DEF TurnInv, EventInv
             <3> QED BY <3>1, <3>2
       <2>3. ASSUME NEW p \in Req, NEW q \in Req, p # q, InFlight(p)', InFlight(q)'
             PROVE  req'[p].n # req'[q].n
             <3>1. CASE p # r /\ q # r
                   BY <1>9, <2>3, <3>1 DEF TurnInv, EventInv
             <3>2. CASE p = r \/ q = r
                   BY <1>4, <1>9, <2>3, <3>2
             <3> QED BY <3>1, <3>2
       <2> QED BY <2>1, <2>2, <2>3 DEF EventInv
<1> QED BY <1>6, <1>8, <1>12 DEF TurnInv

\* A death ends every request; what was being sent may have arrived.
LEMMA CrashKeeps == ASSUME TypeOK, TypeOK', TurnInv, Crash PROVE TurnInv'
<1>1. /\ Len(events') = Len(events)
      /\ \A n \in 1 .. Len(events) :
            events'[n] = IF events[n] = "forwarding" THEN "uncertain" ELSE events[n]
      BY CrashType
<1>2. Len(events) \in Nat /\ Len(events) <= MaxEvents /\ MaxEvents \in Nat
      BY LenProperties, BoundsAreNaturals DEF TypeOK, TurnInv, PathInv
<1>3. \A r \in Req : req'[r].pc = "idle" /\ req'[r].kind = "none"
      BY DEF Crash, NoRequest
<1>4. sends' = sends
      BY DEF Crash
<1>5. \A r \in Req : ~ Delivering(r)' /\ ~ InFlight(r)' /\ ~ Holding(r)' /\ ~ Bound(r)'
      BY <1>3 DEF Delivering, InFlight, Holding, Bound
<1>6. PathInv'
      BY <1>1, <1>2, <1>3, <1>5 DEF PathInv, PointsOf
<1>7. GateInv'
      BY <1>5 DEF GateInv
<1>8. ASSUME NEW i \in 1 .. MaxEvents
      PROVE  /\ sends'[i] <= 1
             /\ i > Len(events') \/ events'[i] \in {"received", "local"} => sends'[i] = 0
      <2>1. CASE i > Len(events)
            BY <1>4, <2>1 DEF TurnInv, EventInv
      <2>2. CASE ~ (i > Len(events))
            <3>1. i \in 1 .. Len(events)
                  BY <1>2, <2>2
            <3>2. events'[i] \in {"received", "local"} => events[i] = events'[i]
                  BY <1>1, <3>1
            <3> QED BY <1>1, <1>4, <2>2, <3>2 DEF TurnInv, EventInv
      <2> QED BY <2>1, <2>2
<1>9. EventInv'
      BY <1>5, <1>8 DEF EventInv
<1> QED BY <1>6, <1>7, <1>9 DEF TurnInv

\* No request, no event.
LEMMA TurnInit == Init => TurnInv
<1> SUFFICES ASSUME Init PROVE TurnInv
    OBVIOUS
<1>1. events = <<>> /\ Len(events) = 0
      BY DEF Init
<1>2. \A r \in Req : req[r].pc = "idle" /\ req[r].kind = "none"
      BY DEF Init, NoRequest
<1>3. \A n \in 1 .. MaxEvents : sends[n] = 0
      BY DEF Init
<1>4. PathInv
      BY <1>1, <1>2, BoundsAreNaturals DEF PathInv, PointsOf, Delivering
<1>5. GateInv
      BY <1>2 DEF GateInv, Holding, Bound, Delivering
<1>6. EventInv
      BY <1>2, <1>3 DEF EventInv, InFlight
<1> QED BY <1>4, <1>5, <1>6 DEF TurnInv

\* Every step keeps types and invariant together.
LEMMA TurnStep == TypeOK /\ TurnInv /\ [Next]_vars => TypeOK' /\ TurnInv'
<1> SUFFICES ASSUME TypeOK, TurnInv, [Next]_vars PROVE TypeOK' /\ TurnInv'
    OBVIOUS
<1>1. TypeOK'
      BY TypeStep DEF TurnInv
<1>2. ASSUME NEW r \in Req, WorkerSends(r) \/ TaskSends(r) PROVE TurnInv'
      BY <1>1, <1>2, ClientKeeps
<1>3. ASSUME NEW r \in Req, Serve(r) PROVE TurnInv'
      <2>1. CASE Refused(r)
            BY <1>1, <2>1, RefusedKeeps
      <2>2. CASE \/ Authorize(r) \/ Mint(r) \/ Enter(r) \/ BackendStart(r)
                 \/ Proxy(r) \/ Check(r) \/ Write(r)
            BY <1>1, <2>2, CommonKeeps
      <2>3. CASE Offer(r) \/ BeginStart(r) \/ MarkStarted(r) \/ ReceiveResult(r)
            BY <1>1, <2>3, StartKeeps
      <2>4. CASE Report(r)
            BY <1>1, <2>4, ReportKeeps
      <2>5. CASE ~ Refused(r) /\ ReceiveEvent(r)
            BY <1>1, <2>5, ReceiveKeeps
      <2>6. CASE ~ Refused(r) /\ (KeepLocal(r) \/ BeginEventForward(r) \/ EventDelivery(r))
            BY <1>1, <2>6, ForwardKeeps
      <2> QED BY <1>3, <2>1, <2>2, <2>3, <2>4, <2>5, <2>6 DEF Serve
<1>4. ASSUME Crash PROVE TurnInv'
      BY <1>1, <1>4, CrashKeeps
<1> QED BY <1>1, <1>2, <1>3, <1>4, OtherKeeps DEF Next

\* The inductive invariant of a turn's requests: exclusion by the gate and the
\* delivery state of every event.
THEOREM TurnInvariant == Spec => [](TypeOK /\ TurnInv)
<1>1. TypeOK /\ TurnInv /\ [Next]_vars => (TypeOK /\ TurnInv)'
      BY TurnStep
<1> QED BY <1>1, TypeInit, TurnInit, PTL DEF Spec

\* However often the worker repeats an event, and wherever the controller dies,
\* the backend gets it from one request at most (receiveEvent, EventDelivery).
THEOREM EventSafe == Spec => []EventSentOnce
<1>1. TypeOK /\ TurnInv => EventSentOnce
      BY DEF TurnInv, EventInv, EventSentOnce
<1> QED BY <1>1, TurnInvariant, PTL

\* The result is recorded after every request that reaches out for the task, or
\* answers it, has left the gate (receiveResult, authorizedResponse, scmGrant).
THEOREM ResultSafe == Spec => []NothingAfterResult
<1>1. ASSUME TypeOK, TurnInv PROVE NothingAfterResult
      <2>1. ASSUME NEW r \in Req, req[r].pc \in {"forward", "report", "proxied", "write"}
            PROVE  grant.state \notin {"received", "closed"}
            <3>1. Bound(r)
                  BY <1>1, <2>1, OnPath DEF TurnInv, Bound, Delivering
            <3> QED BY <1>1, <3>1 DEF TurnInv, GateInv, Executable
      <2> QED BY <2>1 DEF NothingAfterResult
<1> QED BY <1>1, TurnInvariant, PTL

-----------------------------------------------------------------------------
(* Checkouts                                                               *)

\* A process of a checkout is one the journal records, in a container that has
\* not ended; the operation at work is this container's.
WriterKnown ==
    /\ grant.process <= incarnation /\ \A i \in ended : i < incarnation
    /\ helper \subseteq {grant.process} \ ({0} \cup ended)
    /\ op.pc \in {"none", "begun"} => op.process = 0
    /\ op.pc \notin {"none", "begun"} => op.process = incarnation /\ grant.process = incarnation

\* The operation that answers left nothing running unless it says so.
ProcessesEnd ==
    /\ op.unproven => op.pc = "answer"
    /\ op.pc \in {"snapshot", "answer"} /\ ~ op.unproven => incarnation \notin helper

\* What is to be synced is recorded before it is written, and the fence passes
\* its points in order.
FenceHolds ==
    /\ grant.process # 0 \/ dirty => grant.flush
    /\ fence # "idle" => grant.closed
    /\ fence \in {"sync", "flushed"} => grant.process = 0
    /\ fence = "flushed" => ~ dirty

CheckoutInv == WriterKnown /\ ProcessesEnd /\ FenceHolds

\* What the other steps do to a checkout: they may cancel it, and close.
LEMMA CheckoutKept ==
    ASSUME TypeOK, CheckoutInv, UNCHANGED <<helper, dirty, fence, incarnation, ended>>,
           grant'.process = grant.process, grant'.flush = grant.flush, grant.closed => grant'.closed,
           op' = op \/ op' = [op EXCEPT !.cancelled = @ \/ op # NoOp]
    PROVE  CheckoutInv'
<1>1. op'.pc = op.pc /\ op'.process = op.process /\ op'.unproven = op.unproven
      BY DEF TypeOK, CheckoutOps
<1>2. WriterKnown'
      BY <1>1 DEF CheckoutInv, WriterKnown
<1>3. ProcessesEnd'
      BY <1>1 DEF CheckoutInv, ProcessesEnd
<1>4. FenceHolds'
      BY DEF CheckoutInv, FenceHolds
<1> QED BY <1>2, <1>3, <1>4 DEF CheckoutInv

\* Handlers of other requests leave the checkout writers alone.
LEMMA RequestKeepsCheckout ==
    ASSUME TypeOK, CheckoutInv, NEW r \in Req, WorkerSends(r) \/ TaskSends(r) \/ Serve(r)
    PROVE  CheckoutInv'
<1> USE DEF TypeOK, Grants
<1>1. CASE Refused(r)
      BY <1>1, CheckoutKept DEF Refused
<1>2. CASE WorkerSends(r) \/ TaskSends(r)
      BY <1>2, CheckoutKept DEF WorkerSends, TaskSends
<1>3. ASSUME ~ Refused(r),
             \/ Authorize(r) \/ Mint(r) \/ Enter(r) \/ BackendStart(r)
             \/ Proxy(r) \/ Check(r) \/ Write(r)
      PROVE  CheckoutInv'
      <2>1. UNCHANGED <<grant, checkoutVars, containerVars>>
            BY <1>3 DEF Authorize, Mint, Enter, BackendStart, Proxy, Check, Write
      <2> QED BY <2>1, CheckoutKept
<1>4. ASSUME ~ Refused(r), Offer(r) \/ BeginStart(r) \/ MarkStarted(r) PROVE CheckoutInv'
      <2>1. \E st \in {"offered", "starting", "started"} : grant' = [grant EXCEPT !.state = st]
            BY <1>4 DEF Offer, BeginStart, MarkStarted
      <2>2. UNCHANGED <<checkoutVars, containerVars>>
            BY <1>4 DEF Offer, BeginStart, MarkStarted
      <2> QED BY <2>1, <2>2, CheckoutKept
<1>5. ASSUME ~ Refused(r), ReceiveResult(r) PROVE CheckoutInv'
      <2>1. /\ grant' = [grant EXCEPT !.state = "received"]
            /\ op' = [op EXCEPT !.cancelled = @ \/ op # NoOp]
            /\ UNCHANGED <<helper, dirty, fence, containerVars>>
            BY <1>5 DEF ReceiveResult
      <2> QED BY <2>1, CheckoutKept
<1>6. ASSUME ~ Refused(r),
             ReceiveEvent(r) \/ KeepLocal(r) \/ BeginEventForward(r) \/ Report(r) \/ EventDelivery(r)
      PROVE  CheckoutInv'
      <2>1. UNCHANGED <<grant, checkoutVars, containerVars>>
            BY <1>6 DEF ReceiveEvent, KeepLocal, BeginEventForward, Report, EventDelivery
      <2> QED BY <2>1, CheckoutKept
<1> QED BY <1>1, <1>2, <1>3, <1>4, <1>5, <1>6 DEF Serve

\* So do the steps of the turn.
LEMMA TurnKeepsCheckout ==
    ASSUME TypeOK, CheckoutInv,
           \/ AnswerLost \/ ProviderEnds \/ RecordTurnExecutionReceipt \/ FinishTurn
           \/ WorkerGivesUp \/ RequestStop
    PROVE  CheckoutInv'
<1> USE DEF TypeOK, Grants
<1>1. CASE AnswerLost \/ ProviderEnds
      BY <1>1, CheckoutKept DEF AnswerLost, ProviderEnds
<1>2. CASE RecordTurnExecutionReceipt
      BY <1>2, CheckoutKept DEF RecordTurnExecutionReceipt
<1>3. CASE FinishTurn
      <2>1. /\ grant' = RequestStopOf(grant) \/ grant' = [grant EXCEPT !.state = "closed"]
            /\ UNCHANGED <<checkoutVars, containerVars>>
            BY <1>3 DEF FinishTurn
      <2> QED BY <2>1, CheckoutKept DEF RequestStopOf
<1>4. CASE WorkerGivesUp \/ RequestStop
      BY <1>4, CheckoutKept DEF WorkerGivesUp, RequestStop, RequestStopOf
<1> QED BY <1>1, <1>2, <1>3, <1>4

\* A checkout's own steps register its writer before it writes and sync after
\* it ended.
LEMMA OperationKeeps == ASSUME TypeOK, CheckoutInv, Checkout PROVE CheckoutInv'
<1> USE DEF TypeOK, Grants, CheckoutOps, CheckoutInv, WriterKnown, ProcessesEnd, FenceHolds
<1>1. CASE BeginOperation
      BY <1>1 DEF BeginOperation, NoOp
<1>2. CASE BeginCheckout
      <2>1. /\ grant.process = 0 /\ ~ grant.closed
            /\ grant' = [grant EXCEPT !.process = incarnation, !.flush = TRUE]
            /\ op' = [op EXCEPT !.pc = "retaining", !.process = incarnation]
            /\ helper' = helper \cup {incarnation}
            /\ UNCHANGED <<fence, incarnation, ended>>
            BY <1>2 DEF BeginCheckout, MayCheckout
      <2>2. op.pc = "begun" /\ ~ op.unproven
            BY <1>2 DEF BeginCheckout
      <2>3. /\ grant'.process = incarnation /\ grant'.flush /\ grant'.closed = grant.closed
            /\ op'.pc = "retaining" /\ op'.process = incarnation /\ op'.unproven = op.unproven
            BY <2>1
      <2>4. helper' = {incarnation} /\ incarnation \notin {0} \cup ended
            BY <2>1
      <2>5. WriterKnown'
            BY <2>1, <2>3, <2>4
      <2>6. ProcessesEnd'
            BY <2>2, <2>3
      <2>7. FenceHolds'
            BY <2>1, <2>3
      <2> QED BY <2>5, <2>6, <2>7
<1>3. CASE HelperEnds
      BY <1>3 DEF HelperEnds
<1>4. CASE HelperUnproven
      BY <1>4 DEF HelperUnproven
<1>5. CASE Snapshot
      BY <1>5 DEF Snapshot
<1>6. CASE FinishCheckout
      BY <1>6 DEF FinishCheckout, NoOp
<1> QED BY <1>1, <1>2, <1>3, <1>4, <1>5, <1>6 DEF Checkout

\* The fence joins or recovers every writer before it says so.
LEMMA FenceKeeps ==
    ASSUME TypeOK, CheckoutInv, StopCheckoutWrites \/ Crash \/ ContainerEnds
    PROVE  CheckoutInv'
<1> USE DEF TypeOK, Grants, CheckoutOps, CheckoutInv, WriterKnown, ProcessesEnd, FenceHolds
<1>1. CASE CloseCheckouts
      BY <1>1 DEF CloseCheckouts, NoOp
<1>2. CASE RecoverWriter
      BY <1>2 DEF RecoverWriter, NoOp
<1>3. CASE SyncTaskFilesystem
      BY <1>3 DEF SyncTaskFilesystem
<1>4. CASE CheckoutsFlushed
      BY <1>4 DEF CheckoutsFlushed
<1>5. CASE Crash
      BY <1>5 DEF Crash, NoOp
<1>6. CASE ContainerEnds
      BY <1>6 DEF ContainerEnds
<1> QED BY <1>1, <1>2, <1>3, <1>4, <1>5, <1>6 DEF StopCheckoutWrites

\* Nothing is checked out at first.
LEMMA CheckoutInit == Init => CheckoutInv
<1> SUFFICES ASSUME Init PROVE CheckoutInv
    OBVIOUS
<1>1. /\ grant.process = 0 /\ op = NoOp /\ helper = {} /\ dirty = FALSE /\ fence = "idle"
      /\ incarnation = 1 /\ ended = {}
      BY DEF Init
<1>2. op.pc = "none" /\ op.process = 0 /\ op.unproven = FALSE
      BY <1>1 DEF NoOp
<1> QED BY <1>1, <1>2 DEF CheckoutInv, WriterKnown, ProcessesEnd, FenceHolds

\* The inductive invariant of checkouts and their fence.
THEOREM CheckoutInvariant == Spec => []CheckoutInv
<1>1. ASSUME TypeOK, CheckoutInv, UNCHANGED vars PROVE CheckoutInv'
      BY <1>1, CheckoutKept
<1>2. TypeOK /\ CheckoutInv /\ [Next]_vars => CheckoutInv'
      BY <1>1, RequestKeepsCheckout, TurnKeepsCheckout, OperationKeeps, FenceKeeps DEF Next
<1>3. TypeOK /\ TurnInv => TypeOK
      OBVIOUS
<1> QED BY <1>2, <1>3, CheckoutInit, TurnInvariant, PTL DEF Spec

\* A fence that reported completion left no process at work and nothing to
\* sync (stopCheckoutWrites, recoverCheckoutWriter, finishCheckout).
THEOREM SealedSafe == Spec => []CheckoutsSealed
<1>1. CheckoutInv => CheckoutsSealed
      BY DEF CheckoutInv, WriterKnown, FenceHolds, CheckoutsSealed
<1> QED BY <1>1, CheckoutInvariant, PTL
=============================================================================
