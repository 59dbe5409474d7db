-------------------------- MODULE SupervisorProofs --------------------------
(***************************************************************************)
(* The receipts of a worker session's supervisor, for any number of turns  *)
(* and controller deaths: what the journal accepted the worker did, and    *)
(* what a receipt says has ended, whichever copy of a signed request is    *)
(* served, whenever.                                                       *)
(***************************************************************************)
EXTENDS WorkerSupervisor, TLAPS

USE BoundsAreNaturals DEF journalVars, controllerVars, workerVars, podVars, vars

-----------------------------------------------------------------------------
(* The inductive invariant                                                 *)

SessionStates == {"creating", "idle", "reserved", "running", "finishing", "draining"}
GrantStates == {"none", "intent", "assigned", "ready", "started", "received", "closed"}
Phases == {"enroll", "poll", "accept", "accepting", "attempt", "start", "launch", "running",
           "settle", "receipt", "reporting", "final", "stopping", "fencing", "closing", "seal",
           "sealing", "ended"}

Sessions == [state : SessionStates, key : BOOLEAN, turn : 0 .. MaxTurns, active : 0 .. MaxTurns,
             last : 0 .. MaxTurns, complete : 0 .. MaxTurns, stop : BOOLEAN,
             stopActive : 0 .. MaxTurns, asked : BOOLEAN, fenced : BOOLEAN,
             receipt : {"none", "clean", "unclean"}]
Grants == [state : GrantStates, revoked : BOOLEAN, accepted : BOOLEAN, closed : BOOLEAN,
           receipt : BOOLEAN]
Requests == [op : Operations, turn : 0 .. MaxTurns, attempt : 0 .. MaxTurns, body : Nat]
Workers == [pc : Phases, cancelled : BOOLEAN, sequence : 0 .. MaxTurns, completed : 0 .. MaxTurns,
            settled : 0 .. MaxTurns, proof : Requests \cup {NoChallenge}, result : BOOLEAN,
            interrupted : BOOLEAN, requests : {"open", "stopped", "failed"},
            writers : {"open", "stopped", "failed"}, report : {"none", "sealed", "failed"},
            stop : BOOLEAN]
Pods == [task : BOOLEAN, desktop : BOOLEAN, private : BOOLEAN, relay : BOOLEAN,
         request : BOOLEAN]
Bindings == [turn : 0 .. MaxTurns, active : 0 .. MaxTurns, last : 0 .. MaxTurns,
             state : SessionStates, complete : 0 .. MaxTurns, stop : BOOLEAN]
Polls == {NoPoll} \cup [phase : {"read"}, seen : Bindings]
                  \cup [phase : {"answered"}, seen : Bindings, assignment : BOOLEAN]

\* The types of the journal, of the requests and of the worker.
TypeOK ==
    /\ session \in Sessions /\ grant \in [Turns -> Grants]
    /\ sent \subseteq Requests
    /\ worker \in Workers /\ poll \in Polls
    /\ pod \in Pods /\ checkout \in {"none", "sent", "running"}

\* The worker is never ahead of the journal; a turn that is not the active
\* one has not begun or is over; and a stop leaves no authority behind.
JournalInv ==
    /\ session.active \in {0, session.turn}
    /\ worker.sequence <= session.turn
    /\ poll # NoPoll => poll.seen.turn <= session.turn
    /\ \A n \in Turns : n # session.active =>
          grant[n].state = "none" \/ (grant[n].state = "closed" /\ grant[n].revoked)
    /\ session.stop => \A n \in Turns : grant[n].state = "none" \/ grant[n].revoked
    /\ session.stop /\ session.stopActive = 0 => session.active = 0
    /\ session.fenced => session.stop

\* The worker signed the end of turn n, or a clean end of the session.
Reported(n) == \E m \in sent : m.op = "turn-receipt" /\ m.body = n
SealedClean == \E m \in sent : m.op = "stop-receipt" /\ m.body = 1

\* What the worker signed it had reached, and the journal only takes over
\* what it signed.
SignedInv ==
    /\ \A m \in sent : m.op \in {"accept", "turn-receipt"} =>
          m.body \in Turns /\ m.body <= worker.sequence
    /\ worker.pc = "accepting" =>
          worker.proof.op = "accept" /\ worker.proof.body = worker.sequence
    /\ worker.pc = "reporting" => Reported(worker.sequence)
    /\ \A n \in Turns : grant[n].accepted => n <= worker.sequence
    /\ \A n \in Turns : grant[n].receipt => Reported(n)
    /\ session.receipt = "clean" => SealedClean

\* A turn of the worker, from its assignment to its receipt.
InTurn == worker.pc \in {"accept", "accepting", "attempt", "start", "launch", "running",
                         "settle", "receipt", "reporting"}

\* What runs belongs to the turn the worker carries, and a turn's journal
\* goes on only when the worker does.
ExecutionInv ==
    /\ Executing \/ pod.task => grant[worker.sequence].accepted
    /\ worker.pc \in {"enroll", "poll", "accept", "accepting"} => ~pod.task
    /\ InTurn \/ pod.task \/ checkout # "none" => worker.sequence # 0
    /\ worker.pc = "enroll" => worker.sequence = 0
    /\ worker.pc = "poll" => worker.sequence = 0 \/ Reported(worker.sequence)
    /\ \A n \in Turns : grant[n].state \in {"ready", "started", "received", "closed"} =>
          /\ n <= worker.sequence
          /\ n = worker.sequence => worker.pc \notin {"accept", "accepting", "attempt"}
    /\ checkout = "running" =>
          /\ session.active = worker.sequence
          /\ worker.pc \notin {"enroll", "poll", "accept", "accepting"}

\* Nothing of the turn is left, and no checkout of it can begin.
TurnQuiet ==
    /\ ~pod.task /\ ~pod.relay /\ ~pod.request /\ ~pod.private
    /\ checkout # "running" /\ grant[worker.sequence].closed

\* The phases of a turn before its cleanup.
BeforeSettle == {"accept", "accepting", "attempt", "start", "launch", "running"}

\* Each part of the cleanup keeps what it established until the receipt.
SettleInv ==
    /\ worker.pc \in BeforeSettle => worker.requests = "open" /\ worker.writers = "open"
    /\ worker.pc = "settle" /\ worker.requests = "stopped" =>
          /\ ~pod.relay /\ ~pod.request
          /\ checkout # "running" /\ grant[worker.sequence].closed
    /\ worker.pc = "settle" /\ worker.writers = "stopped" => ~pod.task
    /\ worker.pc = "receipt" => TurnQuiet
    /\ Reported(worker.sequence) =>
          /\ TurnQuiet
          /\ worker.pc \in {"reporting", "poll", "final", "stopping", "fencing", "closing",
                            "seal", "sealing", "ended"}

\* Nothing runs in the Pod.
PodQuiet == ~pod.task /\ ~pod.desktop /\ ~pod.private /\ ~pod.relay /\ ~pod.request

\* The final stop: the fence begins without requests, and a clean receipt is
\* signed for a quiet Pod of a fenced session.
FinalInv ==
    /\ worker.pc \in {"final", "stopping", "fencing", "closing"} /\ worker.writers = "stopped" =>
          ~pod.task /\ ~pod.desktop
    /\ worker.pc \in {"stopping", "fencing"} => ~pod.relay /\ ~pod.request
    /\ worker.pc = "closing" /\ worker.requests = "stopped" =>
          ~pod.relay /\ ~pod.request /\ session.fenced
    /\ worker.pc = "seal" /\ worker.result => PodQuiet /\ session.fenced
    /\ SealedClean => PodQuiet /\ session.fenced /\ worker.pc \in {"sealing", "ended"}
    /\ session.fenced => checkout # "running"

SupervisorInv == JournalInv /\ SignedInv /\ ExecutionInv /\ SettleInv /\ FinalInv

-----------------------------------------------------------------------------
(* Types                                                                   *)

\* What the supervisor starts with.
LEMMA TypeInit == Init => TypeOK
<1> SUFFICES ASSUME Init PROVE TypeOK
  OBVIOUS
<1>1. session \in Sessions
  BY DEF Init, Sessions, SessionStates
<1>2. grant \in [Turns -> Grants]
  BY DEF Init, Grants, GrantStates
<1>3. worker \in Workers
  BY DEF Init, Workers, Phases
<1>4. poll \in Polls
  BY DEF Init, Polls
<1>5. pod \in Pods
  BY DEF Init, Pods, NoProcesses
<1> QED
  BY <1>1, <1>2, <1>3, <1>4, <1>5 DEF Init, TypeOK

\* A request carries the identities of the journal.
LEMMA ChallengeTyped ==
    ASSUME TypeOK, NEW op \in Operations, NEW body \in Nat, NEW next \in Phases,
           CreateChallenge(op, body, next)
    PROVE  sent' \subseteq Requests /\ worker' \in Workers
<1> DEFINE c == [op |-> op, turn |-> session.turn, attempt |-> ChallengeAttempt(op), body |-> body]
<1>1. ChallengeAttempt(op) \in 0 .. MaxTurns /\ session.turn \in 0 .. MaxTurns
  BY DEF ChallengeAttempt, TypeOK, Sessions
<1>2. c \in Requests
  BY <1>1 DEF Requests
<1>3. sent' = sent \cup {c} /\ worker' = [worker EXCEPT !.pc = next, !.proof = c]
  BY DEF CreateChallenge
<1> HIDE DEF c
<1>4. worker' \in Workers
  BY <1>2, <1>3 DEF TypeOK, Workers
<1> QED
  BY <1>2, <1>3, <1>4 DEF TypeOK

\* What a stop does to the records.
LEMMA StopTyped ==
    ASSUME TypeOK
    PROVE  StopOf(session) \in Sessions /\ RevokedBy(grant, session) \in [Turns -> Grants]
<1>1. StopOf(session) \in Sessions
  BY DEF StopOf, TypeOK, Sessions, SessionStates
<1>2. RevokedBy(grant, session) \in [Turns -> Grants]
  BY DEF RevokedBy, TypeOK, Grants
<1> QED
  BY <1>1, <1>2

\* What an accepted request does to them.
LEMMA CommitTyped ==
    ASSUME TypeOK, NEW m \in sent, Commit(m)
    PROVE  session' \in Sessions /\ grant' \in [Turns -> Grants]
<1>1. m.op \in Operations
  BY DEF TypeOK, Requests
<1>2. [StopOf(session) EXCEPT !.asked = TRUE] \in Sessions
  BY StopTyped DEF Sessions
<1>3. [session EXCEPT !.state = "finishing"] \in Sessions
  BY DEF TypeOK, Sessions, SessionStates
<1>4. \A r \in {"clean", "unclean"} : [session EXCEPT !.receipt = r] \in Sessions
  BY DEF TypeOK, Sessions
<1>5. session' \in Sessions
  BY <1>1, <1>2, <1>3, <1>4 DEF Commit, Operations, TypeOK
<1>6. [grant EXCEPT ![session.active].accepted = TRUE] \in [Turns -> Grants]
  BY DEF TypeOK, Grants
<1>7. [grant EXCEPT ![m.body].receipt = TRUE, ![m.body].revoked = TRUE] \in [Turns -> Grants]
  BY DEF TypeOK, Grants
<1>8. grant' \in [Turns -> Grants]
  BY <1>1, <1>6, <1>7, StopTyped DEF Commit, Operations, TypeOK
<1> QED
  BY <1>5, <1>8

\* The phases in which the worker waits for an answer.
Waiting == worker.pc \in {"accepting", "reporting", "stopping", "sealing"}

\* What the worker does with an answer.
LEMMA HearTyped ==
    ASSUME TypeOK, Waiting, NEW ok \in BOOLEAN, Hear(ok)
    PROVE  worker' \in Workers
<1>1. Final(worker) \in Workers
  BY DEF Final, TypeOK, Workers, Phases
<1>2. [worker EXCEPT !.pc = "attempt"] \in Workers /\ [worker EXCEPT !.pc = "ended"] \in Workers
      /\ [worker EXCEPT !.pc = "poll", !.completed = worker.sequence] \in Workers
      /\ [worker EXCEPT !.pc = "fencing", !.stop = TRUE] \in Workers
      /\ [worker EXCEPT !.pc = "closing", !.requests = "failed"] \in Workers
  BY DEF TypeOK, Workers, Phases
<1> QED
  BY <1>1, <1>2 DEF Hear, Waiting

\* The final stop starts its cleanup anew.
LEMMA FinalTyped == \A w \in Workers : Final(w) \in Workers
<1> SUFFICES ASSUME NEW w \in Workers PROVE Final(w) \in Workers
  OBVIOUS
<1> QED
  BY DEF Final, Workers, Phases

\* Every step keeps the types.
LEMMA TypeStep == TypeOK /\ [Next]_vars => TypeOK'
<1> SUFFICES ASSUME TypeOK, [Next]_vars PROVE TypeOK'
  OBVIOUS
<1> USE DEF TypeOK
<1>1. CASE ReserveTurn
  <2>1. session' \in Sessions
    <3>1. \A n \in 0 .. MaxTurns, s \in SessionStates :
            [session EXCEPT !.turn = n, !.active = n, !.state = s] \in Sessions
      BY DEF Sessions
    <3>2. session.turn + 1 \in 0 .. MaxTurns /\ session.state \in SessionStates
      BY <1>1 DEF ReserveTurn, Sessions
    <3>3. "reserved" \in SessionStates
      BY DEF SessionStates
    <3>4. session' = [session EXCEPT !.turn = session.turn + 1, !.active = session.turn + 1,
                        !.state = IF session.state = "idle" THEN "reserved" ELSE session.state]
      BY <1>1 DEF ReserveTurn
    <3> QED
      BY <3>1, <3>2, <3>3, <3>4
  <2>2. grant' \in [Turns -> Grants]
    BY <1>1 DEF ReserveTurn, Grants, GrantStates
  <2> QED
    BY <1>1, <2>1, <2>2 DEF ReserveTurn
<1>2. CASE PublishTurn
  <2>1. session' \in Sessions
    BY <1>2 DEF PublishTurn, Sessions, SessionStates
  <2>2. grant' \in [Turns -> Grants]
    BY <1>2 DEF PublishTurn, Grants, GrantStates
  <2> QED
    BY <1>2, <2>1, <2>2 DEF PublishTurn
<1>3. CASE RequestSessionStop
  <2>1. session' \in Sessions
    BY <1>3, StopTyped DEF RequestSessionStop
  <2>2. grant' \in [Turns -> Grants]
    BY <1>3, StopTyped DEF RequestSessionStop
  <2> QED
    BY <1>3, <2>1, <2>2 DEF RequestSessionStop
<1>4. CASE CompleteTurn
  <2>1. session' \in Sessions
    <3>1. \A n \in 0 .. MaxTurns, s \in SessionStates :
            [session EXCEPT !.active = 0, !.complete = n, !.state = s] \in Sessions
      <4> SUFFICES ASSUME NEW n \in 0 .. MaxTurns, NEW s \in SessionStates
                   PROVE  [session EXCEPT !.active = 0, !.complete = n, !.state = s] \in Sessions
        OBVIOUS
      <4>1. 0 \in 0 .. MaxTurns
        OBVIOUS
      <4> QED
        BY <4>1 DEF Sessions
    <3>2. session.active \in 0 .. MaxTurns /\ session.state \in SessionStates
      BY DEF Sessions
    <3> QED
      BY <1>4, <3>1, <3>2 DEF CompleteTurn, SessionStates
  <2>2. grant' \in [Turns -> Grants]
    BY <1>4 DEF CompleteTurn, Grants, GrantStates
  <2> QED
    BY <1>4, <2>1, <2>2 DEF CompleteTurn
<1>5. CASE CloseCheckouts
  <2>1. grant' \in [Turns -> Grants]
    BY <1>5 DEF CloseCheckouts, Grants, GrantStates
  <2> QED
    BY <1>5, <2>1 DEF CloseCheckouts
<1>6. CASE RecordSessionControllerFlush
  <2>1. session' \in Sessions
    BY <1>6 DEF RecordSessionControllerFlush, Sessions, SessionStates
  <2> QED
    BY <1>6, <2>1 DEF RecordSessionControllerFlush
<1>7. CASE Checkout
  BY <1>7 DEF Checkout
<1>8. CASE Crash
  <2>1. poll' \in Polls
    BY <1>8 DEF Crash, Polls, NoPoll
  <2> QED
    BY <1>8, <2>1 DEF Crash
<1>9. CASE SignAcceptance
  <2>1. "accept" \in Operations /\ "accepting" \in Phases /\ (worker.sequence) \in Nat
    BY DEF Operations, Phases, Workers
  <2>2. CreateChallenge("accept", worker.sequence, "accepting")
    BY <1>9 DEF SignAcceptance
  <2>3. sent' \subseteq Requests /\ worker' \in Workers
    BY <2>1, <2>2, ChallengeTyped
  <2> QED
    BY <2>2, <2>3 DEF CreateChallenge
<1>10. CASE Prepare
  <2>1. grant' \in [Turns -> Grants]
    BY <1>10 DEF Prepare, Grants, GrantStates
  <2>2. worker' \in Workers
    BY <1>10 DEF Prepare, Workers, Phases, Final
  <2>3. pod' \in Pods
    BY <1>10 DEF Prepare, Pods, NoProcesses
  <2> QED
    BY <1>10, <2>1, <2>2, <2>3 DEF Prepare
<1>11. CASE Start
  <2>1. session' \in Sessions
    BY <1>11 DEF Start, Sessions, SessionStates
  <2>2. grant' \in [Turns -> Grants]
    BY <1>11 DEF Start, Grants, GrantStates
  <2>3. worker' \in Workers
    BY <1>11 DEF Start, Workers, Phases, Final
  <2> QED
    BY <1>11, <2>1, <2>2, <2>3 DEF Start
<1>12. CASE Launch
  <2>1. worker' \in Workers
    <3>1. \A pc \in {"settle", "running"} :
            [worker EXCEPT !.pc = pc, !.interrupted = worker.cancelled] \in Workers
      BY DEF Workers, Phases
    <3> QED
      BY <1>12, <3>1 DEF Launch
  <2>2. pod' \in Pods
    BY <1>12 DEF Launch, Pods, NoProcesses
  <2> QED
    BY <1>12, <2>1, <2>2 DEF Launch
<1>13. CASE ProviderEnds
  <2>1. worker' \in Workers
    BY <1>13 DEF ProviderEnds, Workers, Phases, Final
  <2> QED
    BY <1>13, <2>1 DEF ProviderEnds
<1>14. CASE CheckoutStop
  <2>1. grant' \in [Turns -> Grants]
    BY <1>14 DEF CheckoutStop, Grants, GrantStates
  <2>2. worker' \in Workers
    BY <1>14 DEF CheckoutStop, Workers, Phases, Final
  <2> QED
    BY <1>14, <2>1, <2>2 DEF CheckoutStop
<1>15. CASE ReportResult
  <2>1. grant' \in [Turns -> Grants]
    BY <1>15 DEF ReportResult, Grants, GrantStates
  <2>2. worker' \in Workers
    BY <1>15 DEF ReportResult, Workers, Phases, Final
  <2> QED
    BY <1>15, <2>1, <2>2 DEF ReportResult
<1>16. CASE Settle
  <2>1. worker' \in Workers
    <3>1. [worker EXCEPT !.pc = "receipt"] \in Workers
      BY DEF Workers, Phases
    <3> QED
      BY <1>16, <3>1, FinalTyped DEF Settle
  <2>2. pod' \in Pods
    BY <1>16 DEF Settle, Pods, NoProcesses
  <2> QED
    BY <1>16, <2>1, <2>2 DEF Settle
<1>17. CASE SignTurnReceipt
  <2>1. "turn-receipt" \in Operations /\ "reporting" \in Phases /\ (worker.sequence) \in Nat
    BY DEF Operations, Phases, Workers
  <2>2. CreateChallenge("turn-receipt", worker.sequence, "reporting")
    BY <1>17 DEF SignTurnReceipt
  <2>3. sent' \subseteq Requests /\ worker' \in Workers
    BY <2>1, <2>2, ChallengeTyped
  <2> QED
    BY <2>2, <2>3 DEF CreateChallenge
<1>18. CASE BeginFence
  <2>1. "stop-request" \in Operations /\ "stopping" \in Phases /\ (0) \in Nat
    BY DEF Operations, Phases, Workers
  <2>2. CASE worker.stop
    <3>1. worker' \in Workers
      BY <1>18, <2>2 DEF BeginFence, Workers, Phases
    <3> QED
      BY <1>18, <2>2, <3>1 DEF BeginFence
  <2>3. CASE ~worker.stop
    <3>1. CreateChallenge("stop-request", 0, "stopping")
      BY <1>18, <2>3 DEF BeginFence
    <3>2. sent' \subseteq Requests /\ worker' \in Workers
      BY <2>1, <3>1, ChallengeTyped
    <3> QED
      BY <3>1, <3>2 DEF CreateChallenge
  <2> QED
    BY <2>2, <2>3
<1>19. CASE Fenced
  <2>1. worker' \in Workers
    BY <1>19 DEF Fenced, Workers, Phases, Final
  <2> QED
    BY <1>19, <2>1 DEF Fenced
<1>20. CASE CloseSession
  <2>1. worker' \in Workers
    <3>1. \A pc \in {"seal", "ended"}, clean \in BOOLEAN :
            [worker EXCEPT !.pc = pc, !.result = clean] \in Workers
      BY DEF Workers, Phases
    <3> QED
      BY <1>20, <3>1 DEF CloseSession
  <2>2. pod' \in Pods
    BY <1>20 DEF CloseSession, Pods, NoProcesses
  <2> QED
    BY <1>20, <2>1, <2>2 DEF CloseSession
<1>21. CASE SignStopReceipt
  <2>1. "stop-receipt" \in Operations /\ "sealing" \in Phases /\ (IF worker.result THEN 1 ELSE 0) \in Nat
    BY DEF Operations, Phases, Workers
  <2>2. CreateChallenge("stop-receipt", IF worker.result THEN 1 ELSE 0, "sealing")
    BY <1>21 DEF SignStopReceipt
  <2>3. sent' \subseteq Requests /\ worker' \in Workers
    BY <2>1, <2>2, ChallengeTyped
  <2> QED
    BY <2>2, <2>3 DEF CreateChallenge
<1>22. CASE RelayRequest
  <2>1. pod' \in Pods
    BY <1>22 DEF RelayRequest, Pods, NoProcesses
  <2> QED
    BY <1>22, <2>1 DEF RelayRequest
<1>23. CASE RelayReturns
  <2>1. pod' \in Pods
    BY <1>23 DEF RelayReturns, Pods, NoProcesses
  <2> QED
    BY <1>23, <2>1 DEF RelayReturns
<1>24. CASE Enroll
  <2>1. session' \in Sessions
    BY <1>24 DEF Enroll, Sessions, SessionStates
  <2>2. worker' \in Workers
    BY <1>24 DEF Enroll, Workers, Phases, Final
  <2> QED
    BY <1>24, <2>1, <2>2 DEF Enroll
<1>25. CASE PollSession
  <2>1. poll' \in Polls
    <3>1. Binding \in Bindings
      BY DEF Binding, Bindings, Sessions
    <3> QED
      BY <1>25, <3>1 DEF PollSession, Polls
  <2> QED
    BY <1>25, <2>1 DEF PollSession
<1>26. CASE PollAnswer
  <2>1. poll' \in Polls
    BY <1>26 DEF PollAnswer, Polls, NoPoll
  <2> QED
    BY <1>26, <2>1 DEF PollAnswer
<1>27. CASE PollReceive
  <2>1. poll' \in Polls
    BY <1>27 DEF PollReceive, Polls, NoPoll
  <2>2. worker' \in Workers
    <3>1. poll.seen \in Bindings
      BY <1>27 DEF PollReceive, Polls, NoPoll
    <3>2. \A c, q \in 0 .. MaxTurns :
            /\ [worker EXCEPT !.settled = c] \in Workers
            /\ [[worker EXCEPT !.settled = c] EXCEPT !.pc = "accept", !.sequence = q,
                  !.requests = "open", !.writers = "open", !.report = "none", !.result = FALSE,
                  !.interrupted = FALSE] \in Workers
      <4> SUFFICES ASSUME NEW c \in 0 .. MaxTurns, NEW q \in 0 .. MaxTurns
                   PROVE  /\ [worker EXCEPT !.settled = c] \in Workers
                          /\ [[worker EXCEPT !.settled = c] EXCEPT !.pc = "accept",
                                !.sequence = q, !.requests = "open", !.writers = "open",
                                !.report = "none", !.result = FALSE, !.interrupted = FALSE]
                               \in Workers
        OBVIOUS
      <4>1. [worker EXCEPT !.settled = c] \in Workers
        BY DEF Workers
      <4>2. \A w \in Workers :
              [w EXCEPT !.pc = "accept", !.sequence = q, !.requests = "open",
                 !.writers = "open", !.report = "none", !.result = FALSE,
                 !.interrupted = FALSE] \in Workers
        <5> SUFFICES ASSUME NEW w \in Workers
                     PROVE  [w EXCEPT !.pc = "accept", !.sequence = q, !.requests = "open",
                               !.writers = "open", !.report = "none", !.result = FALSE,
                               !.interrupted = FALSE] \in Workers
          OBVIOUS
        <5> QED
          BY DEF Workers, Phases
      <4> QED
        BY <4>1, <4>2
    <3>3. [worker EXCEPT !.stop = TRUE] \in Workers
      BY DEF Workers
    <3>4. Final([worker EXCEPT !.stop = TRUE]) \in Workers
      BY <3>3, FinalTyped
    <3>5. poll.seen.turn \in 0 .. MaxTurns /\ poll.seen.complete \in 0 .. MaxTurns
      BY <3>1 DEF Bindings
    <3> QED
      BY <1>27, <3>2, <3>4, <3>5 DEF PollReceive
  <2> QED
    BY <1>27, <2>1, <2>2 DEF PollReceive
<1>28. CASE FinishingDeadline
  <2>1. poll' \in Polls
    BY <1>28 DEF FinishingDeadline, Polls, NoPoll
  <2>2. worker' \in Workers
    BY <1>28 DEF FinishingDeadline, Workers, Phases, Final
  <2> QED
    BY <1>28, <2>1, <2>2 DEF FinishingDeadline
<1>29. CASE Watch
  <2>1. worker' \in Workers
    BY <1>29 DEF Watch, Workers, Sessions
  <2> QED
    BY <1>29, <2>1 DEF Watch
<1>30. CASE Cancelled
  <2>1. poll' \in Polls
    BY <1>30 DEF Cancelled, Polls, NoPoll
  <2>2. worker' \in Workers
    BY <1>30 DEF Cancelled, Workers, Phases, Final
  <2> QED
    BY <1>30, <2>1, <2>2 DEF Cancelled
<1>31. CASE StopRequests
  <2>1. pod' \in Pods
    BY <1>31 DEF StopRequests, Pods, NoProcesses
  <2> QED
    BY <1>31, <2>1 DEF StopRequests
<1>32. CASE StopWriters
  <2>1. worker' \in Workers
    BY <1>32 DEF StopWriters, Workers, Phases, Final
  <2>2. pod' \in Pods
    BY <1>32 DEF StopWriters, Pods, NoProcesses
  <2> QED
    BY <1>32, <2>1, <2>2 DEF StopWriters
<1>33. CASE GiveUp
  <2>1. worker' \in Workers
    BY <1>33 DEF GiveUp, Workers, Phases, Final
  <2> QED
    BY <1>33, <2>1 DEF GiveUp
<1>34. CASE PodEnds
  <2>1. poll' \in Polls
    BY <1>34 DEF PodEnds, Polls, NoPoll
  <2>2. worker' \in Workers
    BY <1>34 DEF PodEnds, Workers, Phases, Final
  <2>3. pod' \in Pods
    BY <1>34 DEF PodEnds, Pods, NoProcesses
  <2> QED
    BY <1>34, <2>1, <2>2, <2>3 DEF PodEnds
<1>35. CASE \E m \in sent : Serve(m)
  <2>1. PICK m \in sent : Serve(m)
    BY <1>35
  <2>2. session' \in Sessions /\ grant' \in [Turns -> Grants]
    BY <2>1, CommitTyped DEF Serve
  <2>3. worker' \in Workers
    <3>1. CASE UNCHANGED worker
      BY <3>1
    <3>2. CASE Waiting /\ Hear(Kept(m) \/ May(m))
      <4>1. (Kept(m) \/ May(m)) \in BOOLEAN
        OBVIOUS
      <4> QED
        BY <3>2, <4>1, HearTyped
    <3> QED
      BY <2>1, <3>1, <3>2 DEF Serve, Waiting
  <2> QED
    BY <2>1, <2>2, <2>3 DEF Serve
<1>36. CASE UNCHANGED vars
  BY <1>36
<1> QED
  BY <1>1, <1>2, <1>3, <1>4, <1>5, <1>6, <1>7, <1>8, <1>9, <1>10, <1>11, <1>12, <1>13, <1>14, <1>15, <1>16, <1>17, <1>18, <1>19, <1>20, <1>21, <1>22, <1>23, <1>24, <1>25, <1>26, <1>27, <1>28, <1>29, <1>30, <1>31, <1>32, <1>33, <1>34, <1>35, <1>36 DEF Next, Controller, Turn, FinalStop, Tools

-----------------------------------------------------------------------------
(* The journal                                                             *)

\* Only a new assignment changes the turn the worker carries.
LEMMA SequenceKept ==
    TypeOK /\ [Next]_vars /\ ~PollReceive => worker'.sequence = worker.sequence
<1> SUFFICES ASSUME TypeOK, [Next]_vars, ~PollReceive PROVE worker'.sequence = worker.sequence
  OBVIOUS
<1> USE DEF TypeOK, Workers
<1>1. CASE ReserveTurn
  BY <1>1 DEF ReserveTurn
<1>2. CASE PublishTurn
  BY <1>2 DEF PublishTurn
<1>3. CASE RequestSessionStop
  BY <1>3 DEF RequestSessionStop
<1>4. CASE CompleteTurn
  BY <1>4 DEF CompleteTurn
<1>5. CASE CloseCheckouts
  BY <1>5 DEF CloseCheckouts
<1>6. CASE RecordSessionControllerFlush
  BY <1>6 DEF RecordSessionControllerFlush
<1>7. CASE Checkout
  BY <1>7 DEF Checkout
<1>8. CASE Crash
  BY <1>8 DEF Crash
<1>9. CASE SignAcceptance
  BY <1>9 DEF SignAcceptance, CreateChallenge
<1>10. CASE Prepare
  BY <1>10 DEF Prepare
<1>11. CASE Start
  BY <1>11 DEF Start
<1>12. CASE Launch
  BY <1>12 DEF Launch
<1>13. CASE ProviderEnds
  BY <1>13 DEF ProviderEnds
<1>14. CASE CheckoutStop
  BY <1>14 DEF CheckoutStop
<1>15. CASE ReportResult
  BY <1>15 DEF ReportResult
<1>16. CASE Settle
  BY <1>16 DEF Settle, Final
<1>17. CASE SignTurnReceipt
  BY <1>17 DEF SignTurnReceipt, CreateChallenge
<1>18. CASE BeginFence
  BY <1>18 DEF BeginFence, CreateChallenge
<1>19. CASE Fenced
  BY <1>19 DEF Fenced
<1>20. CASE CloseSession
  BY <1>20 DEF CloseSession
<1>21. CASE SignStopReceipt
  BY <1>21 DEF SignStopReceipt, CreateChallenge
<1>22. CASE RelayRequest
  BY <1>22 DEF RelayRequest
<1>23. CASE RelayReturns
  BY <1>23 DEF RelayReturns
<1>24. CASE Enroll
  BY <1>24 DEF Enroll
<1>25. CASE PollSession
  BY <1>25 DEF PollSession
<1>26. CASE PollAnswer
  BY <1>26 DEF PollAnswer
<1>27. CASE FinishingDeadline
  BY <1>27 DEF FinishingDeadline, Final
<1>28. CASE Watch
  BY <1>28 DEF Watch
<1>29. CASE Cancelled
  BY <1>29 DEF Cancelled, Final
<1>30. CASE StopRequests
  BY <1>30 DEF StopRequests
<1>31. CASE StopWriters
  BY <1>31 DEF StopWriters
<1>32. CASE GiveUp
  BY <1>32 DEF GiveUp, Final
<1>33. CASE PodEnds
  BY <1>33 DEF PodEnds
<1>34. CASE \E m \in sent : Serve(m)
  BY <1>34 DEF Serve, Hear, Final
<1>35. CASE UNCHANGED vars
  BY <1>35
<1> QED
  BY <1>1, <1>2, <1>3, <1>4, <1>5, <1>6, <1>7, <1>8, <1>9, <1>10, <1>11, <1>12, <1>13, <1>14, <1>15, <1>16, <1>17, <1>18, <1>19, <1>20, <1>21, <1>22, <1>23, <1>24, <1>25, <1>26, <1>27, <1>28, <1>29, <1>30, <1>31, <1>32, <1>33, <1>34, <1>35 DEF Next, Controller, Turn, FinalStop, Tools

\* A step that leaves the journal alone keeps what is said of it.
LEMMA JournalFrame ==
    ASSUME JournalInv, UNCHANGED <<session, grant, poll>>, worker'.sequence = worker.sequence
    PROVE  JournalInv'
BY DEF JournalInv

\* A stop keeps who is active and takes every authority away.
LEMMA StopFacts ==
    ASSUME TypeOK, JournalInv
    PROVE  /\ StopOf(session).active = session.active /\ StopOf(session).turn = session.turn
           /\ StopOf(session).stop /\ StopOf(session).fenced = session.fenced
           /\ StopOf(session).receipt = session.receipt
           /\ StopOf(session).stopActive = 0 => session.active = 0
           /\ \A n \in Turns :
                 LET g == RevokedBy(grant, session)[n] IN
                 /\ g.state = grant[n].state /\ g.accepted = grant[n].accepted
                 /\ g.closed = grant[n].closed /\ g.receipt = grant[n].receipt
                 /\ g.state = "none" \/ g.revoked
                 /\ grant[n].revoked => g.revoked
<1>1. /\ StopOf(session).active = session.active /\ StopOf(session).turn = session.turn
      /\ StopOf(session).stop /\ StopOf(session).fenced = session.fenced
      /\ StopOf(session).receipt = session.receipt
      /\ StopOf(session).stopActive = 0 => session.active = 0
  BY DEF StopOf, TypeOK, Sessions, JournalInv
<1>2. ASSUME NEW n \in Turns
      PROVE  LET g == RevokedBy(grant, session)[n] IN
             /\ g.state = grant[n].state /\ g.accepted = grant[n].accepted
             /\ g.closed = grant[n].closed /\ g.receipt = grant[n].receipt
             /\ g.state = "none" \/ g.revoked
             /\ grant[n].revoked => g.revoked
  <2>1. grant[n] \in Grants /\ session.active \in 0 .. MaxTurns
    BY DEF TypeOK, Sessions
  <2>2. n # session.active => grant[n].state = "none" \/ grant[n].revoked
    BY DEF JournalInv
  <2>3. CASE n = session.active
    <3>1. RevokedBy(grant, session)[n] = [grant[n] EXCEPT !.revoked = TRUE]
      <4>1. session.active # 0 /\ n \in DOMAIN grant
        BY <2>3 DEF Turns, TypeOK
      <4>2. RevokedBy(grant, session) = [grant EXCEPT ![n].revoked = TRUE]
        BY <2>3, <4>1 DEF RevokedBy
      <4> QED
        BY <4>1, <4>2
    <3> QED
      BY <2>1, <3>1 DEF Grants
  <2>4. CASE n # session.active
    <3>1. RevokedBy(grant, session)[n] = grant[n]
      BY <2>4 DEF RevokedBy, TypeOK, Turns
    <3> QED
      BY <2>1, <2>2, <2>4, <3>1
  <2> QED
    BY <2>3, <2>4
<1> QED
  BY <1>1, <1>2

\* What an accepted request changes of the records.
LEMMA CommitFacts ==
    ASSUME TypeOK, JournalInv, NEW m \in sent, May(m), Commit(m)
    PROVE  /\ session'.active = session.active /\ session'.turn = session.turn
           /\ session'.fenced = session.fenced /\ (session.stop => session'.stop)
           /\ session'.stop /\ session'.stopActive = 0 => session.active = 0
           /\ session'.receipt = session.receipt
                 \/ (m.op = "stop-receipt" /\ session'.receipt = IF m.body = 1 THEN "clean" ELSE "unclean")
           /\ \A n \in Turns :
                 /\ grant'[n].state = grant[n].state /\ grant'[n].closed = grant[n].closed
                 /\ grant'[n].revoked \in BOOLEAN /\ (grant[n].revoked => grant'[n].revoked)
                 /\ session'.stop => grant'[n].state = "none" \/ grant'[n].revoked
                 /\ grant[n].accepted \/ (m.op = "accept" /\ n = m.body) => grant'[n].accepted
                 /\ grant'[n].accepted = grant[n].accepted
                       \/ (m.op = "accept" /\ n = session.active /\ m.body = n)
                 /\ grant'[n].receipt = grant[n].receipt
                       \/ (m.op = "turn-receipt" /\ m.body = n)
<1> DEFINE sessionFacts ==
             /\ session'.active = session.active /\ session'.turn = session.turn
             /\ session'.fenced = session.fenced /\ (session.stop => session'.stop)
             /\ session'.stop /\ session'.stopActive = 0 => session.active = 0
             /\ session'.receipt = session.receipt
                   \/ (m.op = "stop-receipt" /\ session'.receipt = IF m.body = 1 THEN "clean" ELSE "unclean")
           grantFacts(n) ==
             /\ grant'[n].state = grant[n].state /\ grant'[n].closed = grant[n].closed
             /\ grant'[n].revoked \in BOOLEAN /\ (grant[n].revoked => grant'[n].revoked)
             /\ session'.stop => grant'[n].state = "none" \/ grant'[n].revoked
             /\ grant[n].accepted \/ (m.op = "accept" /\ n = m.body) => grant'[n].accepted
             /\ grant'[n].accepted = grant[n].accepted
                   \/ (m.op = "accept" /\ n = session.active /\ m.body = n)
             /\ grant'[n].receipt = grant[n].receipt
                   \/ (m.op = "turn-receipt" /\ m.body = n)
<1>1. m.op \in Operations
  BY DEF TypeOK, Requests
<1>2. session.stop => \A n \in Turns : grant[n].state = "none" \/ grant[n].revoked
  BY DEF JournalInv
<1>3. session.stop /\ session.stopActive = 0 => session.active = 0
  BY DEF JournalInv
<1>4. grant' \in [Turns -> Grants] /\ session' \in Sessions
  BY CommitTyped
<1>5. CASE m.op = "accept"
  <2>1. session' = session /\ grant' = [grant EXCEPT ![session.active].accepted = TRUE]
    BY <1>5 DEF Commit
  <2>2. session.active = m.body
    BY <1>5 DEF May, MayAccept, ValidProof, JournalInv
  <2>3. sessionFacts
    BY <1>3, <2>1
  <2>4. \A n \in Turns : grantFacts(n)
    BY <1>2, <1>4, <1>5, <2>1, <2>2 DEF TypeOK, Grants
  <2> QED
    BY <2>3, <2>4
<1>6. CASE m.op = "stop-request"
  <2>1. session' = [StopOf(session) EXCEPT !.asked = TRUE] /\ grant' = RevokedBy(grant, session)
    BY <1>6 DEF Commit
  <2>2. sessionFacts
    BY <2>1, StopTyped, StopFacts DEF Sessions
  <2>3. \A n \in Turns : grantFacts(n)
    BY <1>4, <1>6, <2>1, StopFacts DEF Grants, TypeOK
  <2> QED
    BY <2>2, <2>3
<1>7. CASE m.op = "turn-receipt"
  <2>1. session' = session \/ session' = [session EXCEPT !.state = "finishing"]
    BY <1>7 DEF Commit
  <2>2. grant' = [grant EXCEPT ![m.body].receipt = TRUE, ![m.body].revoked = TRUE]
    BY <1>7 DEF Commit
  <2>3. sessionFacts
    BY <1>3, <2>1 DEF TypeOK, Sessions
  <2>4. \A n \in Turns : grantFacts(n)
    <3> SUFFICES ASSUME NEW n \in Turns PROVE grantFacts(n)
      OBVIOUS
    <3>1. session'.stop = session.stop /\ grant[n] \in Grants
      BY <2>1 DEF TypeOK, Sessions
    <3>2. CASE n = m.body
      <4>1. grant'[n] = [grant[n] EXCEPT !.receipt = TRUE, !.revoked = TRUE]
        BY <2>2, <3>2 DEF TypeOK
      <4> QED
        BY <1>7, <3>1, <3>2, <4>1 DEF Grants
    <3>3. CASE n # m.body
      <4>1. grant'[n] = grant[n]
        BY <2>2, <3>3 DEF TypeOK
      <4> QED
        BY <1>2, <1>7, <3>1, <3>3, <4>1 DEF Grants
    <3> QED
      BY <3>2, <3>3
  <2> QED
    BY <2>3, <2>4
<1>8. CASE m.op = "stop-receipt"
  <2>1. grant' = grant
        /\ session' = [session EXCEPT !.receipt = IF m.body = 1 THEN "clean" ELSE "unclean"]
    BY <1>8 DEF Commit
  <2>2. sessionFacts
    BY <1>3, <1>8, <2>1 DEF TypeOK, Sessions
  <2>3. \A n \in Turns : grantFacts(n)
    BY <1>2, <1>4, <1>8, <2>1 DEF TypeOK, Grants, Sessions
  <2> QED
    BY <2>2, <2>3
<1> QED
  BY <1>1, <1>5, <1>6, <1>7, <1>8 DEF Operations

\* A new turn waits for the end of the last one, and a stop revokes.
LEMMA JournalStep ==
    TypeOK /\ JournalInv /\ [Next]_vars => JournalInv'
<1> SUFFICES ASSUME TypeOK, JournalInv, [Next]_vars PROVE JournalInv'
  OBVIOUS
<1> USE DEF TypeOK
<1>2. CASE ReserveTurn
  <2>1. worker'.sequence = worker.sequence
    BY <1>2 DEF ReserveTurn, Workers, Final
  <2>2. session.active = 0 /\ ~session.stop /\ session.turn + 1 \in Turns /\ UNCHANGED poll
    BY <1>2 DEF ReserveTurn, Sessions, Turns
  <2>3. /\ session'.turn = session.turn + 1 /\ session'.active = session.turn + 1
        /\ session'.stop = session.stop /\ session'.fenced = session.fenced
    BY <1>2 DEF ReserveTurn, Sessions
  <2>4. \A n \in Turns : n # session.turn + 1 => grant'[n] = grant[n]
    BY <1>2 DEF ReserveTurn
  <2>5. session.turn \in Nat /\ worker.sequence \in Nat
    BY DEF Sessions, Workers
  <2>6. poll' # NoPoll => poll'.seen.turn <= session'.turn
    <3>1. poll # NoPoll => poll.seen.turn \in Nat
      BY DEF Polls, Bindings
    <3> QED
      BY <2>2, <2>3, <2>5, <3>1 DEF JournalInv
  <2>7. \A n \in Turns : n # session'.active =>
           grant'[n].state = "none" \/ (grant'[n].state = "closed" /\ grant'[n].revoked)
    BY <2>2, <2>3, <2>4 DEF JournalInv, Turns
  <2>8. worker'.sequence <= session'.turn
    BY <2>1, <2>3, <2>5 DEF JournalInv
  <2> QED
    BY <2>2, <2>3, <2>6, <2>7, <2>8 DEF JournalInv
<1>3. CASE PublishTurn
  <2>1. worker'.sequence = worker.sequence
    BY <1>3 DEF PublishTurn, Workers, Final
  <2> QED
    BY <1>3, <2>1 DEF PublishTurn, JournalInv, Sessions, Grants, StopOf, RevokedBy, NoPoll, Binding
<1>4. CASE RequestSessionStop
  <2>1. worker'.sequence = worker.sequence
    BY <1>4 DEF RequestSessionStop, Workers, Final
  <2>2. session' = StopOf(session) /\ grant' = RevokedBy(grant, session) /\ UNCHANGED poll
    BY <1>4 DEF RequestSessionStop
  <2> QED
    BY <2>1, <2>2, StopFacts DEF JournalInv
<1>5. CASE CompleteTurn
  <2>1. worker'.sequence = worker.sequence
    BY <1>5 DEF CompleteTurn, Workers, Final
  <2> QED
    BY <1>5, <2>1 DEF CompleteTurn, JournalInv, Sessions, Grants, StopOf, RevokedBy, NoPoll, Binding
<1>6. CASE CloseCheckouts
  <2>1. worker'.sequence = worker.sequence
    BY <1>6 DEF CloseCheckouts, Workers, Final
  <2> QED
    BY <1>6, <2>1 DEF CloseCheckouts, JournalInv, Sessions, Grants, StopOf, RevokedBy, NoPoll, Binding
<1>7. CASE RecordSessionControllerFlush
  <2>1. worker'.sequence = worker.sequence
    BY <1>7 DEF RecordSessionControllerFlush, Workers, Final
  <2> QED
    BY <1>7, <2>1 DEF RecordSessionControllerFlush, JournalInv, Sessions, Grants, StopOf, RevokedBy, NoPoll, Binding
<1>8. CASE Checkout
  BY <1>8, JournalFrame DEF Checkout, Workers
<1>9. CASE Crash
  <2>1. worker'.sequence = worker.sequence
    BY <1>9 DEF Crash, Workers, Final
  <2> QED
    BY <1>9, <2>1 DEF Crash, JournalInv, Sessions, Grants, StopOf, RevokedBy, NoPoll, Binding
<1>10. CASE SignAcceptance
  BY <1>10, JournalFrame DEF SignAcceptance, CreateChallenge, Workers
<1>11. CASE Prepare
  <2>1. worker'.sequence = worker.sequence
    BY <1>11 DEF Prepare, Workers, Final
  <2> QED
    BY <1>11, <2>1 DEF Prepare, JournalInv, Sessions, Grants, StopOf, RevokedBy, NoPoll, Binding
<1>12. CASE Start
  <2>1. worker'.sequence = worker.sequence
    BY <1>12 DEF Start, Workers, Final
  <2> QED
    BY <1>12, <2>1 DEF Start, JournalInv, Sessions, Grants, StopOf, RevokedBy, NoPoll, Binding
<1>13. CASE Launch
  BY <1>13, JournalFrame DEF Launch, Workers
<1>14. CASE ProviderEnds
  BY <1>14, JournalFrame DEF ProviderEnds, Workers
<1>15. CASE CheckoutStop
  <2>1. worker'.sequence = worker.sequence
    BY <1>15 DEF CheckoutStop, Workers, Final
  <2> QED
    BY <1>15, <2>1 DEF CheckoutStop, JournalInv, Sessions, Grants, StopOf, RevokedBy, NoPoll, Binding
<1>16. CASE ReportResult
  <2>1. worker'.sequence = worker.sequence
    BY <1>16 DEF ReportResult, Workers, Final
  <2> QED
    BY <1>16, <2>1 DEF ReportResult, JournalInv, Sessions, Grants, StopOf, RevokedBy, NoPoll, Binding
<1>17. CASE Settle
  BY <1>17, JournalFrame DEF Settle, Final, Workers
<1>18. CASE SignTurnReceipt
  BY <1>18, JournalFrame DEF SignTurnReceipt, CreateChallenge, Workers
<1>19. CASE BeginFence
  BY <1>19, JournalFrame DEF BeginFence, CreateChallenge, Workers
<1>20. CASE Fenced
  BY <1>20, JournalFrame DEF Fenced, Workers
<1>21. CASE CloseSession
  BY <1>21, JournalFrame DEF CloseSession, Workers
<1>22. CASE SignStopReceipt
  BY <1>22, JournalFrame DEF SignStopReceipt, CreateChallenge, Workers
<1>23. CASE RelayRequest
  BY <1>23, JournalFrame DEF RelayRequest, Workers
<1>24. CASE RelayReturns
  BY <1>24, JournalFrame DEF RelayReturns, Workers
<1>25. CASE Enroll
  <2>1. worker'.sequence = worker.sequence
    BY <1>25 DEF Enroll, Workers, Final
  <2> QED
    BY <1>25, <2>1 DEF Enroll, JournalInv, Sessions, Grants, StopOf, RevokedBy, NoPoll, Binding
<1>26. CASE PollSession
  <2>1. worker'.sequence = worker.sequence
    BY <1>26 DEF PollSession, Workers, Final
  <2> QED
    BY <1>26, <2>1 DEF PollSession, JournalInv, Sessions, Grants, StopOf, RevokedBy, NoPoll, Binding
<1>27. CASE PollAnswer
  <2>1. worker'.sequence = worker.sequence
    BY <1>27 DEF PollAnswer, Workers, Final
  <2> QED
    BY <1>27, <2>1 DEF PollAnswer, JournalInv, Sessions, Grants, StopOf, RevokedBy, NoPoll, Binding
<1>28. CASE FinishingDeadline
  <2>1. worker'.sequence = worker.sequence
    BY <1>28 DEF FinishingDeadline, Workers, Final
  <2> QED
    BY <1>28, <2>1 DEF FinishingDeadline, JournalInv, Sessions, Grants, StopOf, RevokedBy, NoPoll, Binding
<1>29. CASE Watch
  BY <1>29, JournalFrame DEF Watch, Workers
<1>30. CASE Cancelled
  <2>1. worker'.sequence = worker.sequence
    BY <1>30 DEF Cancelled, Workers, Final
  <2> QED
    BY <1>30, <2>1 DEF Cancelled, JournalInv, Sessions, Grants, StopOf, RevokedBy, NoPoll, Binding
<1>31. CASE StopRequests
  BY <1>31, JournalFrame DEF StopRequests, Workers
<1>32. CASE StopWriters
  BY <1>32, JournalFrame DEF StopWriters, Workers
<1>33. CASE GiveUp
  BY <1>33, JournalFrame DEF GiveUp, Final, Workers
<1>34. CASE PodEnds
  <2>1. worker'.sequence = worker.sequence
    BY <1>34 DEF PodEnds, Workers, Final
  <2> QED
    BY <1>34, <2>1 DEF PodEnds, JournalInv, Sessions, Grants, StopOf, RevokedBy, NoPoll, Binding
<1>35. CASE PollReceive
  BY <1>35 DEF PollReceive, JournalInv, Workers, Final, NoPoll, Polls, Bindings
<1>36. CASE \E m \in sent : Serve(m)
  <2>1. PICK m \in sent : Serve(m)
    BY <1>36
  <2>2. worker'.sequence = worker.sequence /\ UNCHANGED poll
    BY <2>1 DEF Serve, Hear, Final, Workers
  <2>3. CASE UNCHANGED journalVars
    BY <2>2, <2>3, JournalFrame
  <2>4. CASE May(m) /\ Commit(m)
    BY <2>2, <2>4, CommitFacts DEF JournalInv
  <2> QED
    BY <2>1, <2>3, <2>4 DEF Serve
<1>37. CASE UNCHANGED vars
  BY <1>37, JournalFrame
<1> QED
  BY <1>2, <1>3, <1>4, <1>5, <1>6, <1>7, <1>8, <1>9, <1>10, <1>11, <1>12, <1>13, <1>14, <1>15, <1>16, <1>17, <1>18, <1>19, <1>20, <1>21, <1>22, <1>23, <1>24, <1>25, <1>26, <1>27, <1>28, <1>29, <1>30, <1>31, <1>32, <1>33, <1>34, <1>35, <1>36, <1>37 DEF Next, Controller, Turn, FinalStop, Tools

-----------------------------------------------------------------------------
(* What only grows                                                         *)

\* Nothing the journal has accepted, closed, revoked or stopped is undone,
\* and a signed request stays.
Grows ==
    /\ (session.stop => session'.stop) /\ (session.fenced => session'.fenced)
    /\ session'.fenced => session.fenced \/ RecordSessionControllerFlush
    /\ \A n \in Turns : /\ grant[n].closed => grant'[n].closed
                        /\ grant[n].accepted => grant'[n].accepted
    /\ sent \subseteq sent'

\* Only an accepted request changes what the journal keeps of requests.
KeepsRequests ==
    /\ session'.receipt = session.receipt
    /\ \A n \in Turns : grant'[n].accepted = grant[n].accepted /\ grant'[n].receipt = grant[n].receipt

\* Every step keeps what only grows, and only an accepted request changes what
\* the journal keeps of requests.
LEMMA JournalGrows ==
    ASSUME TypeOK, JournalInv, [Next]_vars
    PROVE  Grows /\ (KeepsRequests \/ \E m \in sent : Serve(m))
<1> USE DEF TypeOK
<1>1. CASE ReserveTurn
  <2>1. /\ session'.receipt = session.receipt /\ session'.fenced = session.fenced
        /\ session.stop => session'.stop
    BY <1>1 DEF ReserveTurn, Sessions
  <2>2. \A n \in Turns : /\ grant'[n].accepted = grant[n].accepted
                         /\ grant'[n].receipt = grant[n].receipt
                         /\ grant[n].closed => grant'[n].closed
    BY <1>1 DEF ReserveTurn, Grants
  <2>3. sent' = sent
    BY <1>1 DEF ReserveTurn
  <2> QED
    BY <2>1, <2>2, <2>3 DEF Grows, KeepsRequests
<1>2. CASE PublishTurn
  <2>1. /\ session'.receipt = session.receipt /\ session'.fenced = session.fenced
        /\ session.stop => session'.stop
    BY <1>2 DEF PublishTurn, Sessions
  <2>2. \A n \in Turns : /\ grant'[n].accepted = grant[n].accepted
                         /\ grant'[n].receipt = grant[n].receipt
                         /\ grant[n].closed => grant'[n].closed
    BY <1>2 DEF PublishTurn, Grants
  <2>3. sent' = sent
    BY <1>2 DEF PublishTurn
  <2> QED
    BY <2>1, <2>2, <2>3 DEF Grows, KeepsRequests
<1>3. CASE RequestSessionStop
  BY <1>3, StopFacts DEF RequestSessionStop, Grows, KeepsRequests
<1>4. CASE CompleteTurn
  <2>1. /\ session'.receipt = session.receipt /\ session'.fenced = session.fenced
        /\ session.stop => session'.stop
    BY <1>4 DEF CompleteTurn, Sessions
  <2>2. \A n \in Turns : /\ grant'[n].accepted = grant[n].accepted
                         /\ grant'[n].receipt = grant[n].receipt
                         /\ grant[n].closed => grant'[n].closed
    BY <1>4 DEF CompleteTurn, Grants
  <2>3. sent' = sent
    BY <1>4 DEF CompleteTurn
  <2> QED
    BY <2>1, <2>2, <2>3 DEF Grows, KeepsRequests
<1>5. CASE CloseCheckouts
  <2>1. /\ session'.receipt = session.receipt /\ session'.fenced = session.fenced
        /\ session.stop => session'.stop
    BY <1>5 DEF CloseCheckouts, Sessions
  <2>2. \A n \in Turns : /\ grant'[n].accepted = grant[n].accepted
                         /\ grant'[n].receipt = grant[n].receipt
                         /\ grant[n].closed => grant'[n].closed
    BY <1>5 DEF CloseCheckouts, Grants
  <2>3. sent' = sent
    BY <1>5 DEF CloseCheckouts
  <2> QED
    BY <2>1, <2>2, <2>3 DEF Grows, KeepsRequests
<1>6. CASE RecordSessionControllerFlush
  BY <1>6 DEF RecordSessionControllerFlush, Sessions, Grants, Grows, KeepsRequests
<1>7. CASE Checkout
  BY <1>7 DEF Checkout, Sessions, Grants, Grows, KeepsRequests
<1>8. CASE Crash
  BY <1>8 DEF Crash, Sessions, Grants, Grows, KeepsRequests
<1>9. CASE SignAcceptance
  BY <1>9 DEF SignAcceptance, CreateChallenge, Sessions, Grants, Grows, KeepsRequests
<1>10. CASE Prepare
  <2>1. /\ session'.receipt = session.receipt /\ session'.fenced = session.fenced
        /\ session.stop => session'.stop
    BY <1>10 DEF Prepare, Sessions
  <2>2. \A n \in Turns : /\ grant'[n].accepted = grant[n].accepted
                         /\ grant'[n].receipt = grant[n].receipt
                         /\ grant[n].closed => grant'[n].closed
    BY <1>10 DEF Prepare, Grants
  <2>3. sent' = sent
    BY <1>10 DEF Prepare
  <2> QED
    BY <2>1, <2>2, <2>3 DEF Grows, KeepsRequests
<1>11. CASE Start
  <2>1. /\ session'.receipt = session.receipt /\ session'.fenced = session.fenced
        /\ session.stop => session'.stop
    BY <1>11 DEF Start, Sessions
  <2>2. \A n \in Turns : /\ grant'[n].accepted = grant[n].accepted
                         /\ grant'[n].receipt = grant[n].receipt
                         /\ grant[n].closed => grant'[n].closed
    BY <1>11 DEF Start, Grants
  <2>3. sent' = sent
    BY <1>11 DEF Start
  <2> QED
    BY <2>1, <2>2, <2>3 DEF Grows, KeepsRequests
<1>12. CASE Launch
  BY <1>12 DEF Launch, Sessions, Grants, Grows, KeepsRequests
<1>13. CASE ProviderEnds
  BY <1>13 DEF ProviderEnds, Sessions, Grants, Grows, KeepsRequests
<1>14. CASE CheckoutStop
  <2>1. /\ session'.receipt = session.receipt /\ session'.fenced = session.fenced
        /\ session.stop => session'.stop
    BY <1>14 DEF CheckoutStop, Sessions
  <2>2. \A n \in Turns : /\ grant'[n].accepted = grant[n].accepted
                         /\ grant'[n].receipt = grant[n].receipt
                         /\ grant[n].closed => grant'[n].closed
    BY <1>14 DEF CheckoutStop, Grants
  <2>3. sent' = sent
    BY <1>14 DEF CheckoutStop
  <2> QED
    BY <2>1, <2>2, <2>3 DEF Grows, KeepsRequests
<1>15. CASE ReportResult
  <2>1. /\ session'.receipt = session.receipt /\ session'.fenced = session.fenced
        /\ session.stop => session'.stop
    BY <1>15 DEF ReportResult, Sessions
  <2>2. \A n \in Turns : /\ grant'[n].accepted = grant[n].accepted
                         /\ grant'[n].receipt = grant[n].receipt
                         /\ grant[n].closed => grant'[n].closed
    BY <1>15 DEF ReportResult, Grants
  <2>3. sent' = sent
    BY <1>15 DEF ReportResult
  <2> QED
    BY <2>1, <2>2, <2>3 DEF Grows, KeepsRequests
<1>16. CASE Settle
  BY <1>16 DEF Settle, Final, Sessions, Grants, Grows, KeepsRequests
<1>17. CASE SignTurnReceipt
  BY <1>17 DEF SignTurnReceipt, CreateChallenge, Sessions, Grants, Grows, KeepsRequests
<1>18. CASE BeginFence
  BY <1>18 DEF BeginFence, CreateChallenge, Sessions, Grants, Grows, KeepsRequests
<1>19. CASE Fenced
  BY <1>19 DEF Fenced, Sessions, Grants, Grows, KeepsRequests
<1>20. CASE CloseSession
  BY <1>20 DEF CloseSession, Sessions, Grants, Grows, KeepsRequests
<1>21. CASE SignStopReceipt
  BY <1>21 DEF SignStopReceipt, CreateChallenge, Sessions, Grants, Grows, KeepsRequests
<1>22. CASE RelayRequest
  BY <1>22 DEF RelayRequest, Sessions, Grants, Grows, KeepsRequests
<1>23. CASE RelayReturns
  BY <1>23 DEF RelayReturns, Sessions, Grants, Grows, KeepsRequests
<1>24. CASE Enroll
  BY <1>24 DEF Enroll, Sessions, Grants, Grows, KeepsRequests
<1>25. CASE PollSession
  BY <1>25 DEF PollSession, Sessions, Grants, Grows, KeepsRequests
<1>26. CASE PollAnswer
  BY <1>26 DEF PollAnswer, Sessions, Grants, Grows, KeepsRequests
<1>27. CASE PollReceive
  BY <1>27 DEF PollReceive, Final, Sessions, Grants, Grows, KeepsRequests
<1>28. CASE FinishingDeadline
  BY <1>28 DEF FinishingDeadline, Final, Sessions, Grants, Grows, KeepsRequests
<1>29. CASE Watch
  BY <1>29 DEF Watch, Sessions, Grants, Grows, KeepsRequests
<1>30. CASE Cancelled
  BY <1>30 DEF Cancelled, Final, Sessions, Grants, Grows, KeepsRequests
<1>31. CASE StopRequests
  BY <1>31 DEF StopRequests, Sessions, Grants, Grows, KeepsRequests
<1>32. CASE StopWriters
  BY <1>32 DEF StopWriters, Sessions, Grants, Grows, KeepsRequests
<1>33. CASE GiveUp
  BY <1>33 DEF GiveUp, Final, Sessions, Grants, Grows, KeepsRequests
<1>34. CASE PodEnds
  BY <1>34 DEF PodEnds, Sessions, Grants, Grows, KeepsRequests
<1>35. CASE \E m \in sent : Serve(m)
  <2>1. PICK m \in sent : Serve(m)
    BY <1>35
  <2>2. sent' = sent
    BY <2>1 DEF Serve
  <2>3. CASE UNCHANGED journalVars
    BY <1>35, <2>2, <2>3 DEF Grows
  <2>4. CASE May(m) /\ Commit(m)
    BY <1>35, <2>2, <2>4, CommitFacts, CommitTyped DEF Grows, Grants
  <2> QED
    BY <2>1, <2>3, <2>4 DEF Serve
<1>36. CASE UNCHANGED vars
  BY <1>36 DEF Grows, KeepsRequests
<1> QED
  BY <1>1, <1>2, <1>3, <1>4, <1>5, <1>6, <1>7, <1>8, <1>9, <1>10, <1>11, <1>12, <1>13, <1>14, <1>15, <1>16, <1>17, <1>18, <1>19, <1>20, <1>21, <1>22, <1>23, <1>24, <1>25, <1>26, <1>27, <1>28, <1>29, <1>30, <1>31, <1>32, <1>33, <1>34, <1>35, <1>36 DEF Next, Controller, Turn, FinalStop, Tools

-----------------------------------------------------------------------------
(* What was signed                                                         *)

\* Where nothing is signed and nothing accepted, the facts stay.
LEMMA SignedFrame ==
    ASSUME TypeOK, SignedInv, KeepsRequests, sent' = sent, worker.sequence <= worker'.sequence,
           worker'.sequence \in Nat,
           worker'.pc \in {"accepting", "reporting"} =>
              worker'.pc = worker.pc /\ worker'.proof = worker.proof
                 /\ worker'.sequence = worker.sequence
    PROVE  SignedInv'
<1>1. \A n \in Turns : Reported(n)' <=> Reported(n)
  BY DEF Reported
<1>2. SealedClean' <=> SealedClean
  BY DEF SealedClean
<1>3. worker.sequence \in Nat /\ \A n \in Turns : n \in Nat
  BY DEF TypeOK, Workers, Turns
<1>4. Reported(worker.sequence) /\ worker'.sequence = worker.sequence => Reported(worker.sequence)'
  BY DEF Reported
<1>5. \A m \in sent : m.op \in {"accept", "turn-receipt"} =>
         m.body \in Turns /\ m.body <= worker'.sequence
  BY <1>3 DEF SignedInv
<1>6. \A n \in Turns : grant'[n].accepted => n <= worker'.sequence
  BY <1>3 DEF SignedInv, KeepsRequests
<1>7. \A n \in Turns : grant'[n].receipt => Reported(n)'
  BY <1>1 DEF SignedInv, KeepsRequests
<1> QED
  BY <1>2, <1>4, <1>5, <1>6, <1>7 DEF SignedInv, KeepsRequests

\* Every request is signed by a worker that had come that far, and every
\* acceptance answers one.
LEMMA SignedStep ==
    TypeOK /\ JournalInv /\ SignedInv /\ ExecutionInv /\ [Next]_vars => SignedInv'
<1> SUFFICES ASSUME TypeOK, JournalInv, SignedInv, ExecutionInv, [Next]_vars PROVE SignedInv'
  OBVIOUS
<1>1. TypeOK'
  BY TypeStep
<1>2. worker.sequence \in Nat /\ worker'.sequence \in Nat
  BY <1>1 DEF TypeOK, Workers
<1>3. KeepsRequests \/ \E m \in sent : Serve(m)
  BY JournalGrows
<1>4. InTurn => worker.sequence \in Turns
  BY DEF ExecutionInv, TypeOK, Workers, Turns
<1>5. CASE \E m \in sent : Serve(m)
  <2>1. PICK m \in sent : Serve(m)
    BY <1>5
  <2>2. sent' = sent /\ worker'.sequence = worker.sequence
    BY <2>1 DEF Serve, Hear, Final, TypeOK, Workers
  <2>3. worker'.pc \in {"accepting", "reporting"} => worker' = worker
    BY <2>1 DEF Serve, Hear, Final, TypeOK, Workers
  <2>4. CASE UNCHANGED journalVars
    BY <1>2, <2>2, <2>3, <2>4, SignedFrame DEF KeepsRequests
  <2>5. CASE May(m) /\ Commit(m)
    <3>1. \A n \in Turns : Reported(n)' <=> Reported(n)
      BY <2>2 DEF Reported
    <3>2. SealedClean' <=> SealedClean
      BY <2>2 DEF SealedClean
    <3>3. ASSUME NEW n \in Turns, grant'[n].accepted PROVE n <= worker'.sequence
      BY <2>2, <2>5, <3>3, CommitFacts DEF SignedInv
    <3>4. ASSUME NEW n \in Turns, grant'[n].receipt PROVE Reported(n)'
      BY <2>2, <2>5, <3>1, <3>4, CommitFacts DEF SignedInv, Reported
    <3>5. session'.receipt = "clean" => SealedClean'
      BY <2>2, <2>5, <3>2, CommitFacts DEF SignedInv, SealedClean
    <3>6. worker'.pc = "reporting" => Reported(worker.sequence)'
      BY <2>2, <2>3 DEF SignedInv, Reported
    <3> QED
      BY <2>2, <2>3, <3>3, <3>4, <3>5, <3>6 DEF SignedInv
  <2> QED
    BY <2>1, <2>4, <2>5 DEF Serve
<1>6. CASE KeepsRequests
  <2>1. CASE ReserveTurn
    BY <1>2, <1>6, <2>1, SignedFrame DEF ReserveTurn, TypeOK, Workers
  <2>2. CASE PublishTurn
    BY <1>2, <1>6, <2>2, SignedFrame DEF PublishTurn, TypeOK, Workers
  <2>3. CASE RequestSessionStop
    BY <1>2, <1>6, <2>3, SignedFrame DEF RequestSessionStop, TypeOK, Workers
  <2>4. CASE CompleteTurn
    BY <1>2, <1>6, <2>4, SignedFrame DEF CompleteTurn, TypeOK, Workers
  <2>5. CASE CloseCheckouts
    BY <1>2, <1>6, <2>5, SignedFrame DEF CloseCheckouts, TypeOK, Workers
  <2>6. CASE RecordSessionControllerFlush
    BY <1>2, <1>6, <2>6, SignedFrame DEF RecordSessionControllerFlush, TypeOK, Workers
  <2>7. CASE Checkout
    BY <1>2, <1>6, <2>7, SignedFrame DEF Checkout, TypeOK, Workers
  <2>8. CASE Crash
    BY <1>2, <1>6, <2>8, SignedFrame DEF Crash, TypeOK, Workers
  <2>9. CASE SignAcceptance
    <3>1. CreateChallenge("accept", worker.sequence, "accepting") /\ worker.sequence \in Turns
      BY <1>4, <2>9 DEF SignAcceptance, InTurn
    <3>2. /\ worker'.pc = "accepting" /\ worker'.sequence = worker.sequence
          /\ worker'.proof.op = "accept" /\ worker'.proof.body = worker.sequence
          /\ \E m \in sent' : m.op = "accept" /\ m.body = worker.sequence
          /\ \A m \in sent' : m \in sent \/ (m.op = "accept" /\ m.body = worker.sequence)
          /\ UNCHANGED journalVars /\ sent \subseteq sent'
      BY <3>1 DEF CreateChallenge, TypeOK, Workers
    <3>3. \A k : Reported(k) => Reported(k)'
      BY <3>2 DEF Reported
    <3>4. SealedClean => SealedClean'
      BY <3>2 DEF SealedClean
    <3> QED
      BY <1>2, <3>1, <3>2, <3>3, <3>4 DEF SignedInv
  <2>10. CASE Prepare
    BY <1>2, <1>6, <2>10, SignedFrame DEF Prepare, TypeOK, Workers
  <2>11. CASE Start
    BY <1>2, <1>6, <2>11, SignedFrame DEF Start, TypeOK, Workers
  <2>12. CASE Launch
    BY <1>2, <1>6, <2>12, SignedFrame DEF Launch, TypeOK, Workers
  <2>13. CASE ProviderEnds
    BY <1>2, <1>6, <2>13, SignedFrame DEF ProviderEnds, TypeOK, Workers
  <2>14. CASE CheckoutStop
    BY <1>2, <1>6, <2>14, SignedFrame DEF CheckoutStop, TypeOK, Workers
  <2>15. CASE ReportResult
    BY <1>2, <1>6, <2>15, SignedFrame DEF ReportResult, TypeOK, Workers
  <2>16. CASE Settle
    BY <1>2, <1>6, <2>16, SignedFrame DEF Settle, Final, TypeOK, Workers
  <2>17. CASE SignTurnReceipt
    <3>1. CreateChallenge("turn-receipt", worker.sequence, "reporting") /\ worker.sequence \in Turns
      BY <1>4, <2>17 DEF SignTurnReceipt, InTurn
    <3>2. /\ worker'.pc = "reporting" /\ worker'.sequence = worker.sequence
          /\ worker'.proof.op = "turn-receipt" /\ worker'.proof.body = worker.sequence
          /\ \E m \in sent' : m.op = "turn-receipt" /\ m.body = worker.sequence
          /\ \A m \in sent' : m \in sent \/ (m.op = "turn-receipt" /\ m.body = worker.sequence)
          /\ UNCHANGED journalVars /\ sent \subseteq sent'
      BY <3>1 DEF CreateChallenge, TypeOK, Workers
    <3>3. \A k : Reported(k) => Reported(k)'
      BY <3>2 DEF Reported
    <3>4. SealedClean => SealedClean'
      BY <3>2 DEF SealedClean
    <3> QED
      BY <1>2, <3>1, <3>2, <3>3, <3>4 DEF SignedInv, Reported
  <2>18. CASE BeginFence
    <3>1. CASE worker.stop
      <4>1. KeepsRequests /\ sent' = sent /\ worker' = [worker EXCEPT !.pc = "fencing"]
        BY <2>18, <3>1 DEF BeginFence, KeepsRequests
      <4> QED
        BY <1>2, <4>1, SignedFrame DEF TypeOK, Workers
    <3>2. CASE ~worker.stop
      <4>1. CreateChallenge("stop-request", 0, "stopping")
        BY <2>18, <3>2 DEF BeginFence
      <4>2. /\ worker'.pc = "stopping" /\ worker'.sequence = worker.sequence
            /\ \A m \in sent' : m \in sent \/ m.op = "stop-request"
            /\ UNCHANGED journalVars /\ sent \subseteq sent'
        BY <4>1 DEF CreateChallenge, TypeOK, Workers
      <4>3. \A k : Reported(k) => Reported(k)'
        BY <4>2 DEF Reported
      <4>4. SealedClean => SealedClean'
        BY <4>2 DEF SealedClean
      <4> QED
        BY <1>2, <4>2, <4>3, <4>4 DEF SignedInv
    <3> QED
      BY <3>1, <3>2
  <2>19. CASE Fenced
    BY <1>2, <1>6, <2>19, SignedFrame DEF Fenced, TypeOK, Workers
  <2>20. CASE CloseSession
    BY <1>2, <1>6, <2>20, SignedFrame DEF CloseSession, TypeOK, Workers
  <2>21. CASE SignStopReceipt
    <3>1. CreateChallenge("stop-receipt", IF worker.result THEN 1 ELSE 0, "sealing")
      BY <2>21 DEF SignStopReceipt
    <3>2. /\ worker'.pc = "sealing" /\ worker'.sequence = worker.sequence
          /\ \A m \in sent' : m \in sent \/ m.op = "stop-receipt"
          /\ UNCHANGED journalVars /\ sent \subseteq sent'
      BY <3>1 DEF CreateChallenge, TypeOK, Workers
    <3>3. \A k : Reported(k) => Reported(k)'
      BY <3>2 DEF Reported
    <3>4. SealedClean => SealedClean'
      BY <3>2 DEF SealedClean
    <3> QED
      BY <1>2, <3>2, <3>3, <3>4 DEF SignedInv
  <2>22. CASE RelayRequest
    BY <1>2, <1>6, <2>22, SignedFrame DEF RelayRequest, TypeOK, Workers
  <2>23. CASE RelayReturns
    BY <1>2, <1>6, <2>23, SignedFrame DEF RelayReturns, TypeOK, Workers
  <2>24. CASE Enroll
    BY <1>2, <1>6, <2>24, SignedFrame DEF Enroll, TypeOK, Workers
  <2>25. CASE PollSession
    BY <1>2, <1>6, <2>25, SignedFrame DEF PollSession, TypeOK, Workers
  <2>26. CASE PollAnswer
    BY <1>2, <1>6, <2>26, SignedFrame DEF PollAnswer, TypeOK, Workers
  <2>27. CASE PollReceive
    <3>1. poll.seen.turn \in Nat
      BY <2>27 DEF PollReceive, Polls, Bindings, NoPoll, TypeOK
    <3>2. worker.sequence <= worker'.sequence /\ worker'.pc \notin {"accepting", "reporting"}
      BY <1>2, <2>27, <3>1 DEF PollReceive, Final, TypeOK, Workers
    <3> QED
      BY <1>2, <1>6, <2>27, <3>2, SignedFrame DEF PollReceive
  <2>28. CASE FinishingDeadline
    BY <1>2, <1>6, <2>28, SignedFrame DEF FinishingDeadline, Final, TypeOK, Workers
  <2>29. CASE Watch
    BY <1>2, <1>6, <2>29, SignedFrame DEF Watch, TypeOK, Workers
  <2>30. CASE Cancelled
    BY <1>2, <1>6, <2>30, SignedFrame DEF Cancelled, Final, TypeOK, Workers
  <2>31. CASE StopRequests
    BY <1>2, <1>6, <2>31, SignedFrame DEF StopRequests, TypeOK, Workers
  <2>32. CASE StopWriters
    BY <1>2, <1>6, <2>32, SignedFrame DEF StopWriters, TypeOK, Workers
  <2>33. CASE GiveUp
    BY <1>2, <1>6, <2>33, SignedFrame DEF GiveUp, Final, TypeOK, Workers
  <2>34. CASE PodEnds
    BY <1>2, <1>6, <2>34, SignedFrame DEF PodEnds, TypeOK, Workers
  <2>35. CASE UNCHANGED vars
    BY <1>2, <1>6, <2>35, SignedFrame
  <2>36. CASE \E m \in sent : Serve(m)
    BY <1>5, <2>36
  <2> QED
    BY <2>36, <2>1, <2>2, <2>3, <2>4, <2>5, <2>6, <2>7, <2>8, <2>9, <2>10, <2>11, <2>12, <2>13, <2>14, <2>15, <2>16, <2>17, <2>18, <2>19, <2>20, <2>21, <2>22, <2>23, <2>24, <2>25, <2>26, <2>27, <2>28, <2>29, <2>30, <2>31, <2>32, <2>33, <2>34, <2>35 DEF Next, Controller, Turn, FinalStop, Tools
<1> QED
  BY <1>3, <1>5, <1>6

-----------------------------------------------------------------------------
(* What runs                                                               *)

\* The states of a turn the worker has begun.
Begun == {"ready", "started", "received", "closed"}

\* A step that starts nothing: no phase of a turn is entered from outside, no
\* process or checkout begins, and no turn's journal goes on.
StartsNothing ==
    /\ worker'.sequence = worker.sequence
    /\ \/ worker'.pc = worker.pc
       \/ worker'.pc \notin {"enroll", "poll", "accept", "accepting", "attempt"}
    /\ InTurn' => InTurn
    /\ Executing' => Executing
    /\ pod'.task => pod.task
    /\ checkout' # "none" => checkout # "none" \/ pod.task
    /\ checkout' = "running" => checkout = "running" /\ session'.active = session.active
    /\ \A n \in Turns : grant'[n].state \in Begun => grant[n].state \in Begun

\* A step that starts nothing keeps what is said of what runs.
LEMMA ExecutionFrame ==
    ASSUME TypeOK, ExecutionInv, Grows, StartsNothing
    PROVE  ExecutionInv'
<1>1. Reported(worker.sequence) => Reported(worker.sequence)'
  BY DEF Reported, Grows, StartsNothing
<1>2. worker.sequence # 0 => worker.sequence \in Turns
  BY DEF TypeOK, Workers, Turns
<1>3. Executing' \/ pod'.task => grant'[worker.sequence].accepted
  BY <1>2 DEF StartsNothing, ExecutionInv, InTurn, Executing, Grows
<1>4. \A n \in Turns : grant'[n].state \in Begun =>
         n <= worker.sequence
         /\ (n = worker.sequence => worker'.pc \notin {"accept", "accepting", "attempt"})
  BY DEF StartsNothing, ExecutionInv, Begun
<1>5. worker'.pc \in {"enroll", "poll", "accept", "accepting"} => worker'.pc = worker.pc
  BY DEF StartsNothing
<1> QED
  BY <1>1, <1>3, <1>4, <1>5 DEF StartsNothing, ExecutionInv, Begun

\* The turn the worker reported is the active one or over, and nothing of it
\* is left.
LEMMA ReceiptMeansReported ==
    ASSUME TypeOK, JournalInv, SignedInv, NEW n \in Turns, n = session.active, grant[n].receipt
    PROVE  n = worker.sequence /\ Reported(worker.sequence)
<1>1. Reported(n)
  BY DEF SignedInv
<1>2. n <= worker.sequence
  BY <1>1 DEF SignedInv, Reported
<1>3. n = session.turn /\ worker.sequence <= session.turn
  BY DEF JournalInv, Turns
<1>4. n \in Nat /\ worker.sequence \in Nat /\ session.turn \in Nat
  BY DEF Turns, TypeOK, Workers, Sessions
<1>5. n = worker.sequence
  BY <1>2, <1>3, <1>4
<1> QED
  BY <1>1, <1>5

\* What runs was accepted, and a checkout begins only in the turn that the
\* worker carries and has started.
LEMMA ExecutionStep ==
    TypeOK /\ SupervisorInv /\ [Next]_vars => ExecutionInv'
<1> SUFFICES ASSUME TypeOK, SupervisorInv, [Next]_vars PROVE ExecutionInv'
  OBVIOUS
<1> USE DEF TypeOK
<1>a. JournalInv /\ SignedInv /\ ExecutionInv /\ SettleInv /\ FinalInv
  BY DEF SupervisorInv
<1>b. Grows
  BY <1>a, JournalGrows
<1>c. worker.sequence # 0 => worker.sequence \in Turns
  BY DEF Workers, Turns
<1>d. worker.sequence \in Nat /\ \A n \in Turns : n \in Nat /\ n # 0
  BY DEF Workers, Turns
<1>1. CASE ReserveTurn
  <2>1. checkout # "running"
    BY <1>1, <1>a DEF ReserveTurn, ExecutionInv
  <2>2. \A n \in Turns : grant'[n].state \in Begun => grant[n].state \in Begun
    BY <1>1 DEF ReserveTurn, Begun, Grants
  <2>3. StartsNothing
    BY <1>1, <2>1, <2>2 DEF ReserveTurn, StartsNothing, InTurn, Executing
  <2> QED
    BY <1>a, <1>b, <2>3, ExecutionFrame
<1>2. CASE PublishTurn
  <2>1. StartsNothing
    BY <1>2 DEF PublishTurn, StartsNothing, InTurn, Executing, Begun, Workers, Pods, Grants, Sessions
  <2> QED
    BY <1>a, <1>b, <2>1, ExecutionFrame
<1>3. CASE RequestSessionStop
  <2>1. StartsNothing
    BY <1>3, StopFacts, <1>a DEF RequestSessionStop, StartsNothing, InTurn, Executing, Begun, Workers, Pods, Grants, Sessions
  <2> QED
    BY <1>a, <1>b, <2>1, ExecutionFrame
<1>4. CASE CompleteTurn
  <2>1. session.active \in Turns /\ grant[session.active].receipt
    BY <1>4 DEF CompleteTurn, Sessions, Turns
  <2>2. session.active = worker.sequence /\ Reported(worker.sequence)
    BY <1>a, <2>1, ReceiptMeansReported
  <2>3. checkout # "running" /\ worker.pc \notin {"accept", "accepting", "attempt"}
    BY <1>a, <2>2 DEF SettleInv, TurnQuiet
  <2>4. \A n \in Turns : n # worker.sequence => grant'[n] = grant[n]
    BY <1>4, <2>2 DEF CompleteTurn
  <2>5. /\ UNCHANGED <<worker, pod, checkout, sent>>
        /\ \A n \in Turns : grant'[n].accepted = grant[n].accepted
    BY <1>4 DEF CompleteTurn, Grants
  <2>6. \A n \in Turns : grant'[n].state \in Begun =>
           n <= worker.sequence
           /\ (n = worker.sequence => worker.pc \notin {"accept", "accepting", "attempt"})
    BY <1>a, <1>d, <2>3, <2>4 DEF ExecutionInv, Begun
  <2>7. worker.sequence \in Turns
    BY <2>1, <2>2
  <2> QED
    BY <1>a, <2>3, <2>5, <2>6, <2>7 DEF ExecutionInv, Executing, InTurn, Reported, Begun
<1>5. CASE CloseCheckouts
  <2>1. StartsNothing
    BY <1>5 DEF CloseCheckouts, StartsNothing, InTurn, Executing, Begun, Workers, Pods, Grants, Sessions
  <2> QED
    BY <1>a, <1>b, <2>1, ExecutionFrame
<1>6. CASE RecordSessionControllerFlush
  <2>1. StartsNothing
    BY <1>6 DEF RecordSessionControllerFlush, StartsNothing, InTurn, Executing, Begun, Workers, Pods, Grants, Sessions
  <2> QED
    BY <1>a, <1>b, <2>1, ExecutionFrame
<1>7. CASE Checkout
  <2>1. UNCHANGED <<session, grant, sent, worker, pod>>
    BY <1>7 DEF Checkout
  <2>2. CASE checkout' # "running"
    <3>1. StartsNothing
      BY <1>7, <2>1, <2>2 DEF Checkout, StartsNothing, InTurn, Executing
    <3> QED
      BY <1>a, <1>b, <3>1, ExecutionFrame
  <2>3. CASE checkout' = "running"
    <3>1. /\ checkout = "sent" /\ grant[worker.sequence].state = "started"
          /\ ~grant[worker.sequence].closed
      BY <1>7, <2>3 DEF Checkout
    <3>2. worker.sequence \in Turns
      BY <1>a, <1>c, <3>1 DEF ExecutionInv
    <3>3. session.active = worker.sequence
      BY <1>a, <3>1, <3>2 DEF JournalInv
    <3>4. worker.pc \notin {"accept", "accepting"}
      BY <1>a, <3>1, <3>2 DEF ExecutionInv
    <3>5. ~Reported(worker.sequence)
      BY <1>a, <3>1 DEF SettleInv, TurnQuiet
    <3>6. worker.pc \notin {"enroll", "poll"}
      BY <1>a, <1>d, <3>2, <3>5 DEF ExecutionInv
    <3> QED
      BY <1>a, <2>1, <3>1, <3>2, <3>3, <3>4, <3>6 DEF ExecutionInv, Executing, InTurn, Reported
  <2> QED
    BY <2>2, <2>3
<1>8. CASE Crash
  <2>1. StartsNothing
    BY <1>8 DEF Crash, StartsNothing, InTurn, Executing, Begun, Workers, Pods
  <2> QED
    BY <1>a, <1>b, <2>1, ExecutionFrame
<1>9. CASE SignAcceptance
  <2>1. CreateChallenge("accept", worker.sequence, "accepting") /\ worker.pc = "accept"
    BY <1>9 DEF SignAcceptance
  <2>2. /\ worker'.pc = "accepting" /\ worker'.sequence = worker.sequence
        /\ UNCHANGED <<session, grant, pod, checkout>>
    BY <2>1 DEF CreateChallenge, Workers
  <2> QED
    BY <1>a, <2>1, <2>2 DEF ExecutionInv, Executing, InTurn
<1>10. CASE Prepare
  <2>1. worker.pc = "attempt" /\ worker.sequence \in Turns
    BY <1>10, <1>a, <1>c DEF Prepare, ExecutionInv, InTurn
  <2>2. worker'.pc \in {"start", "settle"} /\ worker'.sequence = worker.sequence
    BY <1>10 DEF Prepare, Workers
  <2>3. /\ UNCHANGED <<session, sent, checkout>> /\ pod'.task = pod.task
        /\ \A n \in Turns : /\ grant'[n].accepted = grant[n].accepted
                            /\ n # worker.sequence => grant'[n].state = grant[n].state
    BY <1>10 DEF Prepare, Grants, Pods
  <2>4. \A n \in Turns : grant'[n].state \in Begun => n <= worker.sequence
    BY <1>a, <1>d, <2>3 DEF ExecutionInv, Begun
  <2>5. grant'[worker.sequence].accepted
    BY <1>a, <2>1, <2>3 DEF ExecutionInv, Executing
  <2> QED
    BY <1>a, <2>1, <2>2, <2>3, <2>4, <2>5 DEF ExecutionInv, Begun, Executing, InTurn
<1>11. CASE Start
  <2>1. worker.pc = "start" /\ worker.sequence \in Turns
    BY <1>11, <1>a, <1>c DEF Start, ExecutionInv, InTurn
  <2>2. worker'.pc \in {"launch", "settle"} /\ worker'.sequence = worker.sequence
    BY <1>11 DEF Start, Workers
  <2>3. /\ UNCHANGED <<sent, checkout, pod>> /\ session'.active = session.active
        /\ \A n \in Turns : /\ grant'[n].accepted = grant[n].accepted
                            /\ n # worker.sequence => grant'[n].state = grant[n].state
    BY <1>11 DEF Start, Grants, Sessions
  <2>4. \A n \in Turns : grant'[n].state \in Begun => n <= worker.sequence
    BY <1>a, <1>d, <2>3 DEF ExecutionInv, Begun
  <2>5. grant'[worker.sequence].accepted
    BY <1>a, <2>1, <2>3 DEF ExecutionInv, Executing
  <2> QED
    BY <1>a, <2>1, <2>2, <2>3, <2>4, <2>5 DEF ExecutionInv, Begun, Executing, InTurn
<1>12. CASE Launch
  <2>1. worker.pc = "launch" /\ UNCHANGED <<session, grant, sent, checkout>>
    BY <1>12 DEF Launch
  <2>2. worker'.pc \in {"settle", "running"} /\ worker'.sequence = worker.sequence
    BY <1>12 DEF Launch, Workers
  <2> QED
    BY <1>a, <2>1, <2>2 DEF ExecutionInv, Executing, InTurn
<1>13. CASE ProviderEnds
  <2>1. StartsNothing
    BY <1>13 DEF ProviderEnds, StartsNothing, InTurn, Executing, Begun, Workers, Pods
  <2> QED
    BY <1>a, <1>b, <2>1, ExecutionFrame
<1>14. CASE CheckoutStop
  <2>1. StartsNothing
    BY <1>14 DEF CheckoutStop, StartsNothing, InTurn, Executing, Begun, Workers, Pods, Grants, Sessions
  <2> QED
    BY <1>a, <1>b, <2>1, ExecutionFrame
<1>15. CASE ReportResult
  <2>1. StartsNothing
    BY <1>15 DEF ReportResult, StartsNothing, InTurn, Executing, Begun, Workers, Pods, Grants, Sessions
  <2> QED
    BY <1>a, <1>b, <2>1, ExecutionFrame
<1>16. CASE Settle
  <2>1. StartsNothing
    BY <1>16 DEF Settle, Final, StartsNothing, InTurn, Executing, Begun, Workers, Pods
  <2> QED
    BY <1>a, <1>b, <2>1, ExecutionFrame
<1>17. CASE SignTurnReceipt
  <2>1. StartsNothing
    BY <1>17 DEF SignTurnReceipt, CreateChallenge, StartsNothing, InTurn, Executing, Begun, Workers, Pods
  <2> QED
    BY <1>a, <1>b, <2>1, ExecutionFrame
<1>18. CASE BeginFence
  <2>0. /\ worker'.pc \in {"fencing", "stopping"} /\ worker'.sequence = worker.sequence
        /\ UNCHANGED <<session, grant, pod, checkout>>
    BY <1>18 DEF BeginFence, CreateChallenge, Workers
  <2>1. StartsNothing
    BY <2>0 DEF StartsNothing, InTurn, Executing
  <2> QED
    BY <1>a, <1>b, <2>1, ExecutionFrame
<1>19. CASE Fenced
  <2>1. StartsNothing
    BY <1>19 DEF Fenced, StartsNothing, InTurn, Executing, Begun, Workers, Pods
  <2> QED
    BY <1>a, <1>b, <2>1, ExecutionFrame
<1>20. CASE CloseSession
  <2>1. StartsNothing
    BY <1>20 DEF CloseSession, StartsNothing, InTurn, Executing, Begun, Workers, Pods
  <2> QED
    BY <1>a, <1>b, <2>1, ExecutionFrame
<1>21. CASE SignStopReceipt
  <2>1. StartsNothing
    BY <1>21 DEF SignStopReceipt, CreateChallenge, StartsNothing, InTurn, Executing, Begun, Workers, Pods
  <2> QED
    BY <1>a, <1>b, <2>1, ExecutionFrame
<1>22. CASE RelayRequest
  <2>1. StartsNothing
    BY <1>22 DEF RelayRequest, StartsNothing, InTurn, Executing, Begun, Workers, Pods
  <2> QED
    BY <1>a, <1>b, <2>1, ExecutionFrame
<1>23. CASE RelayReturns
  <2>1. StartsNothing
    BY <1>23 DEF RelayReturns, StartsNothing, InTurn, Executing, Begun, Workers, Pods
  <2> QED
    BY <1>a, <1>b, <2>1, ExecutionFrame
<1>24. CASE Enroll
  <2>1. /\ UNCHANGED <<grant, sent, pod, checkout>> /\ session'.active = session.active
        /\ worker'.sequence = worker.sequence
        /\ worker'.pc = worker.pc \/ (worker.pc = "enroll" /\ worker'.pc = "poll")
    BY <1>24 DEF Enroll, Sessions, Workers
  <2> QED
    BY <1>a, <2>1 DEF ExecutionInv, Executing, InTurn, Reported
<1>25. CASE PollSession
  <2>1. StartsNothing
    BY <1>25 DEF PollSession, StartsNothing, InTurn, Executing, Begun, Workers, Pods
  <2> QED
    BY <1>a, <1>b, <2>1, ExecutionFrame
<1>26. CASE PollAnswer
  <2>1. StartsNothing
    BY <1>26 DEF PollAnswer, StartsNothing, InTurn, Executing, Begun, Workers, Pods
  <2> QED
    BY <1>a, <1>b, <2>1, ExecutionFrame
<1>27. CASE PollReceive
  <2>1. worker.pc = "poll" /\ UNCHANGED <<session, grant, sent, pod, checkout>>
    BY <1>27 DEF PollReceive
  <2>2. CASE worker'.pc # "accept"
    <3>1. worker'.pc \in {"poll", "final"} /\ worker'.sequence = worker.sequence
      BY <1>27, <2>2 DEF PollReceive, Final, Workers
    <3>2. StartsNothing
      BY <2>1, <3>1 DEF StartsNothing, InTurn, Executing
    <3> QED
      BY <1>a, <1>b, <3>2, ExecutionFrame
  <2>3. CASE worker'.pc = "accept"
    <3>1. worker'.sequence = poll.seen.turn /\ poll.seen.turn > worker.sequence
      BY <1>27, <2>1, <2>3 DEF PollReceive, Final, Workers
    <3>2. poll.seen.turn \in Nat
      BY <1>27 DEF PollReceive, Polls, Bindings, NoPoll
    <3>3. \A n \in Turns : grant[n].state \in Begun => n < worker'.sequence
      BY <1>a, <1>d, <3>1, <3>2 DEF ExecutionInv, Begun
    <3>4. worker'.sequence # 0 /\ worker'.sequence \in Nat
      BY <1>d, <3>1, <3>2
    <3>5. \A n \in Turns : grant[n].state \in Begun => n <= worker'.sequence /\ n # worker'.sequence
      BY <1>d, <3>3, <3>4
    <3> QED
      BY <1>a, <2>1, <2>3, <3>4, <3>5 DEF ExecutionInv, Executing, InTurn, Begun
  <2> QED
    BY <2>2, <2>3
<1>28. CASE FinishingDeadline
  <2>1. StartsNothing
    BY <1>28 DEF FinishingDeadline, Final, StartsNothing, InTurn, Executing, Begun, Workers, Pods
  <2> QED
    BY <1>a, <1>b, <2>1, ExecutionFrame
<1>29. CASE Watch
  <2>1. StartsNothing
    BY <1>29 DEF Watch, StartsNothing, InTurn, Executing, Begun, Workers, Pods
  <2> QED
    BY <1>a, <1>b, <2>1, ExecutionFrame
<1>30. CASE Cancelled
  <2>1. StartsNothing
    BY <1>30 DEF Cancelled, Final, StartsNothing, InTurn, Executing, Begun, Workers, Pods
  <2> QED
    BY <1>a, <1>b, <2>1, ExecutionFrame
<1>31. CASE StopRequests
  <2>1. StartsNothing
    BY <1>31 DEF StopRequests, StartsNothing, InTurn, Executing, Begun, Workers, Pods
  <2> QED
    BY <1>a, <1>b, <2>1, ExecutionFrame
<1>32. CASE StopWriters
  <2>1. StartsNothing
    BY <1>32 DEF StopWriters, StartsNothing, InTurn, Executing, Begun, Workers, Pods
  <2> QED
    BY <1>a, <1>b, <2>1, ExecutionFrame
<1>33. CASE GiveUp
  <2>1. StartsNothing
    BY <1>33 DEF GiveUp, Final, StartsNothing, InTurn, Executing, Begun, Workers, Pods
  <2> QED
    BY <1>a, <1>b, <2>1, ExecutionFrame
<1>34. CASE PodEnds
  <2>1. StartsNothing
    BY <1>34 DEF PodEnds, NoProcesses, StartsNothing, InTurn, Executing, Begun, Workers, Pods
  <2> QED
    BY <1>a, <1>b, <2>1, ExecutionFrame
<1>35. CASE \E m \in sent : Serve(m)
  <2>1. PICK m \in sent : Serve(m)
    BY <1>35
  <2>2. UNCHANGED <<sent, pod, checkout>> /\ worker'.sequence = worker.sequence
    BY <2>1 DEF Serve, Hear, Final, Workers
  <2>3. /\ session'.active = session.active
        /\ \A n \in Turns : /\ grant'[n].state = grant[n].state
                            /\ m.op = "accept" /\ n = m.body /\ May(m) => grant'[n].accepted
                            /\ m.op = "accept" /\ n = m.body /\ Kept(m) => grant'[n].accepted
    <3>1. CASE UNCHANGED journalVars /\ (Kept(m) \/ ~May(m))
      BY <3>1 DEF Kept
    <3>2. CASE May(m) /\ Commit(m)
      BY <1>a, <3>2, CommitFacts DEF Kept
    <3> QED
      BY <2>1, <3>1, <3>2 DEF Serve
  <2>4. CASE worker.pc = "accepting" /\ worker'.pc = "attempt"
    <3>1. m.op = "accept" /\ m.body = worker.sequence /\ (Kept(m) \/ May(m))
      BY <1>a, <2>1, <2>4 DEF Serve, Hear, Final, Workers, SignedInv
    <3>2. worker.sequence \in Turns
      BY <1>a, <1>c, <2>4 DEF ExecutionInv, InTurn
    <3>3. grant'[worker.sequence].accepted
      BY <2>3, <3>1, <3>2
    <3> QED
      BY <1>a, <2>2, <2>3, <2>4, <3>2, <3>3 DEF ExecutionInv, Executing, InTurn, Begun
  <2>5. CASE worker.pc = "reporting" /\ worker'.pc = "poll"
    <3>1. Reported(worker.sequence) /\ Reported(worker.sequence)'
      BY <1>a, <2>2, <2>5 DEF SignedInv, Reported
    <3>2. ~pod.task /\ checkout # "running"
      BY <1>a, <3>1 DEF SettleInv, TurnQuiet
    <3>3. worker.sequence \in Turns
      BY <1>a, <1>c, <2>5 DEF ExecutionInv, InTurn
    <3> QED
      BY <1>a, <2>2, <2>3, <2>5, <3>1, <3>2, <3>3 DEF ExecutionInv, Executing, InTurn, Begun
  <2>6. CASE worker'.pc \notin {"attempt", "poll"} \/ worker' = worker
    <3>1. worker' = worker \/ worker'.pc \in {"final", "fencing", "closing", "ended"}
      BY <2>1, <2>6 DEF Serve, Hear, Final, Workers
    <3>2. StartsNothing
      BY <2>2, <2>3, <3>1 DEF StartsNothing, InTurn, Executing, Begun
    <3> QED
      BY <1>a, <1>b, <3>2, ExecutionFrame
  <2> QED
    BY <2>1, <2>4, <2>5, <2>6 DEF Serve, Hear, Final, Workers
<1>36. CASE UNCHANGED vars
  <2>1. StartsNothing
    BY <1>36 DEF StartsNothing, InTurn, Executing
  <2> QED
    BY <1>a, <1>b, <2>1, ExecutionFrame
<1> QED
  BY <1>1, <1>2, <1>3, <1>4, <1>5, <1>6, <1>7, <1>8, <1>9, <1>10, <1>11, <1>12, <1>13, <1>14, <1>15, <1>16, <1>17, <1>18, <1>19, <1>20, <1>21, <1>22, <1>23, <1>24, <1>25, <1>26, <1>27, <1>28, <1>29, <1>30, <1>31, <1>32, <1>33, <1>34, <1>35, <1>36 DEF Next, Controller, Turn, FinalStop, Tools

-----------------------------------------------------------------------------
(* What the cleanup of a turn established                                  *)

\* The phases that follow the receipt of a turn.
AfterReceipt == {"reporting", "poll", "final", "stopping", "fencing", "closing", "seal",
                 "sealing", "ended"}

\* A step that brings nothing of the turn back and reports nothing.
KeepsQuiet ==
    /\ worker'.sequence = worker.sequence
    /\ \A m \in sent' : m \in sent \/ m.op # "turn-receipt"
    /\ (pod'.task => pod.task) /\ (pod'.relay => pod.relay) /\ (pod'.private => pod.private)
    /\ pod'.request => pod.request \/ pod.relay
    /\ checkout' = "running" => checkout = "running"
    /\ worker'.pc \in BeforeSettle =>
          worker.pc \in BeforeSettle
             /\ worker'.requests = worker.requests /\ worker'.writers = worker.writers
    /\ worker'.pc = "settle" /\ worker'.requests = "stopped" =>
          worker.pc \in BeforeSettle \cup {"settle"} /\ worker.requests = "stopped"
    /\ worker'.pc = "settle" /\ worker'.writers = "stopped" =>
          worker.pc \in BeforeSettle \cup {"settle"} /\ worker.writers = "stopped"
    /\ worker'.pc = "receipt" => worker.pc = "receipt"
    /\ worker.pc \in AfterReceipt => worker'.pc \in AfterReceipt

\* A step that brings nothing back keeps what the cleanup established.
LEMMA SettleFrame ==
    ASSUME TypeOK, SignedInv, ExecutionInv, SettleInv, Grows, KeepsQuiet
    PROVE  SettleInv'
<1>1. Reported(worker.sequence)' => Reported(worker.sequence)
  BY DEF Reported, KeepsQuiet
<1>2. (worker.pc \in {"settle", "receipt"} \/ Reported(worker.sequence))
         /\ grant[worker.sequence].closed => grant'[worker.sequence].closed
  <2>1. worker.pc \in {"settle", "receipt"} \/ Reported(worker.sequence) => worker.sequence \in Turns
    BY DEF ExecutionInv, InTurn, SignedInv, Reported, TypeOK, Workers, Turns
  <2> QED
    BY <2>1 DEF Grows
<1>3. worker'.pc = "settle" /\ worker'.requests = "stopped" =>
         worker.pc = "settle" /\ worker.requests = "stopped"
  BY DEF KeepsQuiet, SettleInv
<1>4. worker'.pc = "settle" /\ worker'.writers = "stopped" =>
         worker.pc = "settle" /\ worker.writers = "stopped"
  BY DEF KeepsQuiet, SettleInv
<1>5. worker.pc \in {"settle", "receipt"} \/ Reported(worker.sequence) =>
         (TurnQuiet => TurnQuiet')
  BY <1>2 DEF TurnQuiet, KeepsQuiet
<1>6. worker'.pc \in BeforeSettle => worker'.requests = "open" /\ worker'.writers = "open"
  BY DEF KeepsQuiet, SettleInv
<1>7. worker'.pc = "settle" /\ worker'.requests = "stopped" =>
         /\ ~pod'.relay /\ ~pod'.request /\ checkout' # "running"
         /\ grant'[worker.sequence].closed
  BY <1>2, <1>3 DEF KeepsQuiet, SettleInv
<1>8. worker'.pc = "settle" /\ worker'.writers = "stopped" => ~pod'.task
  BY <1>4 DEF KeepsQuiet, SettleInv
<1>9. worker'.pc = "receipt" => TurnQuiet'
  BY <1>5 DEF KeepsQuiet, SettleInv
<1>10. Reported(worker.sequence)' => TurnQuiet' /\ worker'.pc \in AfterReceipt
  BY <1>1, <1>5 DEF KeepsQuiet, SettleInv, AfterReceipt
<1> QED
  BY <1>6, <1>7, <1>8, <1>9, <1>10 DEF SettleInv, KeepsQuiet, AfterReceipt

\* Every part of the cleanup lasts until the receipt, and after the receipt
\* nothing of the turn comes back.
LEMMA SettleStep ==
    TypeOK /\ SupervisorInv /\ [Next]_vars => SettleInv'
<1> SUFFICES ASSUME TypeOK, SupervisorInv, [Next]_vars PROVE SettleInv'
  OBVIOUS
<1> USE DEF TypeOK
<1>a. JournalInv /\ SignedInv /\ ExecutionInv /\ SettleInv /\ FinalInv
  BY DEF SupervisorInv
<1>b. Grows
  BY <1>a, JournalGrows
<1>c. InTurn => worker.sequence \in Turns
  BY <1>a DEF ExecutionInv, Workers, Turns
<1>1. CASE ReserveTurn
  <2>1. KeepsQuiet
    BY <1>1 DEF ReserveTurn, KeepsQuiet, BeforeSettle, AfterReceipt, Workers, Pods
  <2> QED
    BY <1>a, <1>b, <2>1, SettleFrame
<1>2. CASE PublishTurn
  <2>1. KeepsQuiet
    BY <1>2 DEF PublishTurn, KeepsQuiet, BeforeSettle, AfterReceipt, Workers, Pods
  <2> QED
    BY <1>a, <1>b, <2>1, SettleFrame
<1>3. CASE RequestSessionStop
  <2>1. KeepsQuiet
    BY <1>3 DEF RequestSessionStop, KeepsQuiet, BeforeSettle, AfterReceipt, Workers, Pods
  <2> QED
    BY <1>a, <1>b, <2>1, SettleFrame
<1>4. CASE CompleteTurn
  <2>1. KeepsQuiet
    BY <1>4 DEF CompleteTurn, KeepsQuiet, BeforeSettle, AfterReceipt, Workers, Pods
  <2> QED
    BY <1>a, <1>b, <2>1, SettleFrame
<1>5. CASE CloseCheckouts
  <2>1. KeepsQuiet
    BY <1>5 DEF CloseCheckouts, KeepsQuiet, BeforeSettle, AfterReceipt, Workers, Pods
  <2> QED
    BY <1>a, <1>b, <2>1, SettleFrame
<1>6. CASE RecordSessionControllerFlush
  <2>1. KeepsQuiet
    BY <1>6 DEF RecordSessionControllerFlush, KeepsQuiet, BeforeSettle, AfterReceipt, Workers, Pods
  <2> QED
    BY <1>a, <1>b, <2>1, SettleFrame
<1>7. CASE Checkout
  <2>1. UNCHANGED <<session, grant, sent, worker, pod>>
    BY <1>7 DEF Checkout
  <2>2. CASE checkout' # "running"
    <3>1. KeepsQuiet
      BY <2>1, <2>2 DEF KeepsQuiet
    <3> QED
      BY <1>a, <1>b, <3>1, SettleFrame
  <2>3. CASE checkout' = "running"
    <3>1. ~grant[worker.sequence].closed
      BY <1>7, <2>3 DEF Checkout
    <3> QED
      BY <1>a, <2>1, <3>1 DEF SettleInv, TurnQuiet, Reported
  <2> QED
    BY <2>2, <2>3
<1>8. CASE Crash
  <2>1. KeepsQuiet
    BY <1>8 DEF Crash, KeepsQuiet, BeforeSettle, AfterReceipt, Workers, Pods
  <2> QED
    BY <1>a, <1>b, <2>1, SettleFrame
<1>9. CASE SignAcceptance
  <2>1. KeepsQuiet
    BY <1>9 DEF SignAcceptance, CreateChallenge, KeepsQuiet, BeforeSettle, AfterReceipt, Workers, Pods
  <2> QED
    BY <1>a, <1>b, <2>1, SettleFrame
<1>10. CASE Prepare
  <2>1. worker.pc = "attempt" /\ worker.requests = "open" /\ worker.writers = "open"
    BY <1>10, <1>a DEF Prepare, SettleInv, BeforeSettle
  <2>2. /\ worker'.pc \in {"start", "settle"} /\ worker'.sequence = worker.sequence
        /\ worker'.requests = "open" /\ worker'.writers = "open" /\ sent' = sent
    BY <1>10, <2>1 DEF Prepare, Workers
  <2>3. ~Reported(worker.sequence)
    BY <1>a, <2>1 DEF SettleInv
  <2> QED
    BY <2>2, <2>3 DEF SettleInv, Reported, BeforeSettle
<1>11. CASE Start
  <2>1. KeepsQuiet
    BY <1>11 DEF Start, KeepsQuiet, BeforeSettle, AfterReceipt, Workers, Pods
  <2> QED
    BY <1>a, <1>b, <2>1, SettleFrame
<1>12. CASE Launch
  <2>1. worker.pc = "launch" /\ worker.requests = "open" /\ worker.writers = "open"
    BY <1>12, <1>a DEF Launch, SettleInv, BeforeSettle
  <2>2. /\ worker'.pc \in {"running", "settle"} /\ worker'.sequence = worker.sequence
        /\ worker'.requests = "open" /\ worker'.writers = "open" /\ sent' = sent
    BY <1>12, <2>1 DEF Launch, Workers
  <2>3. ~Reported(worker.sequence)
    BY <1>a, <2>1 DEF SettleInv
  <2> QED
    BY <2>2, <2>3 DEF SettleInv, Reported, BeforeSettle
<1>13. CASE ProviderEnds
  <2>1. KeepsQuiet
    BY <1>13 DEF ProviderEnds, KeepsQuiet, BeforeSettle, AfterReceipt, Workers, Pods
  <2> QED
    BY <1>a, <1>b, <2>1, SettleFrame
<1>14. CASE CheckoutStop
  <2>1. /\ worker.pc = "settle" /\ worker'.pc = "settle" /\ worker'.sequence = worker.sequence
        /\ worker'.writers = worker.writers
        /\ worker'.requests = "stopped" => checkout # "running"
        /\ ~pod.relay /\ ~pod.request /\ UNCHANGED <<sent, pod, checkout>>
    BY <1>14 DEF CheckoutStop, RequestsStopped, Workers
  <2>2. grant'[worker.sequence].closed
    BY <1>14, <1>c, <2>1 DEF CheckoutStop, Grants, InTurn
  <2>3. ~Reported(worker.sequence)
    BY <1>a, <2>1 DEF SettleInv
  <2> QED
    BY <1>a, <2>1, <2>2, <2>3 DEF SettleInv, Reported, BeforeSettle
<1>15. CASE ReportResult
  <2>1. KeepsQuiet
    BY <1>15 DEF ReportResult, KeepsQuiet, BeforeSettle, AfterReceipt, Workers, Pods
  <2> QED
    BY <1>a, <1>b, <2>1, SettleFrame
<1>16. CASE Settle
  <2>1. worker.pc = "settle" /\ UNCHANGED <<session, grant, sent, checkout>>
    BY <1>16 DEF Settle
  <2>2. ~Reported(worker.sequence)
    BY <1>a, <2>1 DEF SettleInv
  <2>3. worker'.sequence = worker.sequence /\ worker'.pc \in {"receipt", "final"}
    BY <1>16 DEF Settle, Final, Workers
  <2>4. ASSUME worker'.pc = "receipt" PROVE TurnQuiet'
    <3>1. worker.requests = "stopped" /\ worker.writers = "stopped"
          /\ pod' = [pod EXCEPT !.private = FALSE]
      BY <1>16, <2>4 DEF Settle, Final, Cleaned, Workers, Pods
    <3> QED
      BY <1>a, <2>1, <2>3, <3>1 DEF SettleInv, TurnQuiet, Pods
  <2> QED
    BY <2>1, <2>2, <2>3, <2>4 DEF SettleInv, Reported, BeforeSettle
<1>17. CASE SignTurnReceipt
  <2>1. worker.pc = "receipt" /\ CreateChallenge("turn-receipt", worker.sequence, "reporting")
    BY <1>17 DEF SignTurnReceipt
  <2>2. /\ worker'.pc = "reporting" /\ worker'.sequence = worker.sequence
        /\ UNCHANGED <<grant, pod, checkout>>
    BY <2>1 DEF CreateChallenge, Workers
  <2>3. TurnQuiet'
    BY <1>a, <2>1, <2>2 DEF SettleInv, TurnQuiet
  <2> QED
    BY <2>2, <2>3 DEF SettleInv, BeforeSettle
<1>18. CASE BeginFence
  <2>1. /\ worker'.pc \in {"fencing", "stopping"} /\ worker'.sequence = worker.sequence
        /\ \A m \in sent' : m \in sent \/ m.op = "stop-request"
        /\ UNCHANGED <<session, grant, pod, checkout>>
    <3>1. CASE worker.stop
      BY <1>18, <3>1 DEF BeginFence, Workers
    <3>2. CASE ~worker.stop
      <4>1. CreateChallenge("stop-request", 0, "stopping")
        BY <1>18, <3>2 DEF BeginFence
      <4> QED
        BY <4>1 DEF CreateChallenge, Workers
    <3> QED
      BY <3>1, <3>2
  <2>2. KeepsQuiet
    BY <2>1 DEF KeepsQuiet, BeforeSettle, AfterReceipt
  <2> QED
    BY <1>a, <1>b, <2>2, SettleFrame
<1>19. CASE Fenced
  <2>1. KeepsQuiet
    BY <1>19 DEF Fenced, KeepsQuiet, BeforeSettle, AfterReceipt, Workers, Pods
  <2> QED
    BY <1>a, <1>b, <2>1, SettleFrame
<1>20. CASE CloseSession
  <2>1. KeepsQuiet
    BY <1>20 DEF CloseSession, KeepsQuiet, BeforeSettle, AfterReceipt, Workers, Pods
  <2> QED
    BY <1>a, <1>b, <2>1, SettleFrame
<1>21. CASE SignStopReceipt
  <2>1. KeepsQuiet
    BY <1>21 DEF SignStopReceipt, CreateChallenge, KeepsQuiet, BeforeSettle, AfterReceipt, Workers, Pods
  <2> QED
    BY <1>a, <1>b, <2>1, SettleFrame
<1>22. CASE RelayRequest
  <2>1. KeepsQuiet
    BY <1>22 DEF RelayRequest, KeepsQuiet, BeforeSettle, AfterReceipt, Workers, Pods
  <2> QED
    BY <1>a, <1>b, <2>1, SettleFrame
<1>23. CASE RelayReturns
  <2>1. KeepsQuiet
    BY <1>23 DEF RelayReturns, KeepsQuiet, BeforeSettle, AfterReceipt, Workers, Pods
  <2> QED
    BY <1>a, <1>b, <2>1, SettleFrame
<1>24. CASE Enroll
  <2>1. KeepsQuiet
    BY <1>24 DEF Enroll, KeepsQuiet, BeforeSettle, AfterReceipt, Workers, Pods
  <2> QED
    BY <1>a, <1>b, <2>1, SettleFrame
<1>25. CASE PollSession
  <2>1. KeepsQuiet
    BY <1>25 DEF PollSession, KeepsQuiet, BeforeSettle, AfterReceipt, Workers, Pods
  <2> QED
    BY <1>a, <1>b, <2>1, SettleFrame
<1>26. CASE PollAnswer
  <2>1. KeepsQuiet
    BY <1>26 DEF PollAnswer, KeepsQuiet, BeforeSettle, AfterReceipt, Workers, Pods
  <2> QED
    BY <1>a, <1>b, <2>1, SettleFrame
<1>27. CASE PollReceive
  <2>1. worker.pc = "poll" /\ UNCHANGED <<session, grant, sent, pod, checkout>>
    BY <1>27 DEF PollReceive
  <2>2. CASE worker'.pc # "accept"
    <3>1. worker'.pc \in {"poll", "final"} /\ worker'.sequence = worker.sequence
      BY <1>27, <2>2 DEF PollReceive, Final, Workers
    <3>2. KeepsQuiet
      BY <2>1, <3>1 DEF KeepsQuiet, BeforeSettle, AfterReceipt
    <3> QED
      BY <1>a, <1>b, <3>2, SettleFrame
  <2>3. CASE worker'.pc = "accept"
    <3>1. /\ worker'.sequence = poll.seen.turn /\ poll.seen.turn > worker.sequence
          /\ worker'.requests = "open" /\ worker'.writers = "open"
      BY <1>27, <2>1, <2>3 DEF PollReceive, Final, Workers
    <3>2. poll.seen.turn \in Nat /\ worker.sequence \in Nat
      BY <1>27 DEF PollReceive, Polls, Bindings, NoPoll, Workers
    <3>3. ~Reported(poll.seen.turn)
      BY <1>a, <3>1, <3>2 DEF SignedInv, Reported, Turns
    <3> QED
      BY <2>1, <2>3, <3>1, <3>3 DEF SettleInv, Reported, BeforeSettle
  <2> QED
    BY <2>2, <2>3
<1>28. CASE FinishingDeadline
  <2>1. KeepsQuiet
    BY <1>28 DEF FinishingDeadline, Final, KeepsQuiet, BeforeSettle, AfterReceipt, Workers, Pods
  <2> QED
    BY <1>a, <1>b, <2>1, SettleFrame
<1>29. CASE Watch
  <2>1. KeepsQuiet
    BY <1>29 DEF Watch, KeepsQuiet, BeforeSettle, AfterReceipt, Workers, Pods
  <2> QED
    BY <1>a, <1>b, <2>1, SettleFrame
<1>30. CASE Cancelled
  <2>1. KeepsQuiet
    BY <1>30 DEF Cancelled, Final, KeepsQuiet, BeforeSettle, AfterReceipt, Workers, Pods
  <2> QED
    BY <1>a, <1>b, <2>1, SettleFrame
<1>31. CASE StopRequests
  <2>1. KeepsQuiet
    BY <1>31 DEF StopRequests, KeepsQuiet, BeforeSettle, AfterReceipt, Workers, Pods
  <2> QED
    BY <1>a, <1>b, <2>1, SettleFrame
<1>32. CASE StopWriters
  <2>1. /\ UNCHANGED <<session, grant, sent, checkout>>
        /\ worker'.pc = worker.pc /\ worker'.sequence = worker.sequence
        /\ worker'.requests = worker.requests
        /\ worker'.writers = "stopped" => ~pod'.task
        /\ worker'.writers # "open" /\ Cleaning
    BY <1>32 DEF StopWriters, Workers, Pods
  <2>2. /\ (pod'.task => pod.task) /\ pod'.relay = pod.relay /\ pod'.private = pod.private
        /\ pod'.request = pod.request
    BY <1>32 DEF StopWriters, Pods
  <2>3. TurnQuiet => TurnQuiet'
    BY <2>1, <2>2 DEF TurnQuiet
  <2>4. Reported(worker.sequence)' => Reported(worker.sequence)
    BY <2>1 DEF Reported
  <2> QED
    BY <1>a, <2>1, <2>2, <2>3, <2>4 DEF SettleInv, BeforeSettle, Cleaning
<1>33. CASE GiveUp
  <2>1. KeepsQuiet
    BY <1>33 DEF GiveUp, Final, KeepsQuiet, BeforeSettle, AfterReceipt, Workers, Pods
  <2> QED
    BY <1>a, <1>b, <2>1, SettleFrame
<1>34. CASE PodEnds
  <2>1. KeepsQuiet
    BY <1>34 DEF PodEnds, KeepsQuiet, BeforeSettle, AfterReceipt, Workers, Pods, NoProcesses
  <2> QED
    BY <1>a, <1>b, <2>1, SettleFrame
<1>35. CASE \E m \in sent : Serve(m)
  <2>1. PICK m \in sent : Serve(m)
    BY <1>35
  <2>2. UNCHANGED <<sent, pod, checkout>> /\ worker'.sequence = worker.sequence
    BY <2>1 DEF Serve, Hear, Final, Workers
  <2>3. \/ worker' = worker
        \/ worker'.pc \in {"poll", "final", "fencing", "closing", "ended"}
        \/ /\ worker.pc = "accepting" /\ worker'.pc = "attempt"
           /\ worker'.requests = worker.requests /\ worker'.writers = worker.writers
    BY <2>1 DEF Serve, Hear, Final, Workers
  <2>4. KeepsQuiet
    BY <2>2, <2>3 DEF KeepsQuiet, BeforeSettle, AfterReceipt
  <2> QED
    BY <1>a, <1>b, <2>4, SettleFrame
<1>36. CASE UNCHANGED vars
  <2>1. KeepsQuiet
    BY <1>36 DEF KeepsQuiet, BeforeSettle, AfterReceipt
  <2> QED
    BY <1>a, <1>b, <2>1, SettleFrame
<1> QED
  BY <1>1, <1>2, <1>3, <1>4, <1>5, <1>6, <1>7, <1>8, <1>9, <1>10, <1>11, <1>12, <1>13, <1>14, <1>15, <1>16, <1>17, <1>18, <1>19, <1>20, <1>21, <1>22, <1>23, <1>24, <1>25, <1>26, <1>27, <1>28, <1>29, <1>30, <1>31, <1>32, <1>33, <1>34, <1>35, <1>36 DEF Next, Controller, Turn, FinalStop, Tools

-----------------------------------------------------------------------------
(* The final stop                                                          *)

\* The phases of the final stop before its receipt.
Stopping == {"final", "stopping", "fencing", "closing"}

\* A step that starts nothing in the Pod, signs no clean end, and goes on in
\* the final stop without a claim of its own.
KeepsStopped ==
    /\ \A m \in sent' : m \in sent \/ m.op # "stop-receipt" \/ m.body # 1
    /\ (pod'.task => pod.task) /\ (pod'.desktop => pod.desktop)
    /\ (pod'.relay => pod.relay) /\ (pod'.private => pod.private)
    /\ pod'.request => pod.request \/ pod.relay
    /\ checkout' = "running" => checkout = "running"
    /\ session'.fenced = session.fenced
    /\ worker'.pc \in Stopping /\ worker'.writers = "stopped" =>
          worker.pc \in Stopping /\ worker.writers = "stopped"
    /\ worker'.pc \in {"stopping", "fencing"} =>
          worker.pc \in {"stopping", "fencing"} \/ (~pod.relay /\ ~pod.request)
    /\ worker'.pc = "closing" /\ worker'.requests = "stopped" =>
          worker.pc = "closing" /\ worker.requests = "stopped"
    /\ worker'.pc = "seal" /\ worker'.result => worker.pc = "seal" /\ worker.result
    /\ worker.pc \in {"sealing", "ended"} => worker'.pc \in {"sealing", "ended"}

\* A step that starts nothing and claims nothing keeps the facts of the final
\* stop.
LEMMA FinalFrame ==
    ASSUME FinalInv, KeepsStopped
    PROVE  FinalInv'
<1>1. SealedClean' => SealedClean
  BY DEF SealedClean, KeepsStopped
<1>2. PodQuiet => PodQuiet'
  BY DEF PodQuiet, KeepsStopped
<1>3. SealedClean' => PodQuiet' /\ session'.fenced /\ worker'.pc \in {"sealing", "ended"}
  BY <1>1, <1>2 DEF FinalInv, KeepsStopped
<1>4. worker'.pc = "seal" /\ worker'.result => PodQuiet' /\ session'.fenced
  BY <1>2 DEF FinalInv, KeepsStopped
<1>5. worker'.pc \in Stopping /\ worker'.writers = "stopped" => ~pod'.task /\ ~pod'.desktop
  BY DEF FinalInv, KeepsStopped, Stopping
<1>6. worker'.pc \in {"stopping", "fencing"} => ~pod'.relay /\ ~pod'.request
  BY DEF FinalInv, KeepsStopped
<1>7. worker'.pc = "closing" /\ worker'.requests = "stopped" =>
         ~pod'.relay /\ ~pod'.request /\ session'.fenced
  BY DEF FinalInv, KeepsStopped
<1>8. session'.fenced => checkout' # "running"
  BY DEF FinalInv, KeepsStopped
<1> QED
  BY <1>3, <1>4, <1>5, <1>6, <1>7, <1>8 DEF FinalInv, Stopping

\* A clean end is only signed, and a fence only recorded, when nothing runs
\* and nothing can begin.
LEMMA FinalStep ==
    TypeOK /\ SupervisorInv /\ [Next]_vars => FinalInv'
<1> SUFFICES ASSUME TypeOK, SupervisorInv, [Next]_vars PROVE FinalInv'
  OBVIOUS
<1> USE DEF TypeOK
<1>a. JournalInv /\ SignedInv /\ ExecutionInv /\ SettleInv /\ FinalInv
  BY DEF SupervisorInv
<1>1. CASE ReserveTurn
  <2>1. KeepsStopped
    BY <1>1 DEF ReserveTurn, KeepsStopped, Stopping, Workers, Pods, Sessions
  <2> QED
    BY <1>a, <2>1, FinalFrame
<1>2. CASE PublishTurn
  <2>1. KeepsStopped
    BY <1>2 DEF PublishTurn, KeepsStopped, Stopping, Workers, Pods, Sessions
  <2> QED
    BY <1>a, <2>1, FinalFrame
<1>3. CASE RequestSessionStop
  <2>1. KeepsStopped
    BY <1>3, <1>a, StopFacts DEF RequestSessionStop, KeepsStopped, Stopping, Workers, Pods
  <2> QED
    BY <1>a, <2>1, FinalFrame
<1>4. CASE CompleteTurn
  <2>1. KeepsStopped
    BY <1>4 DEF CompleteTurn, KeepsStopped, Stopping, Workers, Pods, Sessions
  <2> QED
    BY <1>a, <2>1, FinalFrame
<1>5. CASE CloseCheckouts
  <2>1. KeepsStopped
    BY <1>5 DEF CloseCheckouts, KeepsStopped, Stopping, Workers, Pods
  <2> QED
    BY <1>a, <2>1, FinalFrame
<1>6. CASE RecordSessionControllerFlush
  <2>1. /\ session.stop
        /\ session.stopActive # 0 => checkout # "running"
        /\ UNCHANGED <<sent, worker, pod, checkout>> /\ session'.fenced
    BY <1>6 DEF RecordSessionControllerFlush, Sessions
  <2>2. session.stopActive = 0 => checkout # "running"
    BY <1>a, <2>1 DEF JournalInv, ExecutionInv
  <2> QED
    BY <1>a, <2>1, <2>2 DEF FinalInv, PodQuiet, SealedClean
<1>7. CASE Checkout
  <2>1. UNCHANGED <<session, grant, sent, worker, pod>>
    BY <1>7 DEF Checkout
  <2>2. ASSUME session.fenced PROVE checkout' # "running"
    <3>1. checkout # "running" /\ session.stop
      BY <1>a, <2>2 DEF FinalInv, JournalInv
    <3>2. checkout = "sent" => worker.sequence \in Turns
      BY <1>a DEF ExecutionInv, Workers, Turns
    <3>3. checkout = "sent" => grant[worker.sequence].state = "none" \/ grant[worker.sequence].revoked
      BY <1>a, <3>1, <3>2 DEF JournalInv
    <3> QED
      BY <1>7, <3>1, <3>3 DEF Checkout
  <2> QED
    BY <1>a, <2>1, <2>2 DEF FinalInv, PodQuiet, SealedClean
<1>8. CASE Crash
  <2>1. KeepsStopped
    BY <1>8 DEF Crash, KeepsStopped, Stopping, Workers, Pods
  <2> QED
    BY <1>a, <2>1, FinalFrame
<1>9. CASE SignAcceptance
  <2>1. KeepsStopped
    BY <1>9 DEF SignAcceptance, CreateChallenge, KeepsStopped, Stopping, Workers, Pods
  <2> QED
    BY <1>a, <2>1, FinalFrame
<1>10. CASE Prepare
  <2>1. /\ worker.pc = "attempt" /\ worker'.pc \in {"start", "settle"}
        /\ UNCHANGED <<session, sent, checkout>>
    BY <1>10 DEF Prepare, Workers
  <2> QED
    BY <1>a, <2>1 DEF FinalInv, SealedClean
<1>11. CASE Start
  <2>1. KeepsStopped
    BY <1>11 DEF Start, KeepsStopped, Stopping, Workers, Pods, Sessions
  <2> QED
    BY <1>a, <2>1, FinalFrame
<1>12. CASE Launch
  <2>1. /\ worker.pc = "launch" /\ worker'.pc \in {"running", "settle"}
        /\ UNCHANGED <<session, sent, checkout>>
    BY <1>12 DEF Launch, Workers
  <2> QED
    BY <1>a, <2>1 DEF FinalInv, SealedClean
<1>13. CASE ProviderEnds
  <2>1. KeepsStopped
    BY <1>13 DEF ProviderEnds, KeepsStopped, Stopping, Workers, Pods
  <2> QED
    BY <1>a, <2>1, FinalFrame
<1>14. CASE CheckoutStop
  <2>1. KeepsStopped
    BY <1>14 DEF CheckoutStop, KeepsStopped, Stopping, Workers, Pods
  <2> QED
    BY <1>a, <2>1, FinalFrame
<1>15. CASE ReportResult
  <2>1. KeepsStopped
    BY <1>15 DEF ReportResult, KeepsStopped, Stopping, Workers, Pods
  <2> QED
    BY <1>a, <2>1, FinalFrame
<1>16. CASE Settle
  <2>1. KeepsStopped
    BY <1>16 DEF Settle, Final, KeepsStopped, Stopping, Workers, Pods
  <2> QED
    BY <1>a, <2>1, FinalFrame
<1>17. CASE SignTurnReceipt
  <2>1. KeepsStopped
    BY <1>17 DEF SignTurnReceipt, CreateChallenge, KeepsStopped, Stopping, Workers, Pods
  <2> QED
    BY <1>a, <2>1, FinalFrame
<1>18. CASE BeginFence
  <2>1. /\ worker.pc = "final" /\ worker'.pc \in {"fencing", "stopping"}
        /\ worker'.writers = worker.writers /\ ~pod.relay /\ ~pod.request
        /\ \A m \in sent' : m \in sent \/ m.op = "stop-request"
        /\ UNCHANGED <<session, grant, pod, checkout>>
    <3>1. CASE worker.stop
      BY <1>18, <3>1 DEF BeginFence, RequestsStopped, Workers
    <3>2. CASE ~worker.stop
      <4>1. CreateChallenge("stop-request", 0, "stopping")
        BY <1>18, <3>2 DEF BeginFence
      <4> QED
        BY <1>18, <4>1 DEF BeginFence, CreateChallenge, RequestsStopped, Workers
    <3> QED
      BY <3>1, <3>2
  <2>2. KeepsStopped
    BY <2>1 DEF KeepsStopped, Stopping
  <2> QED
    BY <1>a, <2>2, FinalFrame
<1>19. CASE Fenced
  <2>1. /\ worker.pc = "fencing" /\ session.fenced /\ worker'.pc = "closing"
        /\ worker'.writers = worker.writers
        /\ UNCHANGED <<session, sent, pod, checkout>>
    BY <1>19 DEF Fenced, Workers
  <2> QED
    BY <1>a, <2>1 DEF FinalInv, SealedClean, PodQuiet
<1>20. CASE CloseSession
  <2>1. /\ worker.pc = "closing" /\ worker'.pc \in {"seal", "ended"}
        /\ UNCHANGED <<session, sent, checkout>>
    BY <1>20 DEF CloseSession, Workers
  <2>2. ASSUME worker'.result PROVE PodQuiet' /\ session.fenced
    <3>1. /\ worker.requests = "stopped" /\ worker.writers = "stopped"
          /\ pod' = [pod EXCEPT !.private = FALSE]
      BY <1>20, <2>2 DEF CloseSession, Cleaned, Workers, Pods
    <3> QED
      BY <1>a, <2>1, <3>1 DEF FinalInv, PodQuiet, Pods
  <2> QED
    BY <1>a, <2>1, <2>2 DEF FinalInv, SealedClean
<1>21. CASE SignStopReceipt
  <2>1. worker.pc = "seal" /\ CreateChallenge("stop-receipt", IF worker.result THEN 1 ELSE 0, "sealing")
    BY <1>21 DEF SignStopReceipt
  <2>2. /\ worker'.pc = "sealing" /\ UNCHANGED <<session, pod, checkout>>
        /\ \A m \in sent' : m \in sent \/ m.body = IF worker.result THEN 1 ELSE 0
    BY <2>1 DEF CreateChallenge, Workers
  <2>3. worker.result \in BOOLEAN
    BY DEF Workers
  <2>4. SealedClean' => SealedClean \/ worker.result
    BY <2>2, <2>3 DEF SealedClean
  <2>5. SealedClean' => PodQuiet' /\ session'.fenced
    BY <1>a, <2>1, <2>2, <2>4 DEF FinalInv, PodQuiet
  <2> QED
    BY <1>a, <2>2, <2>5 DEF FinalInv
<1>22. CASE RelayRequest
  <2>1. KeepsStopped
    BY <1>22 DEF RelayRequest, KeepsStopped, Stopping, Workers, Pods
  <2> QED
    BY <1>a, <2>1, FinalFrame
<1>23. CASE RelayReturns
  <2>1. KeepsStopped
    BY <1>23 DEF RelayReturns, KeepsStopped, Stopping, Workers, Pods
  <2> QED
    BY <1>a, <2>1, FinalFrame
<1>24. CASE Enroll
  <2>1. KeepsStopped
    BY <1>24 DEF Enroll, KeepsStopped, Stopping, Workers, Pods, Sessions
  <2> QED
    BY <1>a, <2>1, FinalFrame
<1>25. CASE PollSession
  <2>1. KeepsStopped
    BY <1>25 DEF PollSession, KeepsStopped, Stopping, Workers, Pods
  <2> QED
    BY <1>a, <2>1, FinalFrame
<1>26. CASE PollAnswer
  <2>1. KeepsStopped
    BY <1>26 DEF PollAnswer, KeepsStopped, Stopping, Workers, Pods
  <2> QED
    BY <1>a, <2>1, FinalFrame
<1>27. CASE PollReceive
  <2>1. KeepsStopped
    BY <1>27 DEF PollReceive, Final, KeepsStopped, Stopping, Workers, Pods
  <2> QED
    BY <1>a, <2>1, FinalFrame
<1>28. CASE FinishingDeadline
  <2>1. KeepsStopped
    BY <1>28 DEF FinishingDeadline, Final, KeepsStopped, Stopping, Workers, Pods
  <2> QED
    BY <1>a, <2>1, FinalFrame
<1>29. CASE Watch
  <2>1. KeepsStopped
    BY <1>29 DEF Watch, KeepsStopped, Stopping, Workers, Pods
  <2> QED
    BY <1>a, <2>1, FinalFrame
<1>30. CASE Cancelled
  <2>1. KeepsStopped
    BY <1>30 DEF Cancelled, Final, KeepsStopped, Stopping, Workers, Pods
  <2> QED
    BY <1>a, <2>1, FinalFrame
<1>31. CASE StopRequests
  <2>1. KeepsStopped
    BY <1>31 DEF StopRequests, KeepsStopped, Stopping, Workers, Pods
  <2> QED
    BY <1>a, <2>1, FinalFrame
<1>32. CASE StopWriters
  <2>1. /\ UNCHANGED <<session, sent, checkout>> /\ worker'.pc = worker.pc
        /\ worker'.requests = worker.requests /\ worker'.result = worker.result
        /\ worker.pc \in Stopping /\ worker'.writers = "stopped" => ~pod'.task /\ ~pod'.desktop
    BY <1>32 DEF StopWriters, Workers, Pods, Stopping
  <2>2. /\ (pod'.task => pod.task) /\ (pod'.desktop => pod.desktop) /\ pod'.relay = pod.relay
        /\ pod'.private = pod.private /\ pod'.request = pod.request
    BY <1>32 DEF StopWriters, Pods
  <2>3. PodQuiet => PodQuiet'
    BY <2>2 DEF PodQuiet
  <2> QED
    BY <1>a, <2>1, <2>2, <2>3 DEF FinalInv, SealedClean, Stopping
<1>33. CASE GiveUp
  <2>1. KeepsStopped
    BY <1>33 DEF GiveUp, Final, KeepsStopped, Stopping, Workers, Pods
  <2> QED
    BY <1>a, <2>1, FinalFrame
<1>34. CASE PodEnds
  <2>1. KeepsStopped
    BY <1>34 DEF PodEnds, KeepsStopped, Stopping, Workers, Pods, NoProcesses
  <2> QED
    BY <1>a, <2>1, FinalFrame
<1>35. CASE \E m \in sent : Serve(m)
  <2>1. PICK m \in sent : Serve(m)
    BY <1>35
  <2>2. UNCHANGED <<sent, pod, checkout>> /\ session'.fenced = session.fenced
    BY <1>a, <2>1, CommitFacts DEF Serve
  <2>3. \/ worker' = worker
        \/ worker'.pc \in {"attempt", "poll", "ended"} /\ worker.pc \notin {"sealing", "ended"}
        \/ worker.pc = "sealing" /\ worker'.pc = "ended"
        \/ /\ worker'.pc = "final" /\ worker'.writers = "open"
           /\ worker.pc \notin {"sealing", "ended"}
        \/ /\ worker.pc = "stopping" /\ worker'.writers = worker.writers
           /\ worker'.pc = "fencing" \/ (worker'.pc = "closing" /\ worker'.requests = "failed")
    BY <2>1 DEF Serve, Hear, Final, Workers
  <2>4. KeepsStopped
    BY <2>2, <2>3 DEF KeepsStopped, Stopping
  <2> QED
    BY <1>a, <2>4, FinalFrame
<1>36. CASE UNCHANGED vars
  <2>1. KeepsStopped
    BY <1>36 DEF KeepsStopped, Stopping
  <2> QED
    BY <1>a, <2>1, FinalFrame
<1> QED
  BY <1>1, <1>2, <1>3, <1>4, <1>5, <1>6, <1>7, <1>8, <1>9, <1>10, <1>11, <1>12, <1>13, <1>14, <1>15, <1>16, <1>17, <1>18, <1>19, <1>20, <1>21, <1>22, <1>23, <1>24, <1>25, <1>26, <1>27, <1>28, <1>29, <1>30, <1>31, <1>32, <1>33, <1>34, <1>35, <1>36 DEF Next, Controller, Turn, FinalStop, Tools

-----------------------------------------------------------------------------
(* The theorems                                                            *)

\* The supervisor starts with nothing signed and nothing running.
LEMMA SupervisorInit == Init => SupervisorInv
<1> SUFFICES ASSUME Init PROVE SupervisorInv
  OBVIOUS
<1>1. JournalInv
  BY DEF Init, JournalInv, NoPoll
<1>2. SignedInv
  BY DEF Init, SignedInv
<1>3. ExecutionInv
  BY DEF Init, ExecutionInv, Executing, InTurn, NoProcesses
<1>4. SettleInv
  BY DEF Init, SettleInv, Reported, BeforeSettle
<1>5. FinalInv
  BY DEF Init, FinalInv, SealedClean
<1> QED
  BY <1>1, <1>2, <1>3, <1>4, <1>5 DEF SupervisorInv

\* In every state of the supervisor the types hold, and with them what the
\* journal says of the worker's turn, what was signed, what runs, and what each
\* part of a cleanup and of the final stop established (settle, finalStop,
\* workerSessionControl).
THEOREM SupervisorInvariant == Spec => [](TypeOK /\ SupervisorInv)
<1>1. Init => TypeOK /\ SupervisorInv
  BY TypeInit, SupervisorInit
<1>2. TypeOK /\ SupervisorInv /\ [Next]_vars => (TypeOK /\ SupervisorInv)'
  <2> SUFFICES ASSUME TypeOK, SupervisorInv, [Next]_vars PROVE (TypeOK /\ SupervisorInv)'
    OBVIOUS
  <2>1. JournalInv /\ SignedInv /\ ExecutionInv
    BY DEF SupervisorInv
  <2> QED
    BY <2>1, TypeStep, JournalStep, SignedStep, ExecutionStep, SettleStep, FinalStep
       DEF SupervisorInv
<1> QED
  BY <1>1, <1>2, PTL DEF Spec

\* A receipt in the journal says what is true of the Pod (RecordTurnExecution-
\* Receipt, RecordSessionStopReceipt), whichever copy of it was served.
THEOREM SealsSafe == Spec => []SealsHold
<1>1. TypeOK /\ SupervisorInv => SealsHold
  <2> SUFFICES ASSUME TypeOK, SupervisorInv PROVE SealsHold
    OBVIOUS
  <2>1. SignedInv /\ SettleInv /\ FinalInv
    BY DEF SupervisorInv
  <2>2. ASSUME NEW n \in Turns, grant[n].receipt, worker.sequence = n
        PROVE  ~pod.task /\ ~pod.request /\ ~pod.private /\ checkout # "running"
    BY <2>1, <2>2 DEF SignedInv, SettleInv, TurnQuiet
  <2>3. ASSUME session.receipt = "clean"
        PROVE  PodQuiet /\ checkout # "running"
    BY <2>1, <2>3 DEF SignedInv, FinalInv
  <2>4. PodQuiet => pod = NoProcesses
    BY DEF PodQuiet, NoProcesses, TypeOK, Pods
  <2> QED
    BY <2>2, <2>3, <2>4 DEF SealsHold
<1> QED
  BY <1>1, SupervisorInvariant, PTL

\* The journal holds no acceptance the worker has not consumed, and what runs
\* was accepted (AcceptTurn, execute).
THEOREM AcceptanceSafe == Spec => []AcceptanceIsOwn
<1>1. TypeOK /\ SupervisorInv => AcceptanceIsOwn
  BY DEF SupervisorInv, SignedInv, ExecutionInv, AcceptanceIsOwn
<1> QED
  BY <1>1, SupervisorInvariant, PTL
=============================================================================
