# Verification of the Multica runtime controller

TLA+ models of the runtime controller, the TLC configurations that check them
on small instances, and TLAPS proofs of the properties that matter most for
every instance. Paths such as `workspace/grant.go` are relative to
`src/internal/` of the repository.

## The system

One controller (a single replica) claims tasks from the Multica backend and
executes each of them as a *turn* of a *worker session*: a Pod with a
supervisor, bound to one *storage root* of the installation's volume. A session
stays resident after its turn and may serve the next turn of the same
conversation; otherwise it is stopped, its Pod ends, and the root is released,
clean or dirty. Everything the controller decides is recorded in a private
journal, and a restarted controller goes on from the journal alone.

| Part | State it keeps | Operations | Hard behaviour |
| --- | --- | --- | --- |
| Registry (`workspace/store.go`, `grant.go`, `conversation*.go`) | task grants, outbox records, worker sessions, storage roots, conversation heads | one transaction per method, whole registry validated before each write (`validate.go`, `session_validate.go`) | five records that must agree after every step |
| Claim, selection, reservation (`workspace/session_reservation.go`, `resident.go`, `controller/turn_inputs.go`, `turn_workspace.go`) | selection of a grant, its session and root | QueueClaim, RecordSelection, ReserveTurn, ExpireSession, DrainIdleSession | selection goes stale before reservation; expiry, eviction and reservation race |
| Turn control (`workspace/session_control.go`, `grant.go`, `checkout.go`, `controller/session_provision.go`, `prepare.go`, `checkout.go`) | state of the grant, preparation and checkout processes, Pod binding | preparation, Pod creation, admission, publication, acceptance, start, checkouts | lost create acknowledgements; helpers that outlive the controller |
| Outbox and delivery (`workspace/outbox.go`, `result_receipt.go`, `session_lifecycle.go`, `controller/turn_delivery.go`, `reconcile.go`) | one terminal record per attempt, its receipt, its recovery failure | receive, authenticate, forward, reject, witness, complete | requests of unknown fate, late receipts, failures racing results |
| Session stop (`workspace/session_lifecycle.go`, `stop.go`, `controller/session_reconcile.go`, `session_gateway.go`, `stop.go`) | stop record: fenced turn, fence, receipt, evidence | stop, fence, receipt, evidence, close, clean up | stop from two sides; proof that every writer ended |
| Reconcile loop and queues (`controller/controller.go`, `queue.go`) | work queues | repeated passes over sessions and attempts | everything that must eventually happen |
| Journal file (`workspace/store.go`) | lock, copy in memory, `journal.json`, temporary files | open, publish a transaction, close | death of process or node at any point, failed publications |
| Repository cache (`repocache/`) | entries with their lock, shared refresh, user count and checkouts; files | snapshot, refresh, checkout, prune, evict, recover, close | refreshes shared and cancelled, pins against pruning and eviction, Git that cannot be stopped |
| Preparation (`controller/prepare.go`, `workspace/prepare.go`, `prepare_resident.go`) | the task root: directories, pin, platform links, one generation of artifacts per turn; the helper's process group | run the helper in scratch, set the root up, record it; fail, interrupt | every file operation may fail or be the last; user files at platform paths; helpers that cannot be stopped |
| Turn gateway (`controller/gateway.go`, `execution.go`, `checkout.go`, `daemonapi/gateway.go`) | the attempt's execution gate, its running checkout, the request goroutines | start, event, result, task API, SCM token, checkout, checkout-stop | requests repeated while they are served, authority that ends between check and use |
| Worker supervisor (`worker/session_linux.go`, `supervisor_linux.go`, `shutdown_linux.go`, `relay.go`) | its phase, what it consumed, what it cleaned | enroll, poll, accept, run a turn, clean up, report, stop, seal | signed requests served late, deadlines of every phase, seals that must be true |
| Process fences (`worker/processes_linux.go`, `desktop_linux.go`, `runner_linux.go`, `initprocess/`) | the process table of the Pod | end the processes of a turn, or all | `/proc` read entry by entry while processes fork, exit and change parents |
| Kubernetes, backend | Pods, containers, tasks | external | lost Pods, restarts, cancellation |
| GitHub tokens, checkout copies, configuration, image inspection, repository addresses, wire types | see `PROJECT.json` | not modelled | |

They interact through the registry (the repository cache through the snapshots
that a checkout of a turn takes): the gateway (called by the worker),
the reconcile passes and the claim loop each read it, act on Kubernetes, the
backend or the file system, and write it again. What makes each part correct:

- *reservation*: a root has one writing session, a conversation one resident
  session, the cluster no more sessions than slots, and an idle session is
  really reusable;
- *turn control*: a stopped turn gains no authority, and every writer that was
  started is known;
- *outbox*: every turn has one outcome, which is never replaced once it is
  authenticated and is called delivered only if the backend holds it;
- *session stop*: the lease is released only after every writer ended, a root
  is called clean only if it is, and every stopped session is released;
- *journal file*: what a caller was told survives, and the file is at any time
  a whole registry that follows from the one before;
- *repository cache*: a reader's checkout is whole and stays so, a checkout is
  made from refs that a refresh authorized, one task never fails another, and
  every call ends;
- *registry*: no legal sequence of transactions reaches a registry that
  validation refuses;
- *preparation*: the journal names only complete generations, user files
  survive, no two writers meet in a root, and a started preparation ends;
- *turn gateway*: an event goes to the backend once, nothing is served behind
  the result, the checkout fence tells the truth, and a result settles;
- *worker supervisor*: its receipts tell the truth, it runs only what it was
  given, once, and it always comes to rest;
- *process fences*: a fence that reports success left nobody behind and
  signalled nobody of the desktop;
- *idle sessions*: a session stays for its retention, neither shorter through a
  stale timer nor longer through a clock that is set.

## Modules

| Module | Models |
| --- | --- |
| `Journal` | the registry, one variable per field, the modelled part of the world, the predicates that the transactions share, `Init`, `TypeOK` |
| `Reservation` | `QueueClaim`, `RecordSelection`, `ReserveTurn` (split into `ReserveWarm`, `ReserveNew` and the two drains it may commit instead), `ExpireSession` / `DrainIdleSession` |
| `TurnControl` | preparation, Pod creation, admission, publication, acceptance, start, checkouts |
| `Outbox` | results, receipts, failures, delivery, completion of a turn, late checkpoints |
| `SessionStop` | stop requests, fence, final receipt, evidence, `CloseSession`, cleanup, claims that never got a session |
| `Cluster` | Pods, supervisors, controller containers and their helpers, restart, backend |
| `Validation` | the cross-record checks of `validateRegistry` and `session_validate.go`, and the property `RegistryValid` |
| `WorkerSessions` | the composition: `Next`, `Spec`, fairness, the properties, the mapping to `OutcomeDelivery` |
| `MCWorkerSessions` | the constants of the instances |
| `OutcomeDelivery` | what an attempt is promised: one proven outcome, taken at most once, called delivered only when the backend's row is that outcome |
| `SessionProofs` | the theorems about `WorkerSessions` and their proofs: types, leases, outcomes and the promise of `OutcomeDelivery`, Pods, helpers, roots, slots and receipts; what the records say of each other, the validity of the registry and idle sessions |
| `AtomicRegistry` | what the rest of the code expects of a journal: transactions take effect whole and are never undone |
| `JournalStore`, `MCJournalStore`, `JournalStoreProofs` | the journal file: `Open`, the steps of `write` and `atomicWrite`, failures, crashes; that it implements `AtomicRegistry`; the proofs |
| `RepoCache`, `MCRepoCache`, `RepoCacheProofs` | the repository cache: `Snapshot`, `awaitRefresh`, `refresh`, `checkout`, `pruneCheckouts`, `reclaimSpaceLocked`, `recover`, `Close`; the proofs |
| `Preparation`, `MCPreparation`, `PreparationProofs` | one root over its turns and sessions: `startPreparation`, the goroutine of `prepare` step by step (helper, root, pin, projections, generation, checkpoint), `failPreparation`, `InterruptPreparation`, deaths of the controller, the task's own writes; the proofs |
| `TurnGateway`, `MCTurnGateway`, `TurnGatewayProofs` | the requests of one turn: the common path `supervisor`, the gate, the handlers of start, event, result, task API, SCM token and checkout, `stopCheckoutWrites`, `finishTurn`, deaths of the controller; the proofs |
| `WorkerSupervisor`, `MCWorkerSupervisor`, `SupervisorProofs` | a session's supervisor (`run`, `execute`, `settle`, `finalStop`, `watch`) and the controller's side of its signed protocol (`CreateSessionChallenge`, `validSessionProof`, `AcceptTurn`, the receipts, `sessionPoll`); the proofs |
| `TaskProcesses`, `MCTaskProcesses`, `ProcessProofs` | the processes of the Pod, reparenting and reaping, `serveLaunches`, `stopTaskProcesses`, `observeProcessEntries`, `traceAncestry`, `stopWriters`, `writerCount`; the proofs |
| `Residency`, `MCResidency`, `ResidencyProofs` | the times of an idle session: `reconcileSession` step by step with its in-memory deadline, `ExpireSession`, `DrainIdleSession`, the clock and retention in `ReserveTurn`, `CompleteTurn` and `CreateSessionChallenge`; the proofs |

`Outbox`, `TurnControl`, `Reservation` and `Cluster` extend `Journal`;
`SessionStop` extends `Outbox` and `TurnControl`; `WorkerSessions` extends all.
`JournalStore` stands beside them: it justifies that a Store method is one
durable step of `WorkerSessions`. `RepoCache` is independent of both.
`Preparation`, `TurnGateway`, `WorkerSupervisor`, `TaskProcesses` and
`Residency` each open up what `WorkerSessions` takes as one step: a preparation,
the handlers of a turn, the worker, the end of the worker's processes, and the
expiry of an idle session, which may come at any time there. They
repeat the part of the registry they touch, at the same granularity (a Store
method is one action), and refine the rest.
Definitions keep the names of the Go functions; `PROJECT.json` maps each to its
lines. Operators marked *Mutant* are altered forms of the definition after
them, used to see that a property can fail.

### How the state corresponds to the code

- A record is one variable per field; a Boolean field is the set of records
  for which it is true (`revoked` is `{a : ExecutionRevoked}`).
- A worker session is named by the attempt whose reservation created it, a root
  by its anchor task. `unusedTaskStorage` and the task root path admit one root
  per task, so the names are unique. A root exists once `latest` names a writer.
- A Store method runs under one lock and is durable when it returns, so it is
  one action, with everything the method calls. A restart may happen between
  any two of them. A controller step that observes the world and then calls the
  Store method is that method's action, guarded by what was observed; what it
  observed of Pods, containers and the backend is stable (ended Pods stay ended,
  settled tasks stay settled), or is re-checked by the method.
- Merged, because nothing can be observed between them: `ResumeForward` with
  `BeginForward`; the sync, `CheckoutsFlushed` and
  `RecordSessionControllerFlush` of the fence; `stopCheckoutWrites`,
  `ObserveStop` and `CloseStopped` for a claim without a session.
- `CloseSession` evaluates `CheckpointProven` before its own writes, the code
  after them. The one field that is both written and read is the session's
  active turn: with a receipt the stop record names the same turn
  (`StopAgreement`), and without one no worker ever ran, so its turn has no
  witness and the answer is no either way.

### What is abstracted

- Turn sequences, revisions, nonces, digests, keys and signatures: a receipt is
  authentic or is not sent. Sequences and stale proofs are the subject of
  `WorkerSupervisor`.
- The clock: an idle session may expire at any time, and retention of a session
  at the end of a turn is a free choice (`keep`). Deadlines that fail a turn
  only disturb the attempts in `Faulty`.
- Provider resume pointers and transient resume failures; events are taken as
  settled (`TurnGateway` models them). Whether a claim may reuse files is a free choice
  (`eligible`), and selection chooses any root the code could choose.
- Order among waiting claims (`activateTurn`): any of them may be next.
- `PodUID` and `SupervisorKey` of a grant are those of its session.
- `ambiguous` holds the attempts with a request whose fate the controller never
  learned: it may still be committed by the backend, at any time. An ambiguous
  request or its retry may also be answered by a refusal.
- A Pod creation commits at most once for a session: the Pod has a fixed name
  and a finalizer, and the request is repeated byte for byte.
- Deletion of a Pod is over-approximated: a Pod may end at any time after its
  session was told to stop.
- The validation in `Store.write` is no guard of the actions. That it never
  refuses is the invariant `RegistryValid`.

In `JournalStore` a registry is the set of the transactions it contains, so that
a lost or undone one shows; sizes are counted in files; a transaction that is
refused or changes nothing is a stutter; the recovery of forwarded requests and
the migration of a schema are one more transaction of `Open`; nobody else
changes the journal. The disk has two views: what processes see and what a dead
node leaves, the second being brought up by a sync or by the file system at any
time.

In `RepoCache` a version of the remote's refs is a number, and the state that
names a checkout is a version with the requested revision. A Git command is a
step with any outcome. Where the code asks `writersUnproven` and acts later,
without the lock or without its slot, the two are two steps: `removeTree`'s
question and the removal (`BeginRebuild`, `RemoveTree`), and the last question of
`operation`, which gives the slot back, and the answer of `snapshot`
(`OperationEnds`, `Deliver`). The rest of `checkout`, from its last Git command to
the pin, is one step, as is the whole of `update` once it has a slot. A full disk
is the free choice to evict an entry without users. `generation` tells the entry
object a call refers to from the one in the map.

In `Preparation` each step of the goroutine that another actor or a death can
separate from the next is an action; `entry` says what is at each platform path
(absent, a file, a file with a second link, the platform's link, a parent that is
no directory, a parent that is a link to a directory inside the root, anything
else), and a generation is who made it and whether it is whole. The last parent
is what `root.Lstat` follows and `makeNativeDirectories` and
`requireDirectDirectories` refuse. Two generated skills stand for any number, so
that one may be gone when the next is refused. Remote inputs, the content of files, owners and modes are left out; any
step that can fail may fail. A root may be one that an earlier release's helper
prepared, with any user file at the optional and the skill paths.

In `TurnGateway` a request is a goroutine with a program counter; the gate is
taken and left as `sync.RWMutex` does it, a waiting writer keeping new readers
out. The worker starts a request only when it does not wait for another, loses
an answer at any time and may repeat. One behaviour uses one service of the turn
(events, task API, token or checkout) beside the start and the result, because
the services meet only in the gate; `Services` and `Req` name the bounds. The
input, admit, receipt and abort handlers, token contents and HTTP are left out.

In `WorkerSupervisor` the set `sent` holds every signed request the worker sent,
and any of them may be served again at any later time; a challenge is asked for
once per body, so its nonce is left out. The worker's processes, private files
and relay are one flag each: `TaskProcesses` says what ending them takes. The
path without a session (`finish`, `reportStop`) is not modelled.

In `TaskProcesses` a read of one `/proc` entry, one hop of an ancestry walk and
one signal are an action each, so any process may fork, exit or be reparented in
between. Two things are left out on purpose: a process number is not given out
twice, and with it the comparison of start times, which `traceAncestry` makes
for the child of each hop and not for the parent it moves on to.

In `Residency` the journal's times are readings of the wall clock: `Store.now`
is `time.Now().UTC()`, and Go's `UTC` strips the monotonic reading. `SetClock`
sets that clock at any moment. The monotonic deadline of `idleDeadlines` is held
as what is left of it, `entry.left`, which every tick takes one from. A pass
reads session and clock at `BeginPass`, the clock again inside `ExpireSession`,
and both once more at `SetTimer`; reservations, completions and challenges come
between. `hist` is read by properties only.

## Runs

Deadlock is checked in `residency` only, whose passes never end; the other
systems stop when they have served their finite set of claims, transactions or
calls. No symmetry is used.

| Run | Instance | Properties |
| --- | --- | --- |
| `one_turn` | one attempt, disturbed in every way, one checkout, one restart, with fairness | `RegistryValid`, `StopAgreement`, `ClosedMeansEnded`, `CleanRootIsDurable`, `NoLostOutcome`, `OutcomeFinal`, `OutcomesDelivered`, `StopIsFinal`, `StoppedSessionReleased` |
| `continuity` | two tasks of one conversation, two slots | `RegistryValid`, `LeaseAgreement`, `IdleIsWarm`, `CheckpointIsAccepted` |
| `takeover` | two attempts of one task, the first disturbed; or an attempt each of two conversations; one slot | `ExclusiveWriter`, `ResidentBound` |
| `journal_store` | two processes, three transactions, two deaths of a process or the node | `AnswersSurvive`, `OwnerKnowsJournal`, `AtomicStore` |
| `repo_cache` | two calls on one repository whose refs move, one eviction, one restart; or three calls on two repositories, one slot; or one call each on two repositories, two slots; with fairness | `SnapshotIsWhole`, `ActiveIsUsers`, `CheckoutIsAuthorized`, `CancelHarmsNobody`, `QuarantineHolds`, `CallsEnd` |
| `repo_damage` | one repository, removals may fail halfway | `SnapshotIsWhole`, violated |
| `preparation` | three turns in one root, new or migrated, either provider; one death, one write of the task; with fairness | `GenerationIsWhole`, `CollisionsRefusedFirst`, `WritersApart`, `ForeignFilesSurvive`, `PreparationSettles` |
| `refusal` | the instance of `preparation`, without fairness | `RefusalRemovesNothing`, violated |
| `gateway` | two requests at a time, two events, one service, one death; with fairness | `EventSentOnce`, `NothingAfterResult`, `CheckoutsSealed`, `TurnSettlesOrStops` |
| `worker` | two turns of a session, one death of the controller; with fairness | `SealsHold`, `AcceptanceIsOwn`, `SupervisorSettles` |
| `fence` | six process numbers: two inits, the provider, two more forked or launched | `OutsidersGone`, `ResidentsSpared` |
| `residency` | one session through two idle periods, timeouts 0, 1 and 2, clock readings 0 to 4, any number of restarts and changes of the clock | `IdleIsBounded`, `RetentionIsKept` |

What they show:

- `RegistryValid`: every registry that the transactions reach passes the
  cross-record checks, so neither a write nor a start is refused. One of them is
  that a conversation has at most one resident session.
- `StopAgreement`, `StopIsFinal`: the session's and the turn's stop always
  agree, and nothing gives a stopped session or turn further authority.
- `ClosedMeansEnded`, `ExclusiveWriter`: a root is handed on only after the Pod
  and the helpers that wrote it ended, also when a creation was never
  acknowledged, a Pod is lost, or helpers survive a restart.
- `CleanRootIsDurable`, `CheckpointIsAccepted`: *clean* and *checkpoint* in the
  journal mean what they say about the files and the backend.
- `NoLostOutcome`, `OutcomeFinal`: one outcome per turn, never lost and never
  replaced.
- `OutcomesDelivered`: the outbox implements `OutcomeDelivery`. The outcome of
  an attempt is read from source, kind and recovery record (a recovery failure
  replaces a result), its proof is the receipt or that it is a failure, its
  verdict the delivery that counts. Then the backend takes at most one outcome
  and only a proven one, a cancellation is acknowledged only after the user's,
  and nothing is called delivered that ended another way, whichever requests are
  repeated, lost or answered after a restart. The promise lets an accepted
  outcome be called rejected: the answer that accepted it may have been lost.
- `LeaseAgreement`, `IdleIsWarm`, `ResidentBound`: the reservation keeps its exclusions, and an idle session
  whose files may be reused satisfies the proof the next reservation asks for.
- `StoppedSessionReleased`: no order of events leaves a stopped session, its
  root and its slot waiting forever, unless Kubernetes lost the Pod, which the
  code deliberately quarantines.

- `AnswersSurvive`, `OwnerKnowsJournal`, `AtomicStore`: at every point where the
  process or the node may die, the journal is readable and holds all that a
  caller was told; a failed publication never leads to an undone transaction.
- `SnapshotIsWhole`, `ActiveIsUsers`: neither pruning, eviction, a rebuild nor an
  object that outlived its eviction touches what a reader has, as long as
  removals succeed.
- `CheckoutIsAuthorized`, `CancelHarmsNobody`: a checkout is never made from refs
  left by a failed refresh or older than its authority, and never fails because
  another task was cancelled.
- `QuarantineHolds`: the repository that an unproven Git process may still write
  is frozen: nothing of it is published, removed or handed out. In the rest of
  the cache no refresh starts, and what changes or is handed out is only what a
  call of another repository had asked for before the quarantine. More the code
  does not give: `snapshot` answers after `operation` has asked and given its slot
  back (`repocache/storage.go:283`, `manager.go:237`), and `removeTree` asks
  before it removes (`checkout.go:250`), so a removal or an answer of a
  repository whose own Git is proven stopped may complete in quarantine. The
  third instance of the run reaches both.
- `CallsEnd`: no lock, slot or shared refresh keeps a call forever, and a
  shutdown ends and leaves nothing running.

- `GenerationIsWhole`: a generation named by the journal is complete and that
  attempt's own, although deaths leave partial ones behind and warm turns write
  beside earlier ones.
- `ForeignFilesSurvive`, `CollisionsRefusedFirst`: the controller replaces only
  files that the earlier release's manifest lists, and a foreign file where a
  required link belongs is refused before any other file is touched. That not
  every refusal comes first is the finding of `refusal`.
- `WritersApart`, `PreparationSettles`: links are never set up beside a worker or
  an unproven helper, and a preparation ends through failures, stops and deaths;
  the one exception is a helper this very container cannot prove stopped.
- `EventSentOnce`: no repetition, lost answer or restart sends a provider event
  twice, although the backend has no deduplication key.
- `NothingAfterResult`: the gate orders the recorded result after everything the
  turn still discloses or sends.
- `CheckoutsSealed`: the fence is set only after every Git and copy process of
  the turn ended and their writes are synced, also across a restart.
- `TurnSettlesOrStops`: a result settles or its session stops. An event that a
  late handler put back to "received" after its repetition was acknowledged is
  never sent again; then only the worker's finishing deadline ends the wait.
- `SealsHold`: a turn's receipt and a clean final receipt say what is true of
  processes, requests, checkouts and private files when they are accepted and
  afterwards.
- `AcceptanceIsOwn`: no late copy of an acceptance answers for another turn, and
  nothing runs that was not accepted.
- `SupervisorSettles`: whatever answers are lost, the session becomes idle again
  or its supervisor ends.
- `OutsidersGone`, `ResidentsSpared`: a reading of `/proc` that is never a
  snapshot is still enough to prove that the turn's processes are gone without
  touching the desktop's.
- `IdleIsBounded`: setting the wall clock cannot keep an idle session in one
  controller process for longer than its retention and one sweep. The one
  exception is in the bound, `hist.slip`: a clock set back behind the beginning
  of the idle period just between the two readings of the pass that remembers
  the deadline moves it by as much. TLC refutes the bound without that term and
  without the tick.
- `RetentionIsKept`: while the clock runs true, a session is neither ended early
  by a pass that read an earlier idle period nor given to a turn after its
  retention, through restarts that raise or lower the timeout.

### Findings

Two runs violate what the code says of itself:

- `repo_damage`: `pruneCheckouts` and `reclaimSpaceLocked` leave
  `canonicalCheckout.verified` true when `os.RemoveAll` fails halfway.
  `checkout` takes a verified directory without a digest check, so the next
  reader of that state gets a damaged checkout ("immutable checkouts",
  `repocache/manager.go:1`).
- `refusal`: "Refuse every required collision before removing any old platform
  file" (`workspace/prepare_resident.go:365`) holds of what the first pass can
  see (`CollisionsRefusedFirst`). A listed skill that is shared or in an indirect
  directory (`:391-403`), a required link's parent that is a link inside the root
  (`:312`, called at `:415` and `:470`) and a shared old resource file
  (`:443-446`) are refused when other platform files may be gone. In TLC's
  counterexample one skill is removed and the next one is found shared. User
  files survive this too (`ForeignFilesSurvive`).

Two divergences have no run of their own. `recover` keeps the checkout named by
the metadata on disk but not in `entry.checkouts`, so when the next request asks
for another state the recovered directory is not pruned, although "only the most
recently requested state is retained" (`repocache/checkout.go:182`); it goes
with the next restart or the eviction of the entry and is verified before any
use. And the repository's README says that optional resource collisions
"preserve user files and omit the runtime resource view" (`README.md:40`), but `establishNativeProjections` refuses the
preparation when a parent of the optional path is no directory
(`workspace/prepare_resident.go:371`). `Collisions` models the refusal; user
files survive either way.

### Bounds

`MaxRestarts`, `Faulty`, `CheckoutAttempts` and `ResultKinds` bound the model
only. One restart is enough to separate a helper's container from the running
one; two attempts are enough for every race the code has between two claims
(for a root, a conversation or a slot). Disturbing both attempts, or a
disturbed attempt beside another conversation's, exceeds several million
states; the disturbances are therefore explored in `one_turn` and `takeover`, and
the proofs cover their combination for the properties they treat. Provider
results of kind `fail` are settled exactly as `complete` is, so `ResultKinds` is
`{"complete"}` in the runs; the proofs have both. `takeover` has three attempts,
of which at most two are claimed: the constraint `RetryOrOther` leaves out
claiming both the disturbed one and the other conversation's.

In `JournalStore`, two processes are an old and a new controller container, and
two deaths let the second hit the recovery from the first; the proofs have no
such bound. In `RepoCache`, two calls are a reader and one that disturbs
it; two revisions make checkouts replace each other without a new version, and a
second version makes authority differ from what the repository
has; three calls on two repositories with one slot are a case of their own, in
which refs do not move, and so is a call each on two repositories with two slots,
where the Git of one may fail to stop at any point of the other's work; there one
repository was recovered with a checkout that is whole, damaged or gone. `Impatient`, `Expiring`, `Stuck` and `Unremovable` name who may
be disturbed; `MaxVersion`, `MaxEvictions` and `MaxRestarts` bound the world.

In `Preparation`, three turns are one that fails or dies, one that takes over and
one that reuses; one death and one write of the task between them hit every
step; two skills are one that is removed and one that is refused. In
`TurnGateway`, two requests are an original and its repetition, or a request and
the result that overtakes it; two events distinguish a repeated from
a next one. In `WorkerSupervisor`, two turns make a request of the first stale
in the second. In `TaskProcesses`, two further processes are a parent and its
child, or an application and a process of the turn, which is what a list can
miss and an ancestry walk can lose. In `Residency`, five revisions are two idle
periods, so that a pass can find the second with what it read of the first;
three timeouts let one be raised and lowered around another. Ages are counted to
`MaxWall + 1`, which is enough to see a slip of up to two ticks. `Tick` waits for a whole
pass, `swept`: a tick is the time a recovery sweep (`runRecovery`, one a second,
each pass under a ten-second context) may take to visit the session.

### Fairness

`FairSpec` assumes of the controller that a step of `reconcileSessionStop` that
stays possible is taken: the loop visits every session that is not cleaned up in
each pass, and retries after every error. It assumes of the world that a
repeated Pod creation is answered, that a Pod deleted by `DeletePod` ends (or is
lost, which releases nothing), that helpers end, and that Kubernetes ends a
replaced controller container. Helpers run under a deadline and are killed with
their process group; if that cannot be proven (`ErrPreparationWritersUnproven`
in `controller/prepare.go`), the code waits for the container to be replaced,
which this fairness does not cover. Nothing is assumed of the backend, of the
worker's supervisor or of delivery.

`RepoCache!FairSpec` assumes that a call and a refresh take a step that stays
possible and that `Close` is scheduled. `lockEntry` polls, so a lock that is
always taken when it looks could starve it; weak fairness is enough here because
each holder releases the lock after one bounded operation and the calls are
finitely many. A Git command ends because its context ends or it is killed; if
that cannot be proven, it still returns (`poison`). Nothing is assumed of
readers: a snapshot may be held forever.

`Preparation!FairSpec` assumes that the goroutine is scheduled, that Kubernetes
reports a container that ended and that a reconcile pass reads the report; every
helper has a deadline. `TurnGateway!FairSpec` assumes that handlers run to their
end (each call they make has a timeout), that the delivery loop looks at a
received turn, and that the worker's finishing deadline passes.
`WorkerSupervisor!FairSpec` assumes that each phase of the worker ends by itself
or at the deadline that every phase has in the code, that polls and the watch go
on while it lives, that a reserved turn is published and that the controller
sees a Pod that ended. Nothing is assumed of the backend, of tools, checkouts or
processes that do not end.

## Proofs

The theorems hold for every value of the constants that satisfies the named
assumptions of the module they are about; each proof has one step per action,
and the invariants below were checked by TLC before they were proved.

`SessionProofs` is about `WorkerSessions`: any attempts, tasks, conversations,
slots, bounds and any number of restarts, from the assumptions named in
`Journal` (the identities are distinct from `None` and `Fresh`, the bounds are
positive naturals).

- `TypeCorrect`. Type correctness is not inductive alone: an action that reads
  the session or the root of a turn needs that they are there. `Bindings` adds
  it: a grant with a session has a root and its session exists, a prepared turn
  or one with a native result has a session, a waiting claim has none, and only
  sessions that exist are stopped.
- `LeaseSafe`, `StopSafe`, `StopFinal`. The inductive invariant `LeaseInv` is
  `TurnOwnership`, `LeaseAgreement` and `StopAgreement`: lease agreement needs
  that the turn a session runs is not complete and belongs to it, stop agreement
  needs the lease to know that the turn a grant names is the one its session
  runs. `StopFinal` is an action property from the same invariant.
- `OutcomeNeverLost`, `OutcomeIsFinal`. `OutboxShape` adds what the fields of a
  terminal record imply of each other: a receipt belongs to a native result that
  no recovery failure replaced, a native result leaves "received" only with a
  receipt, and a witness needs one.
- `DeliverySafe` (`AcceptInv`): what the journal calls delivered was accepted by
  the backend (`DeliveredIsAccepted`). It needs that the controller itself
  reports nothing but failures, and that an outcome whose delivery has begun
  keeps its kind.
- `PromiseKept`: every step of `WorkerSessions` is a step of `OutcomeDelivery` or
  leaves what it speaks of alone. It rests on the three invariants before and on
  `FateInv`: a request of unknown fate was sent for a proven outcome, and stays
  so when a recovery failure replaces a result, because the result that is
  replaced had no receipt and so was never sent; and an acknowledged cancellation
  stands in the backend, whose rows are final. Nothing else is needed of the
  sessions: claims, preparations, checkouts and stops are stutters.

From there it goes on to who may write a root, and what its durability rests on.

- `ClosedSafe`, `ExclusiveSafe`. `PodInv` ties the evidence of an end to the Pod
  it is about, which Kubernetes cannot take back; `HelperInv` says that a helper
  that runs is recorded, in a container not proven gone, for the turn its
  session runs; `RootInv` ties a root to the session that last took it. Two
  writers of one root would then hold one lease.
- `ResidentsBounded`. `SlotInv` counts the residents; a session becomes one only
  by a reservation, under the guard, and every other transaction may only end
  one (`SessionsKept`).
- `CleanRootSafe`. A clean root is durable because of three things far apart:
  the receipt came from a supervisor that sealed (`ReceiptInv`), the fence synced
  the root before it was recorded, and nobody took the root since (`FlushInv`).
  That a session without a supervisor wrote nothing but its preparation is the
  clause that makes it inductive.
- `CheckpointSafe` (`CheckInv`): the checkpoint of a clean root is its last turn,
  witnessed and eligible, even if the result arrives after the session closed.

Last come `RegistrySafe` and `IdleSafe`, from these and from `ValidityInv`, one
part per kind of record:

- `ClaimInv` (a grant without a session has no turn, and a turn is closed exactly
  when it is complete), `ConversationInv` (a turn works on a root of its
  conversation, which has one resident session) and `HeadInv` (the turn a session
  runs, or the last turn of an idle one, is the last of its root) follow the
  records through reservation, completion and release.
- `ProgressInv` (a supervisor runs in a bound Pod, a Pod is requested for a
  prepared root, a turn goes on only with both) and `TerminalInv` (what a receipt,
  a witness, a recovery failure and a recorded failure say of their turn) are
  proved from what a step *adds*. `Advance` says once what no step takes back;
  so each proof looks only at the actions that add something.
- `StopInv` says that a stop record stays true of the turn it names. This is the
  hard part: evidence that no worker existed is recorded long before the session
  closes, and holds later only because no Pod is requested and no supervisor
  admitted after the stop (`PodInv`), and because a fenced writer of a stopped
  turn stays fenced.
- `OverInv` (a quarantined turn holds a quarantined root, a complete one has both
  receipts or went with its session) and `CheckpointInv` (what was said of a
  checkpoint when it was written stays true, whatever receipts arrive after the
  close).

The other modules, each from the assumptions on its own constants:

- `JournalStoreProofs`: `AnswersDurable`, `OwnerSafe`, `StoreIsAtomic`, for any
  processes, transactions and number of deaths. `StoreInv` says who may hold the
  lock, that only the lock's holder publishes, and how candidate, memory, page
  cache and disk are related at each point of a publication; the refinement maps
  the abstract registry to the journal that a dead node leaves.
- `SupervisorProofs`: `SealsSafe`, `AcceptanceSafe`, for any number of turns.
  The controller may receive a copy of a signed request at any later time, so
  what was once signed has to stay true: `SignedInv` says what a signature
  proves, `SettleInv` and `FinalInv` that each part of a cleanup keeps what it
  established until the receipt and after it. They need that a turn's journal
  goes on only when the worker does (`ExecutionInv`), and that a turn which is
  not the active one has not begun or is over (`JournalInv`), so that no late
  request opens the turn that was sealed.
- `TurnGatewayProofs`: `EventSafe`, `ResultSafe`, `SealedSafe`, for any number of
  requests, events and restarts. `GateInv`: a request that acts on an authority
  which a result ends still finds the grant executable, because the gate makes
  the two exclude each other. `EventInv` counts what each event has been sent,
  per state of its record. `CheckoutInv`: a process that writes is one the
  journal records, in a container that has not ended (`WriterKnown`), an
  operation that answers left none unless it says so (`ProcessesEnd`), and the
  fence passes its points in order (`FenceHolds`).
- `PreparationProofs`: `GenerationSafe`, `CollisionsSafe`, `WritersSafe`,
  `ForeignSafe`, with no assumption at all. `GrantInv` says what the journal
  records of the attempt that the goroutine carries; a helper that still writes
  belongs to that attempt (`HelperInv`), a worker beside a preparation is the one
  it serves (`BesideInv`), no foreign file is left at a required link once the first file may
  be removed (`LinkInv`), and the generation being written is this attempt's and
  not yet journaled (`GenerationInv`). `ForeignSafe` is an action property from
  the same invariant.
- `RepoCacheProofs`: `ActiveSafe`, `CheckoutSafe`, `CancelSafe`, `SnapshotSafe`,
  `QuarantineSafe`, for any callers, keys and versions. `LockInv` says who holds
  the lock of an entry, `RefsInv` that refreshes begin at ever later versions and
  that a valid entry's refs are those of the last one that ended, `UsersInv`
  that `active` counts callers, readers and the refresh, `FilesInv` that what
  was verified is whole and what is read is verified, `QuarantineInv` that no call
  of a repository with a surviving Git process has asked its last question: the
  process had that repository's lock, and the call that started it closes the
  manager before it gives the lock up. `QuarantineSafe` needs that for the frozen
  repository; for the others it says which of their steps may still come. `CacheAssumption` asks
  that a caller is not named like the refresh (`"flight"`) or `None`, and that
  `None` is no version of a ref. `SnapshotSafe` is stated for `Unremovable = {}`:
  without it the property is false, as the run `repo_damage` shows.
- `ResidencyProofs`: `IdleBounded` and `RetentionKept`, for any timeouts, clock,
  revisions and restarts, from `ResidencyBounds` alone. `TrueClockInv` says that
  while the clock is not set it shows the age of the idle period, and that
  neither the recorded nor a remembered deadline of the same revision falls
  short of the retention; it needs `StateInv`, by which memory never holds a
  revision the journal has not reached. `BoundInv` says that after the first
  tick a whole pass has noted the deadline (`Noted`), and from then on what is
  left and the age add up to the bound, because a remembered deadline is not
  computed again. Its clause on a pass begun since the tick is what makes it
  inductive.

- `ProcessProofs`: `OutsidersAreGone` and `ResidentsAreSpared`, for any number of
  processes, from the bound on their numbers alone. Ancestry is defined as the
  least set with the root and the children of its members, so what each step of
  the table does to it follows without induction: a birth or a launch adds a leaf
  of its parent's family, a removed zombie has no living child, and the orphans
  of a process that dies go to its nearest living subreaper. That is why a
  living desktop keeps its descendants and gains none (`Adoption`,
  `InheritsSides`). `TurnInv` is what makes a reading of `/proc` enough, entry
  by entry: as long as the list missed an outsider that is there, some listed
  process tells of it (`Telling`), an outsider whose ancestry the pass has still
  to trace, so the pass will not end clean. It stays so because the forker of a
  newborn outsider is itself listed and telling, or was missed in its turn.
  `WalkInv` says that a walk
  that lost nobody answers for the process it began at, so that the fence may
  signal it.

What is only model-checked: liveness (`StoppedSessionReleased`, `CallsEnd`,
`PreparationSettles`, `TurnSettlesOrStops`, `SupervisorSettles`), which needs
fairness and `ENABLED` and is beyond the prover. Every other property of a
passing run is a theorem.

`TypeOK` of `WorkerSessions` and `TypeOK` of `ProcessProofs` are proved and not
checked by a run of their own. The lemmas on ancestry and on the least of a set
of numbers use well-founded induction only where the library states it without
an operator parameter (a nonempty set of naturals has a least member).

## Plan

Done: the core, the journal file, the repository cache, preparation, the turn
gateway, the worker's supervisor with its protocol, the process fences, and the
residency of idle sessions, with proofs of all their safety properties; the two
abstract specifications, `AtomicRegistry` and `OutcomeDelivery`, and proofs that
the journal file and the outbox implement them.
Next, in this order:

1. The liveness of delivery under a backend that answers, and the pending budget.
2. `Dispatch`: the work queues of the reconcile loop (`controller/queue.go`).
3. `Provision` (Secret and Pod creation, digests, deletion with finalizer),
   `Continuity` (selection from backend observations) and the token manager.

## Not modelled

- HTTP parsing and encoding (`daemonapi`, `wire`), configuration, image
  inspection, repository addresses, file copies and Git commands, the packets and
  services of the desktop: input/output or pure data conversion.
- The input, admit, receipt and abort handlers, the call budget of the task's MCP
  server, and the contents of tokens.
- A second checkout of a turn after a restarted controller has recovered the
  orphaned writer of the first (`controller/reconcile.go:44`): `TurnGateway`
  follows one checkout of a turn to its end.
- Attempts bound to a root without a worker session, with the supervisor's path
  for them (`finish`, `reportStop`): they exist only in journals of an earlier
  release.
- Users who edit a live desktop's links between `VerifyBindings` and the
  checkpoint: the journal then names links that the next turn's verification
  refuses; no step of the code sits in between. A new root whose preparation
  failed is never given out again, and a migration that died midway is refused
  from then on; both follow from `Preparation` and are what the code intends by
  failing closed.
