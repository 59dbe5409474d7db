---------------------------- MODULE Preparation ----------------------------
(***************************************************************************)
(* The preparation of one conversation's task root, over its turns and     *)
(* sessions (controller/prepare.go, workspace/prepare.go,                  *)
(* prepare_resident.go, native_metadata.go, grant.go).  Each turn runs the *)
(* installed helper in private scratch, then sets up the root step by      *)
(* step: the root and its pin, the platform's links, the turn's generation *)
(* of artifacts, and only then the journal.  A step may fail, a stop may   *)
(* arrive, the controller may die between any two of them, and the task's  *)
(* own programs write the same root while a worker runs.                   *)
(***************************************************************************)
EXTENDS Naturals, FiniteSets

CONSTANTS MaxAttempts,   \* bound: turns reserved
          MaxCrashes,    \* bound: deaths of the controller
          MaxWrites      \* bound: writes of the task's programs to platform paths

VARIABLES provider,      \* frozen with the conversation
          stored,        \* Storage.Prepared in the journal
          grant,         \* the TaskGrant of the current attempt
          session,       \* its WorkerSession
          pc, work,      \* the preparation goroutine and what it carries
          owned,         \* Controller.preparing of the current attempt
          published,     \* Controller.prepareCancels has its entry
          cancelled,     \* its context is cancelled
          helpers,       \* helper process groups not proven stopped
          incarnation,   \* the running controller container
          ended,         \* containers Kubernetes proves ended
          root,          \* what exists of the root: "dir", "base", "pin"
          entry,         \* what is at each platform path of the root
          gens,          \* artifact generations: [session, turn] -> record
          writes         \* writes of the task's programs so far

journalVars == <<provider, stored, grant, session>>
processVars == <<pc, work, owned, published, cancelled, helpers>>
containerVars == <<incarnation, ended>>
fileVars == <<root, entry, gens, writes>>
vars == <<journalVars, processVars, containerVars, fileVars>>

-----------------------------------------------------------------------------
(* Paths and records                                                       *)

None == [native |-> FALSE, attempt |-> 0, session |-> 0, turn |-> 0,
         links |-> {}, files |-> {}]

\* NativeProjectionLinks: resources.json is the optional one.
Resources == "resources"
ProjectionLinks == {"marker", "config", Resources}
\* nativeHomeLinks, bound for Codex only.
HomeLinks == IF provider = "codex" THEN {"auth"} ELSE {}
\* Generated skills in the workdir, each in a directory of its own, which only
\* a root of an earlier release has.
SkillFiles == IF provider = "pi" THEN {"skill1", "skill2"} ELSE {}
Paths == {"marker", "config", Resources, "auth", "skill1", "skill2"}

\* A regular file, one with a second hard link, anything else, the platform's
\* symbolic link to its fixed target; or a parent that is no directory, or is a
\* symbolic link to a directory of the root, behind which there is nothing to
\* object to.
Contents == {"absent", "file", "shared", "other", "link", "blocked", "indirect"}

\* The marker's directory holds that of the resources, codex-home the links.
Beneath(p) ==
    {p} \cup (CASE p = "marker" -> {Resources} [] p = "config" -> HomeLinks [] OTHER -> {})

Key == <<session.id, grant.turn>>
Live == work.mode = "live"
\* Mutant: whatever is at a platform path is the platform's.
OwnedFilesAny == ProjectionLinks \cup SkillFiles

\* The paths an earlier release's helper listed in its cleanup manifest.
OwnedFiles == IF work.prior.native THEN {} ELSE work.prior.files

NoWork == [mode |-> "fresh", prior |-> None, links |-> {}, todo |-> {}, before |-> <<>>,
           why |-> "none"]

\* The steps that change platform paths of the root (establishNativeProjections).
Establishing == pc \in {"skills", "project", "home"}

-----------------------------------------------------------------------------
(* Initial states: a new conversation, or a root an earlier release's      *)
(* helper prepared in place, used by its tasks and left by a proven stop.  *)

FreshRoot ==
    /\ stored = None /\ root = {}
    /\ entry = [p \in Paths |-> "absent"]

MigratedRoot ==
    /\ root = {"dir", "base", "pin"}
    /\ \E files \in {ProjectionLinks \cup SkillFiles, {"marker", Resources} \cup SkillFiles},
          marker \in {"file", "indirect"},
          res \in {"absent", "file", "shared", "blocked", "indirect"},
          config \in {"absent", "file", "indirect"},
          skill \in {"absent", "file", "shared", "indirect"} :
        /\ marker = "indirect" => res = "indirect"
        /\ stored = [None EXCEPT !.files = files, !.links = HomeLinks]
        /\ entry = [p \in Paths |->
              CASE p = "marker" -> marker
                [] p = "config" -> config
                [] p = Resources -> res
                [] p \in HomeLinks -> IF config = "indirect" THEN "indirect" ELSE "link"
                [] p \in SkillFiles -> IF p = "skill1" THEN "file" ELSE skill
                [] OTHER -> "absent"]

Init ==
    /\ provider \in {"codex", "pi"}
    /\ FreshRoot \/ MigratedRoot
    /\ grant = [attempt |-> 0, turn |-> 0, open |-> FALSE, started |-> FALSE,
                stopped |-> FALSE, prepared |-> FALSE, by |-> 0, reuse |-> FALSE]
    /\ session = [id |-> 0, open |-> FALSE, stop |-> FALSE, pod |-> FALSE, complete |-> 0]
    /\ pc = "idle" /\ work = NoWork /\ owned = "none"
    /\ published = FALSE /\ cancelled = FALSE /\ helpers = {}
    /\ incarnation = 1 /\ ended = {}
    /\ gens = <<>> /\ writes = 0

-----------------------------------------------------------------------------
(* The journal around a preparation                                        *)

\* unusedTaskStorage: a root whose only preparation never reached the journal
\* is not given out again.
Reclaimable == root # {} => stored # None

\* ReserveTurn: the idle session serves the next turn, or a new session takes
\* the root of a closed one.
Reserve ==
    /\ ~grant.open /\ grant.attempt < MaxAttempts
    /\ LET a == grant.attempt + 1
           turn == IF session.open THEN grant.turn + 1 ELSE 1
       IN /\ \/ /\ session.open /\ ~session.stop /\ session.pod
                /\ session.complete = grant.attempt
                /\ UNCHANGED session
             \/ /\ ~session.open /\ Reclaimable
                /\ session' = [id |-> session.id + 1, open |-> TRUE, stop |-> FALSE,
                               pod |-> FALSE, complete |-> 0]
          /\ grant' = [attempt |-> a, turn |-> turn, open |-> TRUE, started |-> FALSE,
                       stopped |-> FALSE, prepared |-> FALSE, by |-> 0,
                       reuse |-> stored # None]
    /\ owned' = "none"
    /\ UNCHANGED <<provider, stored, pc, work, published, cancelled, helpers,
                   containerVars, fileVars>>

\* startPreparation takes the attempt for this process before it knows the
\* container it runs in.
ReserveSlot ==
    /\ pc = "idle" /\ grant.open /\ ~session.stop /\ ~grant.prepared
    /\ ~grant.started /\ owned = "none"
    /\ owned' = "active" /\ pc' = "reserved"
    /\ UNCHANGED <<journalVars, work, published, cancelled, helpers, containerVars, fileVars>>

\* BeginPreparation; when it refuses, the process gives the attempt back.
BeginPreparation ==
    /\ pc = "reserved"
    /\ \/ /\ grant.open /\ ~session.stop /\ ~grant.started /\ ~grant.prepared
          /\ grant' = [grant EXCEPT !.started = TRUE, !.by = incarnation]
          /\ pc' = "begun" /\ cancelled' = FALSE /\ UNCHANGED owned
       \/ /\ pc' = "idle" /\ owned' = "none" /\ UNCHANGED <<grant, cancelled>>
    /\ UNCHANGED <<provider, stored, session, work, published, helpers, containerVars, fileVars>>

\* The goroutine can be cancelled from now on; a stop that committed before
\* is looked up once more.
PublishCancel ==
    /\ pc = "begun"
    /\ published' = TRUE
    /\ cancelled' = session.stop
    /\ pc' = "inputs"
    /\ UNCHANGED <<journalVars, work, owned, helpers, containerVars, fileVars>>

\* RequestStop from any side, then the cancellation of what runs, which every
\* later pass over the stopped attempt repeats (requestStop, stopAttempt,
\* stopSessionControllerWriters).
RequestStop ==
    /\ session.open /\ ~session.stop
    /\ session' = [session EXCEPT !.stop = TRUE]
    /\ UNCHANGED <<provider, stored, grant, processVars, containerVars, fileVars>>

CancelPreparation ==
    /\ session.stop /\ published /\ ~cancelled
    /\ cancelled' = TRUE
    /\ UNCHANGED <<journalVars, pc, work, owned, published, helpers, containerVars, fileVars>>

-----------------------------------------------------------------------------
(* The goroutine: inputs and helper                                        *)

Goto(next, w) ==
    /\ pc' = next /\ work' = w
    /\ UNCHANGED <<journalVars, owned, published, cancelled, containerVars>>

Fail(why) == Goto("failed", [work EXCEPT !.why = why]) /\ UNCHANGED <<helpers, fileVars>>

\* Any acquisition, read, write or check may fail; the context is looked at
\* before the helper starts and when it ends, not afterwards.
StepFails ==
    /\ pc \in {"inputs", "root", "base", "pin", "bindings", "generation", "artifacts",
               "checkpoint", "complete"} \cup {"collide", "skills", "project", "home"}
    /\ Fail("error")

\* The desktop that serves this session already runs on these links.
LiveReuse(prior) ==
    /\ prior.native /\ prior.session = session.id
    /\ session.pod /\ session.complete = prior.attempt

\* prepare: what the journal retained, and whether the desktop that serves it
\* is alive; the remote inputs are joined before any file is touched.
ReadInputs ==
    /\ pc = "inputs" /\ ~cancelled
    /\ LET mode == IF ~grant.reuse THEN "fresh"
                   ELSE IF LiveReuse(stored) THEN "live" ELSE "reuse"
           links == IF stored.native THEN stored.links ELSE ProjectionLinks
       IN Goto("helper", [NoWork EXCEPT !.mode = mode, !.prior = stored, !.links = links])
    /\ helpers' = helpers \cup {grant.attempt}
    /\ UNCHANGED fileVars

\* processgroup.Stop: the group got SIGKILL and none of its members is left.
ProvenStopped == helpers' = helpers \ {grant.attempt}

\* PrepareTask in scratch: the helper's group is killed and proven gone whether
\* it succeeded, failed or was cancelled; without the proof nothing is concluded.
HelperEnds ==
    /\ pc = "helper"
    /\ \/ /\ ProvenStopped /\ ~cancelled
          /\ Goto(IF work.mode = "fresh" THEN "root" ELSE "base", work)
       \/ /\ ProvenStopped
          /\ Goto("failed", [work EXCEPT !.why = "error"])
       \/ /\ UNCHANGED helpers
          /\ Goto("failed", [work EXCEPT !.why = "unproven"])
    /\ UNCHANGED fileVars

-----------------------------------------------------------------------------
(* The goroutine: the root                                                 *)

Write(next, w, r, e, g) ==
    /\ Goto(next, w)
    /\ root' = r /\ entry' = e /\ gens' = g
    /\ UNCHANGED <<helpers, writes>>

MakeRoot ==
    /\ pc = "root"
    /\ IF "dir" \in root THEN Fail("error")
       ELSE Write("base", work, root \cup {"dir"}, entry, gens)

Bound(links) == \A p \in links : entry[p] = "link"

\* verifyNativeFiles: the links of the record, or the marker that the earlier
\* release wrote.
Intact(links) ==
    IF work.prior.native THEN Bound(links)
    ELSE entry["marker"] \in {"file", "shared", "indirect"}

\* A fresh root gets its directories, owner and manifest.  A retained one must
\* still be what its record says; the optional link may have gone.
Base ==
    LET drop == {p \in {Resources} \cap work.prior.links :
                    work.prior.native /\ entry[p] # "link"}
    IN /\ pc = "base"
       /\ IF work.mode = "fresh"
          THEN Write("pin", work, root \cup {"base"}, entry, gens)
          ELSE IF "base" \in root /\ Intact(work.prior.links \ drop)
               THEN Write("pin", [work EXCEPT !.links = @ \ drop], root, entry, gens)
               ELSE Fail("error")

\* pinNativeRoot: retained data without its index is refused.
Pin ==
    /\ pc = "pin"
    /\ IF work.mode # "fresh" /\ "pin" \notin root THEN Fail("error")
       ELSE Write(IF Live THEN "bindings" ELSE "collide",
                  [work EXCEPT !.before = entry], root \cup {"pin"}, entry, gens)

\* Mutant: collisions are met one at a time, when their link is made.
CollidesNever(p) == FALSE

\* What root.Lstat and root.Readlink show, which follow a parent that is a
\* link; the reason "found" below is a refusal for what is at a path.
Collides(p) ==
    entry[p] \notin {"absent", "link", "indirect"} /\ ~(p \in OwnedFiles /\ entry[p] = "file")

\* The first pass of establishNativeProjections refuses the required collisions
\* that it can see, and gives up the optional link.
Collisions ==
    /\ pc = "collide"
    /\ IF (\E p \in ProjectionLinks \ {Resources} : Collides(p)) \/ entry[Resources] = "blocked"
       THEN Fail("found")
       ELSE Write("skills", [work EXCEPT
                    !.links = @ \ {p \in {Resources} : Collides(p)},
                    !.todo = IF work.prior.native THEN {} ELSE OwnedFiles \cap SkillFiles],
                  root, entry, gens)

\* Only listed skill files of the earlier release are removed, one by one in
\* any order; their directories are looked at on the way.
RemoveSkills ==
    /\ pc = "skills"
    /\ IF work.todo = {} THEN Write("project", [work EXCEPT !.todo = ProjectionLinks], root, entry, gens)
       ELSE \E p \in work.todo :
              IF entry[p] \in {"shared", "blocked", "indirect"} THEN Fail("found")
              ELSE Write("skills", [work EXCEPT !.todo = @ \ {p}], root,
                         [entry EXCEPT ![p] = IF @ = "file" THEN "absent" ELSE @], gens)

\* One link at a time, in any order: makeNativeDirectories refuses a parent
\* that is a link, an owned file is removed, then the link is made; the optional
\* link is given up where it cannot be made.
Project ==
    /\ pc = "project"
    /\ IF work.todo = {} THEN Write("home", [work EXCEPT !.todo = HomeLinks], root, entry, gens)
       ELSE \E p \in work.todo :
              LET done == [work EXCEPT !.todo = @ \ {p}]
                  give == [done EXCEPT !.links = @ \ {Resources}]
              IN CASE entry[p] = "link" -> Write("project", done, root, entry, gens)
                   [] entry[p] = "absent" ->
                        \/ Write("project", done, root, [entry EXCEPT ![p] = "link"], gens)
                        \/ p = Resources /\ Write("project", give, root, entry, gens)
                   [] p \in OwnedFiles /\ entry[p] = "shared" -> Fail("found")
                   [] p \in OwnedFiles /\ entry[p] = "file" ->
                        Write("project", work, root, [entry EXCEPT ![p] = "absent"], gens)
                   [] OTHER -> IF p = Resources THEN Write("project", give, root, entry, gens)
                               ELSE Fail("found")

\* Codex reads its login and plugins through links into the captured HOME.
BindHome ==
    /\ pc = "home"
    /\ IF work.todo = {} THEN Write("bindings", work, root, entry, gens)
       ELSE \E p \in work.todo :
              IF entry[p] \in {"absent", "link"}
              THEN Write("home", [work EXCEPT !.todo = @ \ {p}, !.links = @ \cup {p}], root,
                         [entry EXCEPT ![p] = "link"], gens)
              ELSE Fail("found")

VerifyBindings ==
    /\ pc = "bindings"
    /\ IF Bound(work.links) THEN Goto("generation", work) /\ UNCHANGED <<helpers, fileVars>>
       ELSE Fail("error")

-----------------------------------------------------------------------------
(* The goroutine: the generation and the journal                           *)

\* Mutant: the error of a write is dropped.
FillGenerationBlind ==
    /\ pc = "artifacts"
    /\ Write("checkpoint", work, root, entry, gens)

\* publishNativeArtifacts: the exclusive mkdir, then the files and, last,
\* published.json.
MakeGeneration ==
    /\ pc = "generation"
    /\ IF Key \in DOMAIN gens THEN Fail("error")
       ELSE Write("artifacts", work, root, entry,
                  [k \in DOMAIN gens \cup {Key} |->
                     IF k = Key THEN [by |-> grant.attempt, whole |-> FALSE] ELSE gens[k]])

FillGeneration ==
    /\ pc = "artifacts"
    /\ Write("checkpoint", work, root, entry, [gens EXCEPT ![Key].whole = TRUE])

Record == [native |-> TRUE, attempt |-> grant.attempt, session |-> session.id,
           turn |-> grant.turn, links |-> work.links, files |-> {}]

\* CheckpointPreparation, then CompletePreparation: the journal takes the
\* record although a stop may be committed by now.
CheckpointPreparation ==
    /\ pc = "checkpoint" /\ grant.open /\ grant.started /\ ~grant.stopped /\ ~grant.prepared
    /\ stored' = Record /\ pc' = "complete"
    /\ UNCHANGED <<provider, grant, session, work, owned, published, cancelled, helpers,
                   containerVars, fileVars>>

CompletePreparation ==
    /\ pc = "complete" /\ grant.open /\ grant.started /\ ~grant.stopped
    /\ grant' = [grant EXCEPT !.stopped = TRUE, !.prepared = TRUE]
    /\ stored' = Record
    /\ pc' = "idle" /\ owned' = "done" /\ published' = FALSE
    /\ work' = NoWork
    /\ UNCHANGED <<provider, session, cancelled, helpers, containerVars, fileVars>>

\* Mutant: the preparation counts as ended whatever became of the helper.
FailPreparationBlind ==
    /\ pc = "failed"
    /\ grant' = [grant EXCEPT !.stopped = TRUE]
    /\ session' = [session EXCEPT !.stop = TRUE]
    /\ pc' = "idle" /\ owned' = "done" /\ published' = FALSE /\ work' = NoWork
    /\ UNCHANGED <<provider, stored, cancelled, helpers, containerVars, fileVars>>

\* A failed preparation is recorded as ended unless its helper may still
\* write; then its failure stops the session, once.
FailPreparation ==
    /\ pc = "failed"
    /\ grant' = [grant EXCEPT !.stopped = @ \/ work.why # "unproven"]
    /\ session' = [session EXCEPT !.stop = TRUE]
    /\ pc' = "idle" /\ owned' = "done" /\ published' = FALSE /\ work' = NoWork
    /\ UNCHANGED <<provider, stored, cancelled, helpers, containerVars, fileVars>>

-----------------------------------------------------------------------------
(* Controller deaths, the worker and its programs                          *)

\* The process dies with its goroutines; a helper may outlive it until its
\* container ended.
Crash ==
    /\ incarnation <= MaxCrashes
    /\ incarnation' = incarnation + 1
    /\ pc' = "idle" /\ work' = NoWork /\ owned' = "none" /\ published' = FALSE
    /\ UNCHANGED <<journalVars, cancelled, helpers, ended, fileVars>>

ContainerEnds ==
    \E i \in (1..(incarnation - 1)) \ ended :
        /\ ended' = ended \cup {i}
        /\ helpers' = IF grant.by = i THEN {} ELSE helpers
        /\ UNCHANGED <<journalVars, pc, work, owned, published, cancelled, incarnation, fileVars>>

\* Mutant: a stopped session is left to whoever stopped it.
InterruptUnstopped ==
    /\ grant.open /\ grant.started /\ ~grant.stopped /\ grant.by \in ended
    /\ ~session.stop
    /\ grant' = [grant EXCEPT !.stopped = TRUE]
    /\ session' = [session EXCEPT !.stop = TRUE]
    /\ UNCHANGED <<provider, stored, processVars, containerVars, fileVars>>

\* InterruptPreparation, on Kubernetes' proof that the recorded container ended.
InterruptPreparation ==
    /\ grant.open /\ grant.started /\ ~grant.stopped /\ grant.by \in ended
    /\ grant' = [grant EXCEPT !.stopped = TRUE]
    /\ session' = [session EXCEPT !.stop = TRUE]
    /\ UNCHANGED <<provider, stored, processVars, containerVars, fileVars>>

\* The session's Pod is created for its first prepared turn.
PodStarts ==
    /\ grant.open /\ grant.prepared /\ ~session.stop /\ ~session.pod
    /\ session' = [session EXCEPT !.pod = TRUE]
    /\ UNCHANGED <<provider, stored, grant, processVars, containerVars, fileVars>>

TurnCompletes ==
    /\ grant.open /\ grant.prepared /\ session.pod /\ ~session.stop
    /\ grant' = [grant EXCEPT !.open = FALSE]
    /\ session' = [session EXCEPT !.complete = grant.attempt]
    /\ UNCHANGED <<provider, stored, processVars, containerVars, fileVars>>

PodEnds ==
    /\ session.stop /\ session.pod
    /\ session' = [session EXCEPT !.pod = FALSE]
    /\ UNCHANGED <<provider, stored, grant, processVars, containerVars, fileVars>>

\* CloseSession waits for the Pod and for the preparation, under the lock
\* every pass over the attempt takes.
CloseSession ==
    /\ session.open /\ session.stop /\ ~session.pod /\ pc = "idle"
    /\ grant.started => grant.stopped
    /\ session' = [session EXCEPT !.open = FALSE]
    /\ grant' = [grant EXCEPT !.open = FALSE]
    /\ UNCHANGED <<provider, stored, processVars, containerVars, fileVars>>

\* Browser, editors and the provider write the root they are mounted on.
TaskWrites ==
    /\ session.pod /\ writes < MaxWrites
    /\ \E p \in ProjectionLinks :
          \E c \in Contents \ {"link", entry[p]} :
             LET at == IF c \in {"blocked", "indirect"} THEN Beneath(p) ELSE {p}
             IN entry' = [q \in Paths |-> IF q \in at THEN c ELSE entry[q]]
    /\ writes' = writes + 1
    /\ UNCHANGED <<journalVars, processVars, containerVars, root, gens>>

PreparationStep ==
    \/ BeginPreparation \/ PublishCancel \/ StepFails \/ ReadInputs \/ HelperEnds
    \/ MakeRoot \/ Base \/ Pin \/ Collisions \/ RemoveSkills \/ Project \/ BindHome
    \/ VerifyBindings \/ MakeGeneration \/ FillGeneration
    \/ CheckpointPreparation \/ CompletePreparation \/ FailPreparation

Next ==
    \/ Reserve \/ ReserveSlot \/ RequestStop \/ CancelPreparation \/ PreparationStep
    \/ Crash \/ ContainerEnds \/ InterruptPreparation
    \/ PodStarts \/ TurnCompletes \/ PodEnds \/ CloseSession \/ TaskWrites

Spec == Init /\ [][Next]_vars

\* The goroutine is scheduled, Kubernetes reports ended containers and the
\* reconcile pass reads its report.
FairSpec == Spec /\ WF_vars(PreparationStep) /\ WF_vars(ContainerEnds)
                 /\ WF_vars(InterruptPreparation)

-----------------------------------------------------------------------------
(* Properties                                                              *)

\* publishNativeArtifacts and CheckpointPreparation: the generation a journaled
\* preparation names exists, is complete and is the one that attempt wrote,
\* whatever failed, died or was prepared since.
GenerationIsWhole ==
    stored.native =>
        /\ <<stored.session, stored.turn>> \in DOMAIN gens
        /\ gens[<<stored.session, stored.turn>>].by = stored.attempt
        /\ gens[<<stored.session, stored.turn>>].whole

\* establishNativeProjections, README "preserve user files": the controller
\* only ever replaces a single-link file the earlier release's manifest lists,
\* and never beside a running worker.
ForeignFilesSurvive ==
    [][\A p \in Paths :
         writes' = writes /\ entry'[p] # entry[p] =>
            /\ ~session.pod
            /\ entry[p] = "absent" \/ (entry[p] = "file" /\ p \in work.prior.files)]_vars

Refused == pc = "failed" /\ work.why = "found"
Foreign(p) ==
    \/ work.before[p] \in {"shared", "other", "blocked"}
    \/ work.before[p] = "file" /\ p \notin work.prior.files

\* establishNativeProjections: a foreign file where a required link belongs,
\* one that the earlier release did not list, that is shared or no file, is
\* refused with every platform path as the preparation found it.
CollisionsRefusedFirst ==
    (Establishing \/ Refused) /\ entry # work.before =>
        \A p \in ProjectionLinks \ {Resources} : ~Foreign(p)

\* "Refuse every required collision before removing any old platform file"
\* (prepare_resident.go:365): a preparation refused for what is at a platform
\* path has left all of them as it found them.
RefusalRemovesNothing == Refused => entry = work.before

\* PrepareTask's caller must "prove previous worker/helper writers stopped"
\* (prepare.go:181): platform links are set up without a worker or a helper
\* beside, and a preparation the journal calls stopped has none left.
WritersApart ==
    /\ Establishing => ~session.pod /\ helpers = {}
    /\ grant.stopped => pc = "idle" /\ helpers = {}

\* A started preparation is eventually recorded as stopped, through failures,
\* stops and controller deaths; only a helper this very container could not
\* prove stopped keeps it open (prepare.go:293).
PreparationSettles ==
    grant.started ~> (grant.stopped \/ (pc = "idle" /\ helpers # {} /\ grant.by = incarnation))

=============================================================================
