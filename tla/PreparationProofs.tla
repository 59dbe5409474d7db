------------------------- MODULE PreparationProofs -------------------------
(***************************************************************************)
(* The preparation of a task root, for any number of turns, sessions,      *)
(* controller deaths and writes of the task's own programs: the journal    *)
(* names only complete generations, platform links are set up only where   *)
(* nothing else writes, and a foreign file is refused before any change.    *)
(***************************************************************************)
EXTENDS Preparation, TLAPS

-----------------------------------------------------------------------------
(* The inductive invariant                                                 *)

Phases == {"idle", "reserved", "begun", "inputs", "helper", "root", "base", "pin", "collide",
           "skills", "project", "home", "bindings", "generation", "artifacts", "checkpoint",
           "complete", "failed"}
Preparations == [native : BOOLEAN, attempt : Nat, session : Nat, turn : Nat,
                 links : SUBSET Paths, files : SUBSET Paths]
Grants == [attempt : Nat, turn : Nat, open : BOOLEAN, started : BOOLEAN, stopped : BOOLEAN,
           prepared : BOOLEAN, by : Nat, reuse : BOOLEAN]
Sessions == [id : Nat, open : BOOLEAN, stop : BOOLEAN, pod : BOOLEAN, complete : Nat]
Works == [mode : {"fresh", "reuse", "live"}, prior : Preparations, links : SUBSET Paths,
          todo : SUBSET Paths, before : {<<>>} \cup [Paths -> Contents],
          why : {"none", "error", "unproven", "found"}]

\* The types of the journal, of the goroutine and of the root.
TypeOK ==
    /\ provider \in {"codex", "pi"} /\ stored \in Preparations
    /\ grant \in Grants /\ session \in Sessions
    /\ pc \in Phases /\ work \in Works
    /\ owned \in {"none", "active", "done"} /\ published \in BOOLEAN /\ cancelled \in BOOLEAN
    /\ incarnation \in Nat \ {0} /\ ended \subseteq 1 .. (incarnation - 1)
    /\ root \subseteq {"dir", "base", "pin"} /\ entry \in [Paths -> Contents]
    /\ writes \in Nat

\* The goroutine works for a grant whose start the journal has.
Running == pc \notin {"idle", "reserved"}

\* No required link has a foreign file in its place.
NoneForeign == \A p \in ProjectionLinks \ {Resources} : ~Foreign(p)

\* What the journal says of the attempt the goroutine carries: one that
\* started in this container and has not stopped; and a prepared turn is the
\* turn of the stored preparation.
GrantInv ==
    /\ grant.open => session.open
    /\ session.open /\ ~grant.open => grant.prepared
    /\ grant.prepared =>
          /\ grant.stopped /\ stored.native /\ stored.attempt = grant.attempt
          /\ stored.session = session.id /\ stored.turn = grant.turn
    /\ grant.stopped => grant.started
    /\ pc = "reserved" => grant.open /\ ~grant.started
    /\ Running => grant.open /\ grant.started /\ ~grant.stopped /\ grant.by = incarnation

\* A helper that may still write belongs to the current attempt, which has
\* not stopped and whose container has not ended; the goroutine goes on only
\* without it.
HelperInv ==
    /\ helpers \subseteq {grant.attempt}
    /\ helpers # {} => grant.open /\ grant.started /\ ~grant.stopped /\ grant.by \notin ended
    /\ Running /\ pc # "helper" /\ ~(pc = "failed" /\ work.why = "unproven") => helpers = {}

\* A worker beside a preparation is the one that the stored preparation
\* serves, and such a preparation is live.
BesideInv ==
    /\ session.pod /\ grant.open /\ (~grant.started \/ pc \in {"begun", "inputs"}) =>
          grant.reuse /\ LiveReuse(stored)
    /\ Running /\ pc \notin {"begun", "inputs", "failed"} /\ session.pod => Live
    /\ pc = "collide" \/ Establishing => ~Live
    /\ Refused => ~session.pod

\* No foreign file is left at a required link once the first file may be
\* removed, and the skills removed are listed ones.
LinkInv ==
    /\ pc = "collide" => entry = work.before
    /\ pc = "skills" => work.todo \subseteq OwnedFiles
    /\ Establishing => NoneForeign
    /\ Refused => entry = work.before \/ NoneForeign

\* The generation being written is this attempt's, and not yet journaled.
GenerationInv ==
    /\ GenerationIsWhole
    /\ pc = "artifacts" =>
          Key \in DOMAIN gens /\ gens[Key] = [by |-> grant.attempt, whole |-> FALSE]
    /\ pc \in {"checkpoint", "complete"} =>
          Key \in DOMAIN gens /\ gens[Key].by = grant.attempt /\ gens[Key].whole

PrepareInv == GrantInv /\ HelperInv /\ BesideInv /\ LinkInv /\ GenerationInv

USE DEF journalVars, processVars, containerVars, fileVars, vars

-----------------------------------------------------------------------------
(* Types                                                                   *)

\* The records a goroutine starts with.
LEMMA NoWorkTyped == None \in Preparations /\ NoWork \in Works
BY DEF None, NoWork, Preparations, Works

\* The initial root and journal are well typed.
LEMMA TypeInit == Init => TypeOK
<1> SUFFICES ASSUME Init PROVE TypeOK
  OBVIOUS
<1>1. stored \in Preparations
  <2>1. HomeLinks \in SUBSET Paths /\ ProjectionLinks \cup SkillFiles \in SUBSET Paths
        /\ {"marker", Resources} \cup SkillFiles \in SUBSET Paths
    BY DEF HomeLinks, SkillFiles, ProjectionLinks, Paths, Resources
  <2> QED
    <3>1. \A f, l \in SUBSET Paths : [None EXCEPT !.files = f, !.links = l] \in Preparations
      BY DEF None, Preparations
    <3>2. CASE MigratedRoot
      <4>1. PICK f \in {ProjectionLinks \cup SkillFiles, {"marker", Resources} \cup SkillFiles} :
              stored = [None EXCEPT !.files = f, !.links = HomeLinks]
        BY <3>2 DEF MigratedRoot
      <4>2. f \in SUBSET Paths
        BY <2>1
      <4>3. [None EXCEPT !.files = f, !.links = HomeLinks] \in Preparations
        BY <2>1, <3>1, <4>2
      <4> QED
        BY <4>1, <4>3
    <3> QED
      BY <3>2, NoWorkTyped DEF Init, FreshRoot
<1>2. entry \in [Paths -> Contents]
  <2>1. CASE FreshRoot
    BY <2>1 DEF FreshRoot, Contents
  <2>2. CASE MigratedRoot
    BY <2>2 DEF MigratedRoot, Contents
  <2> QED
    BY <2>1, <2>2 DEF Init
<1>3. root \subseteq {"dir", "base", "pin"}
  BY DEF Init, FreshRoot, MigratedRoot
<1>4. grant \in Grants /\ session \in Sessions /\ work \in Works
  BY NoWorkTyped DEF Init, Grants, Sessions
<1> QED
  <2>1. incarnation \in Nat \ {0} /\ ended \subseteq 1 .. (incarnation - 1) /\ writes \in Nat
    BY DEF Init
  <2> QED
    BY <1>1, <1>2, <1>3, <1>4, <2>1 DEF Init, TypeOK, Phases

\* Every step keeps the types.
LEMMA TypeStep == TypeOK /\ [Next]_vars => TypeOK'
<1> SUFFICES ASSUME TypeOK, [Next]_vars PROVE TypeOK'
  OBVIOUS
<1> USE DEF TypeOK
<1>2. CASE Reserve
  <2>1. grant' \in Grants
    BY <1>2 DEF Reserve, Grants
  <2>2. session' \in Sessions
    <3>1. session' = session \/ session' = [id |-> session.id + 1, open |-> TRUE, stop |-> FALSE,
                                             pod |-> FALSE, complete |-> 0]
      BY <1>2 DEF Reserve
    <3>2. session.id + 1 \in Nat
      BY DEF Sessions
    <3>3. \A n \in Nat : [id |-> n, open |-> TRUE, stop |-> FALSE, pod |-> FALSE, complete |-> 0]
                        \in Sessions
      BY DEF Sessions
    <3> QED
      BY <3>1, <3>2, <3>3
  <2> QED
    BY <1>2, <2>1, <2>2 DEF Reserve, Phases
<1>3. CASE ReserveSlot
  BY <1>3 DEF ReserveSlot, Grants, Sessions, Works, Phases
<1>4. CASE RequestStop
  <2>1. session' \in Sessions
    BY <1>4 DEF RequestStop, Sessions
  <2> QED
    BY <1>4, <2>1 DEF RequestStop
<1>5. CASE CancelPreparation
  BY <1>5 DEF CancelPreparation, Grants, Sessions, Works, Phases
<1>6. CASE BeginPreparation
  <2>1. grant' \in Grants
    BY <1>6 DEF BeginPreparation, Grants
  <2> QED
    BY <1>6, <2>1 DEF BeginPreparation, Phases
<1>7. CASE PublishCancel
  BY <1>7 DEF PublishCancel, Grants, Sessions, Works, Phases
<1>8. CASE StepFails
  <2>1. work' \in Works
    BY <1>8 DEF StepFails, Fail, Goto, Works
  <2> QED
    BY <1>8, <2>1 DEF StepFails, Fail, Goto, Phases
<1>9. CASE ReadInputs
  <2>1. stored.links \in SUBSET Paths /\ ProjectionLinks \in SUBSET Paths
    BY DEF Preparations, ProjectionLinks, Paths
  <2>2. work' \in Works
    BY <1>9, <2>1, NoWorkTyped DEF ReadInputs, Goto, Works
  <2> QED
    BY <1>9, <2>2 DEF ReadInputs, Goto, Phases
<1>10. CASE HelperEnds
  BY <1>10 DEF HelperEnds, Goto, Write, Fail, Grants, Sessions, Works, Phases
<1>11. CASE MakeRoot
  BY <1>11 DEF MakeRoot, Goto, Write, Fail, Grants, Sessions, Works, Phases
<1>12. CASE Base
  BY <1>12 DEF Base, Goto, Write, Fail, Grants, Sessions, Works, Phases
<1>13. CASE Pin
  BY <1>13 DEF Pin, Goto, Write, Fail, Grants, Sessions, Works, Phases
<1>14. CASE Collisions
  <2>1. work' \in Works
    <3>1. (IF work.prior.native THEN {} ELSE OwnedFiles \cap SkillFiles) \in SUBSET Paths
      BY DEF SkillFiles, Paths
    <3>2. \A l, d \in SUBSET Paths : [work EXCEPT !.links = l, !.todo = d] \in Works
      BY DEF Works
    <3>3. [work EXCEPT !.why = "found"] \in Works /\ work.links \in SUBSET Paths
      BY DEF Works
    <3>4. PICK l, d \in SUBSET Paths :
            work' = [work EXCEPT !.why = "found"] \/ work' = [work EXCEPT !.links = l, !.todo = d]
      BY <1>14, <3>1, <3>3 DEF Collisions, Goto, Fail, Write
    <3>5. [work EXCEPT !.links = l, !.todo = d] \in Works
      BY <3>2
    <3> QED
      BY <3>3, <3>4, <3>5
  <2> QED
    BY <1>14, <2>1 DEF Collisions, Goto, Fail, Write, Phases
<1>15. CASE RemoveSkills
  <2>1. work' \in Works
    BY <1>15 DEF RemoveSkills, Goto, Fail, Write, Works, ProjectionLinks, Resources, Paths
  <2>2. entry' \in [Paths -> Contents]
    BY <1>15 DEF RemoveSkills, Goto, Fail, Write, Contents
  <2> QED
    BY <1>15, <2>1, <2>2 DEF RemoveSkills, Goto, Fail, Write, Phases
<1>16. CASE Project
  <2>1. work' \in Works
    <3>1. \A l, d \in SUBSET Paths : [work EXCEPT !.todo = d, !.links = l] \in Works
      BY DEF Works
    <3>2. \A d \in SUBSET Paths : [work EXCEPT !.todo = d] \in Works
      BY DEF Works
    <3>3. [work EXCEPT !.why = "found"] \in Works
      BY DEF Works
    <3>4. work.links \in SUBSET Paths /\ work.todo \in SUBSET Paths /\ HomeLinks \in SUBSET Paths
      BY DEF Works, HomeLinks, Paths
    <3>5. \A p : [[work EXCEPT !.todo = @ \ {p}] EXCEPT !.links = @ \ {Resources}]
                  = [work EXCEPT !.todo = work.todo \ {p}, !.links = work.links \ {Resources}]
      BY DEF Works
    <3>6. \/ work' = work
          \/ work' = [work EXCEPT !.why = "found"]
          \/ work' = [work EXCEPT !.todo = HomeLinks]
          \/ \E p \in work.todo : work' = [work EXCEPT !.todo = work.todo \ {p}]
          \/ \E p \in work.todo :
                work' = [work EXCEPT !.todo = work.todo \ {p}, !.links = work.links \ {Resources}]
      BY <1>16, <3>5 DEF Project, Goto, Fail, Write
    <3>7. \A p : work.todo \ {p} \in SUBSET Paths /\ work.links \ {Resources} \in SUBSET Paths
      BY <3>4
    <3>8. CASE \E p \in work.todo : work' = [work EXCEPT !.todo = work.todo \ {p}]
      <4>1. PICK p \in work.todo : work' = [work EXCEPT !.todo = work.todo \ {p}]
        BY <3>8
      <4> QED
        BY <3>2, <3>7, <4>1
    <3>9. CASE \E p \in work.todo :
                 work' = [work EXCEPT !.todo = work.todo \ {p}, !.links = work.links \ {Resources}]
      <4>1. PICK p \in work.todo :
              work' = [work EXCEPT !.todo = work.todo \ {p}, !.links = work.links \ {Resources}]
        BY <3>9
      <4> QED
        BY <3>1, <3>7, <4>1
    <3> QED
      BY <3>2, <3>3, <3>4, <3>6, <3>8, <3>9
  <2>2. entry' \in [Paths -> Contents]
    BY <1>16 DEF Project, Goto, Fail, Write, Contents
  <2> QED
    <3>1. pc' \in {"home", "project", "failed"} /\ UNCHANGED <<root, writes>>
      BY <1>16 DEF Project, Goto, Fail, Write
    <3>2. UNCHANGED <<journalVars, owned, published, cancelled, containerVars>>
      BY <1>16 DEF Project, Goto, Fail, Write
    <3> QED
      BY <2>1, <2>2, <3>1, <3>2 DEF Phases
<1>17. CASE BindHome
  <2>1. work' \in Works
    <3>1. \A l, d \in SUBSET Paths : [work EXCEPT !.todo = d, !.links = l] \in Works
      BY DEF Works
    <3>2. [work EXCEPT !.why = "found"] \in Works
      BY DEF Works
    <3>3. work.links \in SUBSET Paths /\ work.todo \in SUBSET Paths
      BY DEF Works
    <3>4. \/ work' \in {work, [work EXCEPT !.why = "found"]}
          \/ \E p \in work.todo :
                work' = [work EXCEPT !.todo = work.todo \ {p}, !.links = work.links \cup {p}]
      BY <1>17 DEF BindHome, Goto, Fail, Write
    <3>5. CASE \E p \in work.todo :
                 work' = [work EXCEPT !.todo = work.todo \ {p}, !.links = work.links \cup {p}]
      <4>1. PICK p \in work.todo :
              work' = [work EXCEPT !.todo = work.todo \ {p}, !.links = work.links \cup {p}]
        BY <3>5
      <4>2. work.todo \ {p} \in SUBSET Paths /\ work.links \cup {p} \in SUBSET Paths
        BY <3>3
      <4> QED
        BY <3>1, <4>1, <4>2
    <3> QED
      BY <3>2, <3>4, <3>5
  <2>2. entry' \in [Paths -> Contents]
    BY <1>17 DEF BindHome, Goto, Fail, Write, Contents
  <2> QED
    BY <1>17, <2>1, <2>2 DEF BindHome, Goto, Fail, Write, Phases
<1>18. CASE VerifyBindings
  BY <1>18 DEF VerifyBindings, Goto, Write, Fail, Grants, Sessions, Works, Phases
<1>19. CASE MakeGeneration
  BY <1>19 DEF MakeGeneration, Goto, Write, Fail, Grants, Sessions, Works, Phases
<1>20. CASE FillGeneration
  BY <1>20 DEF FillGeneration, Goto, Write, Fail, Grants, Sessions, Works, Phases
<1>21. CASE CheckpointPreparation
  <2>1. stored' \in Preparations
    BY <1>21 DEF CheckpointPreparation, Record, Preparations, Grants, Sessions, Works
  <2> QED
    BY <1>21, <2>1 DEF CheckpointPreparation, Phases
<1>22. CASE CompletePreparation
  <2>1. stored' \in Preparations
    BY <1>22 DEF CompletePreparation, Record, Preparations, Grants, Sessions, Works
  <2>2. grant' \in Grants
    BY <1>22 DEF CompletePreparation, Grants
  <2> QED
    BY <1>22, <2>1, <2>2, NoWorkTyped DEF CompletePreparation, Phases
<1>23. CASE FailPreparation
  BY <1>23, NoWorkTyped DEF FailPreparation, Grants, Sessions, Phases
<1>24. CASE Crash
  <2>1. work' \in Works
    BY <1>24, NoWorkTyped DEF Crash
  <2>2. incarnation' \in Nat \ {0} /\ ended' \subseteq 1 .. (incarnation' - 1)
    BY <1>24 DEF Crash
  <2> QED
    BY <1>24, <2>1, <2>2 DEF Crash, Phases
<1>25. CASE ContainerEnds
  BY <1>25 DEF ContainerEnds, Grants, Sessions, Works, Phases
<1>26. CASE InterruptPreparation
  <2>1. session' \in Sessions
    BY <1>26 DEF InterruptPreparation, Sessions, Grants
  <2>2. grant' \in Grants
    BY <1>26 DEF InterruptPreparation, Grants
  <2> QED
    BY <1>26, <2>1, <2>2 DEF InterruptPreparation
<1>27. CASE PodStarts
  <2>1. session' \in Sessions
    BY <1>27 DEF PodStarts, Sessions
  <2> QED
    BY <1>27, <2>1 DEF PodStarts
<1>28. CASE TurnCompletes
  <2>1. session' \in Sessions
    BY <1>28 DEF TurnCompletes, Sessions, Grants
  <2>2. grant' \in Grants
    BY <1>28 DEF TurnCompletes, Grants
  <2> QED
    BY <1>28, <2>1, <2>2 DEF TurnCompletes
<1>29. CASE PodEnds
  <2>1. session' \in Sessions
    BY <1>29 DEF PodEnds, Sessions
  <2> QED
    BY <1>29, <2>1 DEF PodEnds
<1>30. CASE CloseSession
  <2>1. session' \in Sessions
    BY <1>30 DEF CloseSession, Sessions, Grants
  <2>2. grant' \in Grants
    BY <1>30 DEF CloseSession, Grants
  <2> QED
    BY <1>30, <2>1, <2>2 DEF CloseSession
<1>31. CASE TaskWrites
  BY <1>31 DEF TaskWrites, ProjectionLinks, Resources, Paths, Contents
<1>32. CASE UNCHANGED vars
  BY <1>32 DEF Grants, Sessions, Preparations, Works, Phases, Paths, ProjectionLinks, HomeLinks, SkillFiles, Resources, Contents, OwnedFiles
<1> QED
  BY <1>2, <1>3, <1>4, <1>5, <1>6, <1>7, <1>8, <1>9, <1>10, <1>11, <1>12, <1>13, <1>14, <1>15, <1>16, <1>17, <1>18, <1>19, <1>20, <1>21, <1>22, <1>23, <1>24, <1>25, <1>26, <1>27, <1>28, <1>29, <1>30, <1>31, <1>32 DEF Next, PreparationStep

-----------------------------------------------------------------------------
(* The journal and the goroutine                                           *)

\* The steps of the goroutine between its start and its verdict.
Prepares ==
    \/ StepFails \/ ReadInputs \/ HelperEnds \/ MakeRoot \/ Base \/ Pin \/ Collisions
    \/ RemoveSkills \/ Project \/ BindHome \/ VerifyBindings \/ MakeGeneration \/ FillGeneration

KeepsJournal ==
    /\ pc \notin {"idle", "reserved", "begun", "failed"}
    /\ pc' \notin {"idle", "reserved", "begun", "inputs", "complete"}
    /\ UNCHANGED <<journalVars, owned, published, cancelled, containerVars>>

\* They leave the journal and the attempt alone.
LEMMA PreparesFrame == Prepares => KeepsJournal
<1> SUFFICES ASSUME Prepares PROVE KeepsJournal
  OBVIOUS
<1>1. CASE StepFails
  <2>1. pc \notin {"idle", "reserved", "begun", "failed"}
    BY <1>1 DEF StepFails
  <2> QED
    BY <1>1, <2>1 DEF StepFails, Goto, Fail, Write, KeepsJournal
<1>2. CASE ReadInputs
  <2>1. pc \notin {"idle", "reserved", "begun", "failed"}
    BY <1>2 DEF ReadInputs
  <2> QED
    BY <1>2, <2>1 DEF ReadInputs, Goto, Fail, Write, KeepsJournal
<1>3. CASE HelperEnds
  <2>1. pc \notin {"idle", "reserved", "begun", "failed"}
    BY <1>3 DEF HelperEnds
  <2> QED
    BY <1>3, <2>1 DEF HelperEnds, Goto, Fail, Write, KeepsJournal
<1>4. CASE MakeRoot
  <2>1. pc \notin {"idle", "reserved", "begun", "failed"}
    BY <1>4 DEF MakeRoot
  <2> QED
    BY <1>4, <2>1 DEF MakeRoot, Goto, Fail, Write, KeepsJournal
<1>5. CASE Base
  <2>1. pc \notin {"idle", "reserved", "begun", "failed"}
    BY <1>5 DEF Base
  <2> QED
    BY <1>5, <2>1 DEF Base, Goto, Fail, Write, KeepsJournal
<1>6. CASE Pin
  <2>1. pc \notin {"idle", "reserved", "begun", "failed"}
    BY <1>6 DEF Pin
  <2> QED
    BY <1>6, <2>1 DEF Pin, Goto, Fail, Write, KeepsJournal
<1>7. CASE Collisions
  <2>1. pc \notin {"idle", "reserved", "begun", "failed"}
    BY <1>7 DEF Collisions
  <2> QED
    BY <1>7, <2>1 DEF Collisions, Goto, Fail, Write, KeepsJournal
<1>8. CASE RemoveSkills
  <2>1. pc \notin {"idle", "reserved", "begun", "failed"}
    BY <1>8 DEF RemoveSkills
  <2> QED
    BY <1>8, <2>1 DEF RemoveSkills, Goto, Fail, Write, KeepsJournal
<1>9. CASE Project
  <2>1. pc \notin {"idle", "reserved", "begun", "failed"}
    BY <1>9 DEF Project
  <2> QED
    BY <1>9, <2>1 DEF Project, Goto, Fail, Write, KeepsJournal
<1>10. CASE BindHome
  <2>1. pc \notin {"idle", "reserved", "begun", "failed"}
    BY <1>10 DEF BindHome
  <2> QED
    BY <1>10, <2>1 DEF BindHome, Goto, Fail, Write, KeepsJournal
<1>11. CASE VerifyBindings
  <2>1. pc \notin {"idle", "reserved", "begun", "failed"}
    BY <1>11 DEF VerifyBindings
  <2> QED
    BY <1>11, <2>1 DEF VerifyBindings, Goto, Fail, Write, KeepsJournal
<1>12. CASE MakeGeneration
  <2>1. pc \notin {"idle", "reserved", "begun", "failed"}
    BY <1>12 DEF MakeGeneration
  <2> QED
    BY <1>12, <2>1 DEF MakeGeneration, Goto, Fail, Write, KeepsJournal
<1>13. CASE FillGeneration
  <2>1. pc \notin {"idle", "reserved", "begun", "failed"}
    BY <1>13 DEF FillGeneration
  <2> QED
    BY <1>13, <2>1 DEF FillGeneration, Goto, Fail, Write, KeepsJournal
<1> QED
  BY <1>1, <1>2, <1>3, <1>4, <1>5, <1>6, <1>7, <1>8, <1>9, <1>10, <1>11, <1>12, <1>13 DEF Prepares

\* The journal agrees with the goroutine.
LEMMA GrantStep == TypeOK /\ GrantInv /\ HelperInv /\ [Next]_vars => GrantInv'
<1> SUFFICES ASSUME TypeOK, GrantInv, HelperInv, [Next]_vars PROVE GrantInv'
  OBVIOUS
<1> USE DEF TypeOK, GrantInv, Running
<1>1. CASE Prepares
  BY <1>1, PreparesFrame DEF KeepsJournal
<1>2. CASE Reserve
  BY <1>2 DEF Reserve, Grants, Sessions
<1>3. CASE ReserveSlot
  BY <1>3 DEF ReserveSlot, Grants, Sessions
<1>4. CASE RequestStop
  BY <1>4 DEF RequestStop, Grants, Sessions
<1>5. CASE CancelPreparation
  BY <1>5 DEF CancelPreparation, Grants, Sessions
<1>6. CASE BeginPreparation
  BY <1>6 DEF BeginPreparation, Grants, Sessions
<1>7. CASE PublishCancel
  BY <1>7 DEF PublishCancel, Grants, Sessions
<1>8. CASE CheckpointPreparation
  BY <1>8 DEF CheckpointPreparation, Grants, Sessions
<1>9. CASE CompletePreparation
  BY <1>9 DEF CompletePreparation, Record, Grants, Sessions, Preparations
<1>10. CASE FailPreparation
  BY <1>10 DEF FailPreparation, Grants, Sessions
<1>11. CASE Crash
  BY <1>11 DEF Crash, Grants, Sessions
<1>12. CASE ContainerEnds
  BY <1>12 DEF ContainerEnds, Grants, Sessions
<1>13. CASE InterruptPreparation
  BY <1>13 DEF InterruptPreparation, Grants, Sessions
<1>14. CASE PodStarts
  BY <1>14 DEF PodStarts, Grants, Sessions
<1>15. CASE TurnCompletes
  BY <1>15 DEF TurnCompletes, Grants, Sessions
<1>16. CASE PodEnds
  BY <1>16 DEF PodEnds, Grants, Sessions
<1>17. CASE CloseSession
  BY <1>17 DEF CloseSession, Grants, Sessions
<1>18. CASE TaskWrites
  BY <1>18 DEF TaskWrites, Grants, Sessions
<1>19. CASE UNCHANGED vars
  BY <1>19
<1> QED
  BY <1>1, <1>2, <1>3, <1>4, <1>5, <1>6, <1>7, <1>8, <1>9, <1>10, <1>11, <1>12, <1>13, <1>14, <1>15, <1>16, <1>17, <1>18, <1>19 DEF Next, PreparationStep, Prepares

\* Once its helper ended, the goroutine starts no other.
KeepsHelpers == pc # "helper" /\ UNCHANGED helpers

\* All steps of the goroutine but the helper's own leave the helpers alone.
LEMMA HelpersFrame == Prepares /\ ~ReadInputs /\ ~HelperEnds => KeepsHelpers
<1> SUFFICES ASSUME Prepares, ~ReadInputs, ~HelperEnds PROVE KeepsHelpers
  OBVIOUS
<1>1. CASE StepFails
  <2>1. pc # "helper"
    BY <1>1 DEF StepFails
  <2> QED
    BY <1>1, <2>1 DEF StepFails, Goto, Fail, Write, KeepsHelpers
<1>2. CASE MakeRoot
  <2>1. pc # "helper"
    BY <1>2 DEF MakeRoot
  <2> QED
    BY <1>2, <2>1 DEF MakeRoot, Goto, Fail, Write, KeepsHelpers
<1>3. CASE Base
  <2>1. pc # "helper"
    BY <1>3 DEF Base
  <2> QED
    BY <1>3, <2>1 DEF Base, Goto, Fail, Write, KeepsHelpers
<1>4. CASE Pin
  <2>1. pc # "helper"
    BY <1>4 DEF Pin
  <2> QED
    BY <1>4, <2>1 DEF Pin, Goto, Fail, Write, KeepsHelpers
<1>5. CASE Collisions
  <2>1. pc # "helper"
    BY <1>5 DEF Collisions
  <2> QED
    BY <1>5, <2>1 DEF Collisions, Goto, Fail, Write, KeepsHelpers
<1>6. CASE RemoveSkills
  <2>1. pc # "helper"
    BY <1>6 DEF RemoveSkills
  <2> QED
    BY <1>6, <2>1 DEF RemoveSkills, Goto, Fail, Write, KeepsHelpers
<1>7. CASE Project
  <2>1. pc # "helper"
    BY <1>7 DEF Project
  <2> QED
    BY <1>7, <2>1 DEF Project, Goto, Fail, Write, KeepsHelpers
<1>8. CASE BindHome
  <2>1. pc # "helper"
    BY <1>8 DEF BindHome
  <2> QED
    BY <1>8, <2>1 DEF BindHome, Goto, Fail, Write, KeepsHelpers
<1>9. CASE VerifyBindings
  <2>1. pc # "helper"
    BY <1>9 DEF VerifyBindings
  <2> QED
    BY <1>9, <2>1 DEF VerifyBindings, Goto, Fail, Write, KeepsHelpers
<1>10. CASE MakeGeneration
  <2>1. pc # "helper"
    BY <1>10 DEF MakeGeneration
  <2> QED
    BY <1>10, <2>1 DEF MakeGeneration, Goto, Fail, Write, KeepsHelpers
<1>11. CASE FillGeneration
  <2>1. pc # "helper"
    BY <1>11 DEF FillGeneration
  <2> QED
    BY <1>11, <2>1 DEF FillGeneration, Goto, Fail, Write, KeepsHelpers
<1> QED
  BY <1>1, <1>2, <1>3, <1>4, <1>5, <1>6, <1>7, <1>8, <1>9, <1>10, <1>11 DEF Prepares

\* A helper is alone, and known to be gone before anything else is done.
LEMMA HelperStep == TypeOK /\ GrantInv /\ HelperInv /\ [Next]_vars => HelperInv'
<1> SUFFICES ASSUME TypeOK, GrantInv, HelperInv, [Next]_vars PROVE HelperInv'
  OBVIOUS
<1> USE DEF TypeOK, GrantInv, HelperInv, Running
<1>1. CASE Prepares
  <2>1. CASE ReadInputs
    BY <2>1 DEF ReadInputs, Goto
  <2>2. CASE HelperEnds
    BY <2>2 DEF HelperEnds, Goto, ProvenStopped, Works
  <2>3. CASE ~ReadInputs /\ ~HelperEnds
    BY <1>1, <2>3, PreparesFrame, HelpersFrame DEF KeepsJournal, KeepsHelpers
  <2> QED
    BY <2>1, <2>2, <2>3
<1>2. CASE Reserve
  BY <1>2 DEF Reserve, Grants, Sessions
<1>3. CASE ReserveSlot
  BY <1>3 DEF ReserveSlot, Grants, Sessions
<1>4. CASE RequestStop
  BY <1>4 DEF RequestStop, Grants, Sessions
<1>5. CASE CancelPreparation
  BY <1>5 DEF CancelPreparation, Grants, Sessions
<1>6. CASE BeginPreparation
  BY <1>6 DEF BeginPreparation, Grants, Sessions
<1>7. CASE PublishCancel
  BY <1>7 DEF PublishCancel, Grants, Sessions
<1>8. CASE CheckpointPreparation
  BY <1>8 DEF CheckpointPreparation, Grants, Sessions
<1>9. CASE CompletePreparation
  BY <1>9 DEF CompletePreparation, Grants, Sessions
<1>10. CASE FailPreparation
  BY <1>10 DEF FailPreparation, Grants, Sessions
<1>11. CASE Crash
  BY <1>11 DEF Crash, Grants, Sessions
<1>12. CASE ContainerEnds
  BY <1>12 DEF ContainerEnds, Grants, Sessions
<1>13. CASE InterruptPreparation
  BY <1>13 DEF InterruptPreparation, Grants, Sessions
<1>14. CASE PodStarts
  BY <1>14 DEF PodStarts, Grants, Sessions
<1>15. CASE TurnCompletes
  BY <1>15 DEF TurnCompletes, Grants, Sessions
<1>16. CASE PodEnds
  BY <1>16 DEF PodEnds, Grants, Sessions
<1>17. CASE CloseSession
  BY <1>17 DEF CloseSession, Grants, Sessions
<1>18. CASE TaskWrites
  BY <1>18 DEF TaskWrites, Grants, Sessions
<1>19. CASE UNCHANGED vars
  BY <1>19
<1> QED
  BY <1>1, <1>2, <1>3, <1>4, <1>5, <1>6, <1>7, <1>8, <1>9, <1>10, <1>11, <1>12, <1>13, <1>14, <1>15, <1>16, <1>17, <1>18, <1>19 DEF Next, PreparationStep, Prepares

-----------------------------------------------------------------------------
(* The worker beside                                                       *)

\* Nothing but a live reuse runs beside a worker.
LEMMA BesideStep ==
    TypeOK /\ GrantInv /\ HelperInv /\ BesideInv /\ [Next]_vars => BesideInv'
<1> SUFFICES ASSUME TypeOK, GrantInv, HelperInv, BesideInv, [Next]_vars PROVE BesideInv'
  OBVIOUS
<1> USE DEF TypeOK, GrantInv, BesideInv, Running, LiveReuse, Live, Establishing, Refused
<1>1. CASE Prepares
  <2>1. UNCHANGED <<session, grant, stored>> /\ Running /\ Running' /\ pc' \notin {"begun", "inputs"}
    BY <1>1, PreparesFrame DEF KeepsJournal
  <2>2. CASE StepFails
    BY <2>1, <2>2 DEF StepFails, Goto, Fail, Write, Works
  <2>3. CASE ReadInputs
    BY <2>1, <2>3 DEF ReadInputs, Goto, Fail, Write, Works
  <2>4. CASE HelperEnds
    BY <2>1, <2>4 DEF HelperEnds, Goto, Fail, Write, Works
  <2>5. CASE MakeRoot
    BY <2>1, <2>5 DEF MakeRoot, Goto, Fail, Write, Works
  <2>6. CASE Base
    BY <2>1, <2>6 DEF Base, Goto, Fail, Write, Works
  <2>7. CASE Pin
    BY <2>1, <2>7 DEF Pin, Goto, Fail, Write, Works
  <2>8. CASE Collisions
    BY <2>1, <2>8 DEF Collisions, Goto, Fail, Write, Works
  <2>9. CASE RemoveSkills
    BY <2>1, <2>9 DEF RemoveSkills, Goto, Fail, Write, Works
  <2>10. CASE Project
    BY <2>1, <2>10 DEF Project, Goto, Fail, Write, Works
  <2>11. CASE BindHome
    BY <2>1, <2>11 DEF BindHome, Goto, Fail, Write, Works
  <2>12. CASE VerifyBindings
    BY <2>1, <2>12 DEF VerifyBindings, Goto, Fail, Write, Works
  <2>13. CASE MakeGeneration
    BY <2>1, <2>13 DEF MakeGeneration, Goto, Fail, Write, Works
  <2>14. CASE FillGeneration
    BY <2>1, <2>14 DEF FillGeneration, Goto, Fail, Write, Works
  <2> QED
    BY <1>1, <2>2, <2>3, <2>4, <2>5, <2>6, <2>7, <2>8, <2>9, <2>10, <2>11, <2>12, <2>13, <2>14 DEF Prepares
<1>2. CASE Reserve
  <2>1. pc = "idle" /\ pc' = "idle" /\ ~grant.open /\ UNCHANGED <<stored, work>>
    BY <1>2 DEF Reserve
  <2>2. CASE UNCHANGED session
    <3>1. stored.native /\ stored.session = session.id /\ session.complete = stored.attempt
      BY <1>2, <2>2 DEF Reserve, Sessions, Grants
    <3>2. grant'.reuse
      <4>1. stored # None
        BY <3>1 DEF None
      <4> QED
        BY <1>2, <4>1 DEF Reserve
    <3> QED
      BY <2>1, <2>2, <3>1, <3>2
  <2>3. CASE ~UNCHANGED session
    <3>1. ~session'.pod
      BY <1>2, <2>3 DEF Reserve
    <3> QED
      BY <2>1, <3>1
  <2> QED
    BY <2>2, <2>3
<1>3. CASE ReserveSlot
  BY <1>3 DEF ReserveSlot, Grants, Sessions
<1>4. CASE RequestStop
  BY <1>4 DEF RequestStop, Grants, Sessions
<1>5. CASE CancelPreparation
  BY <1>5 DEF CancelPreparation, Grants, Sessions
<1>6. CASE BeginPreparation
  BY <1>6 DEF BeginPreparation, Grants, Sessions
<1>7. CASE PublishCancel
  BY <1>7 DEF PublishCancel, Grants, Sessions
<1>8. CASE CheckpointPreparation
  BY <1>8 DEF CheckpointPreparation, Grants, Sessions
<1>9. CASE CompletePreparation
  BY <1>9 DEF CompletePreparation, Grants, Sessions
<1>10. CASE FailPreparation
  BY <1>10 DEF FailPreparation, Grants, Sessions
<1>11. CASE Crash
  BY <1>11 DEF Crash, Grants, Sessions
<1>12. CASE ContainerEnds
  BY <1>12 DEF ContainerEnds, Grants, Sessions
<1>13. CASE InterruptPreparation
  BY <1>13 DEF InterruptPreparation, Grants, Sessions
<1>14. CASE PodStarts
  BY <1>14 DEF PodStarts, Grants, Sessions
<1>15. CASE TurnCompletes
  BY <1>15 DEF TurnCompletes, Grants, Sessions
<1>16. CASE PodEnds
  BY <1>16 DEF PodEnds, Grants, Sessions
<1>17. CASE CloseSession
  BY <1>17 DEF CloseSession, Grants, Sessions
<1>18. CASE TaskWrites
  BY <1>18 DEF TaskWrites, Grants, Sessions
<1>19. CASE UNCHANGED vars
  BY <1>19
<1> QED
  BY <1>1, <1>2, <1>3, <1>4, <1>5, <1>6, <1>7, <1>8, <1>9, <1>10, <1>11, <1>12, <1>13, <1>14, <1>15, <1>16, <1>17, <1>18, <1>19 DEF Next, PreparationStep, Prepares

-----------------------------------------------------------------------------
(* The platform's links                                                    *)

\* What a preparation found, and what is foreign there, is fixed by its start.
LEMMA ForeignKept ==
    ASSUME work'.before = work.before, work'.prior = work.prior
    PROVE  NoneForeign' = NoneForeign /\ OwnedFiles' = OwnedFiles
BY DEF NoneForeign, Foreign, OwnedFiles, ProjectionLinks, Resources

\* While nothing writes the root and the goroutine does not move, or has
\* nothing to do with links, the facts about links stay.
LEMMA LinkKept ==
    ASSUME LinkInv, UNCHANGED <<work, entry>>, pc' = pc
    PROVE  LinkInv'
BY ForeignKept DEF LinkInv, Refused, Establishing

\* Nothing is said of links in phases that do not touch them, nor of failures
\* for another reason than what is at a path.
LEMMA LinkIdle ==
    ASSUME pc' \notin {"collide", "skills", "project", "home"},
           pc' = "failed" => work'.why # "found"
    PROVE  LinkInv'
BY DEF LinkInv, Refused, Establishing

\* Every foreign file at a required link is refused before the first removal,
\* and what the preparation found is fixed.
LEMMA LinkStep ==
    TypeOK /\ BesideInv /\ LinkInv /\ [Next]_vars => LinkInv'
<1> SUFFICES ASSUME TypeOK, BesideInv, LinkInv, [Next]_vars PROVE LinkInv'
  OBVIOUS
<1> USE DEF TypeOK
<1>1. CASE StepFails
  <2>1. pc' = "failed" /\ work'.why = "error"
    BY <1>1 DEF StepFails, Goto, Fail, Works
  <2> QED
    BY <2>1, LinkIdle
<1>2. CASE ReadInputs
  BY <1>2, LinkIdle DEF ReadInputs, Goto
<1>3. CASE HelperEnds
  <2>1. pc' \in {"root", "base", "failed"} /\ (pc' = "failed" => work'.why # "found")
    BY <1>3 DEF HelperEnds, Goto, Works
  <2> QED
    BY <2>1, LinkIdle
<1>4. CASE MakeRoot
  <2>1. pc' \in {"base", "failed"} /\ (pc' = "failed" => work'.why # "found")
    BY <1>4 DEF MakeRoot, Goto, Fail, Write, Works
  <2> QED
    BY <2>1, LinkIdle
<1>5. CASE Base
  <2>1. pc' \in {"pin", "failed"} /\ (pc' = "failed" => work'.why # "found")
    BY <1>5 DEF Base, Goto, Fail, Write, Works
  <2> QED
    BY <2>1, LinkIdle
<1>6. CASE Pin
  <2>1. pc' \in {"bindings", "collide", "failed"} /\ (pc' = "failed" => work'.why # "found")
    BY <1>6 DEF Pin, Goto, Fail, Write, Works
  <2>2. pc' = "collide" => entry' = work'.before
    BY <1>6 DEF Pin, Goto, Fail, Write, Works
  <2> QED
    BY <2>1, <2>2 DEF LinkInv, Refused, Establishing
<1>7. CASE Collisions
  <2>1. pc = "collide" /\ entry' = entry /\ entry = work.before
    BY <1>7 DEF Collisions, Goto, Fail, Write, LinkInv
  <2>2. work'.before = work.before /\ work'.prior = work.prior
    BY <1>7 DEF Collisions, Goto, Fail, Write, Works
  <2>3. CASE pc' = "failed"
    BY <2>1, <2>2, <2>3 DEF LinkInv, Refused, Establishing
  <2>4. CASE pc' # "failed"
    <3>1. /\ pc' = "skills" /\ \A p \in ProjectionLinks \ {Resources} : ~Collides(p)
          /\ work'.todo = IF work.prior.native THEN {} ELSE OwnedFiles \cap SkillFiles
      BY <1>7, <2>4 DEF Collisions, Goto, Fail, Write, Works
    <3>2. NoneForeign
      <4> SUFFICES ASSUME NEW p \in ProjectionLinks \ {Resources} PROVE ~Foreign(p)
        BY DEF NoneForeign
      <4>1. ~Collides(p)
        BY <3>1
      <4> QED
        BY <2>1, <4>1 DEF Foreign, Collides, OwnedFiles
    <3>3. NoneForeign' /\ OwnedFiles' = OwnedFiles
      BY <2>2, <3>2, ForeignKept
    <3> QED
      BY <3>1, <3>3 DEF LinkInv, Refused, Establishing
  <2> QED
    BY <2>3, <2>4
<1>8. CASE RemoveSkills
  <2>1. pc = "skills" /\ pc' \in {"skills", "project", "failed"}
    BY <1>8 DEF RemoveSkills, Goto, Fail, Write
  <2>2. /\ work'.before = work.before /\ work'.prior = work.prior
        /\ pc' = "skills" => work'.todo \subseteq work.todo
    BY <1>8 DEF RemoveSkills, Goto, Fail, Write, Works
  <2>3. NoneForeign /\ work.todo \subseteq OwnedFiles
    BY <2>1 DEF LinkInv, Establishing
  <2>4. NoneForeign' /\ OwnedFiles' = OwnedFiles
    BY <2>2, <2>3, ForeignKept
  <2> QED
    BY <2>1, <2>2, <2>3, <2>4 DEF LinkInv
<1>9. CASE Project
  <2>1. pc = "project" /\ pc' \in {"project", "home", "failed"}
    BY <1>9 DEF Project, Goto, Fail, Write
  <2>2. work'.before = work.before /\ work'.prior = work.prior
    BY <1>9 DEF Project, Goto, Fail, Write, Works
  <2>3. NoneForeign'
    BY <2>1, <2>2, ForeignKept DEF LinkInv, Establishing
  <2> QED
    BY <2>1, <2>3 DEF LinkInv
<1>10. CASE BindHome
  <2>1. pc = "home" /\ pc' \in {"home", "bindings", "failed"}
    BY <1>10 DEF BindHome, Goto, Fail, Write
  <2>2. work'.before = work.before /\ work'.prior = work.prior
    BY <1>10 DEF BindHome, Goto, Fail, Write, Works
  <2>3. NoneForeign'
    BY <2>1, <2>2, ForeignKept DEF LinkInv, Establishing
  <2> QED
    BY <2>1, <2>3 DEF LinkInv
<1>11. CASE VerifyBindings
  <2>1. pc' \in {"generation", "failed"} /\ (pc' = "failed" => work'.why # "found")
    BY <1>11 DEF VerifyBindings, Goto, Fail, Works
  <2> QED
    BY <2>1, LinkIdle
<1>12. CASE MakeGeneration
  <2>1. pc' \in {"artifacts", "failed"} /\ (pc' = "failed" => work'.why # "found")
    BY <1>12 DEF MakeGeneration, Goto, Fail, Write, Works
  <2> QED
    BY <2>1, LinkIdle
<1>13. CASE FillGeneration
  BY <1>13, LinkIdle DEF FillGeneration, Goto, Write
<1>14. CASE Reserve
  BY <1>14, LinkKept, LinkIdle DEF Reserve
<1>15. CASE ReserveSlot
  BY <1>15, LinkKept, LinkIdle DEF ReserveSlot
<1>16. CASE RequestStop
  BY <1>16, LinkKept, LinkIdle DEF RequestStop
<1>17. CASE CancelPreparation
  BY <1>17, LinkKept, LinkIdle DEF CancelPreparation
<1>18. CASE BeginPreparation
  BY <1>18, LinkKept, LinkIdle DEF BeginPreparation
<1>19. CASE PublishCancel
  BY <1>19, LinkKept, LinkIdle DEF PublishCancel
<1>20. CASE CheckpointPreparation
  BY <1>20, LinkKept, LinkIdle DEF CheckpointPreparation
<1>21. CASE CompletePreparation
  BY <1>21, LinkKept, LinkIdle DEF CompletePreparation
<1>22. CASE FailPreparation
  BY <1>22, LinkKept, LinkIdle DEF FailPreparation
<1>23. CASE Crash
  BY <1>23, LinkKept, LinkIdle DEF Crash
<1>24. CASE ContainerEnds
  BY <1>24, LinkKept, LinkIdle DEF ContainerEnds
<1>25. CASE InterruptPreparation
  BY <1>25, LinkKept, LinkIdle DEF InterruptPreparation
<1>26. CASE PodStarts
  BY <1>26, LinkKept, LinkIdle DEF PodStarts
<1>27. CASE TurnCompletes
  BY <1>27, LinkKept, LinkIdle DEF TurnCompletes
<1>28. CASE PodEnds
  BY <1>28, LinkKept, LinkIdle DEF PodEnds
<1>29. CASE CloseSession
  BY <1>29, LinkKept, LinkIdle DEF CloseSession
<1>30. CASE TaskWrites
  <2>1. session.pod /\ UNCHANGED <<pc, work>>
    BY <1>30 DEF TaskWrites
  <2>2. ~(pc = "collide" \/ Establishing \/ Refused)
    BY <2>1 DEF BesideInv, Running, Establishing, Refused
  <2> QED
    BY <2>1, <2>2 DEF LinkInv, Establishing, Refused
<1>31. CASE UNCHANGED vars
  BY <1>31, LinkKept
<1> QED
  BY <1>1, <1>2, <1>3, <1>4, <1>5, <1>6, <1>7, <1>8, <1>9, <1>10, <1>11, <1>12, <1>13, <1>14, <1>15, <1>16, <1>17, <1>18, <1>19, <1>20, <1>21, <1>22, <1>23, <1>24, <1>25, <1>26, <1>27, <1>28, <1>29, <1>30, <1>31 DEF Next, PreparationStep

-----------------------------------------------------------------------------
(* The generations                                                         *)

\* Where no generation is written, the facts about generations stay.
LEMMA GenerationKept ==
    ASSUME GenerationInv, UNCHANGED <<gens, stored>>,
           \/ pc' \notin {"artifacts", "checkpoint", "complete"}
           \/ /\ pc' = pc /\ session'.id = session.id
              /\ grant'.attempt = grant.attempt /\ grant'.turn = grant.turn
    PROVE  GenerationInv'
BY DEF GenerationInv, GenerationIsWhole, Key

\* The exclusive mkdir makes a generation this attempt's for good, so what
\* the journal takes over is what this attempt completed.
LEMMA GenerationStep ==
    TypeOK /\ GrantInv /\ GenerationInv /\ [Next]_vars => GenerationInv'
<1> SUFFICES ASSUME TypeOK, GrantInv, GenerationInv, [Next]_vars PROVE GenerationInv'
  OBVIOUS
<1> USE DEF TypeOK
<1>1. CASE StepFails
  <2>1. pc' \notin {"artifacts", "checkpoint", "complete"} /\ UNCHANGED <<gens, stored>>
    BY <1>1 DEF StepFails, Goto, Fail, Write
  <2> QED
    BY <2>1, GenerationKept
<1>2. CASE ReadInputs
  <2>1. pc' \notin {"artifacts", "checkpoint", "complete"} /\ UNCHANGED <<gens, stored>>
    BY <1>2 DEF ReadInputs, Goto, Fail, Write
  <2> QED
    BY <2>1, GenerationKept
<1>3. CASE HelperEnds
  <2>1. pc' \notin {"artifacts", "checkpoint", "complete"} /\ UNCHANGED <<gens, stored>>
    BY <1>3 DEF HelperEnds, Goto, Fail, Write
  <2> QED
    BY <2>1, GenerationKept
<1>4. CASE MakeRoot
  <2>1. pc' \notin {"artifacts", "checkpoint", "complete"} /\ UNCHANGED <<gens, stored>>
    BY <1>4 DEF MakeRoot, Goto, Fail, Write
  <2> QED
    BY <2>1, GenerationKept
<1>5. CASE Base
  <2>1. pc' \notin {"artifacts", "checkpoint", "complete"} /\ UNCHANGED <<gens, stored>>
    BY <1>5 DEF Base, Goto, Fail, Write
  <2> QED
    BY <2>1, GenerationKept
<1>6. CASE Pin
  <2>1. pc' \notin {"artifacts", "checkpoint", "complete"} /\ UNCHANGED <<gens, stored>>
    BY <1>6 DEF Pin, Goto, Fail, Write
  <2> QED
    BY <2>1, GenerationKept
<1>7. CASE Collisions
  <2>1. pc' \notin {"artifacts", "checkpoint", "complete"} /\ UNCHANGED <<gens, stored>>
    BY <1>7 DEF Collisions, Goto, Fail, Write
  <2> QED
    BY <2>1, GenerationKept
<1>8. CASE RemoveSkills
  <2>1. pc' \notin {"artifacts", "checkpoint", "complete"} /\ UNCHANGED <<gens, stored>>
    BY <1>8 DEF RemoveSkills, Goto, Fail, Write
  <2> QED
    BY <2>1, GenerationKept
<1>9. CASE Project
  <2>1. pc' \notin {"artifacts", "checkpoint", "complete"} /\ UNCHANGED <<gens, stored>>
    BY <1>9 DEF Project, Goto, Fail, Write
  <2> QED
    BY <2>1, GenerationKept
<1>10. CASE BindHome
  <2>1. pc' \notin {"artifacts", "checkpoint", "complete"} /\ UNCHANGED <<gens, stored>>
    BY <1>10 DEF BindHome, Goto, Fail, Write
  <2> QED
    BY <2>1, GenerationKept
<1>11. CASE VerifyBindings
  <2>1. pc' \notin {"artifacts", "checkpoint", "complete"} /\ UNCHANGED <<gens, stored>>
    BY <1>11 DEF VerifyBindings, Goto, Fail, Write
  <2> QED
    BY <2>1, GenerationKept
<1>12. CASE MakeGeneration
  <2>1. UNCHANGED <<grant, session, stored>>
    BY <1>12 DEF MakeGeneration, Goto, Fail, Write
  <2>2. CASE Key \in DOMAIN gens
    BY <1>12, <2>2, GenerationKept DEF MakeGeneration, Goto, Fail
  <2>3. CASE Key \notin DOMAIN gens
    <3>1. pc' = "artifacts"
          /\ gens' = [k \in DOMAIN gens \cup {Key} |->
                       IF k = Key THEN [by |-> grant.attempt, whole |-> FALSE] ELSE gens[k]]
      BY <1>12, <2>3 DEF MakeGeneration, Write, Goto
    <3>2. Key' \in DOMAIN gens' /\ gens'[Key'] = [by |-> grant'.attempt, whole |-> FALSE]
      BY <2>1, <3>1 DEF Key
    <3>3. \A k \in DOMAIN gens : k \in DOMAIN gens' /\ gens'[k] = gens[k]
      BY <2>3, <3>1
    <3>4. GenerationIsWhole'
      BY <2>1, <3>3 DEF GenerationInv, GenerationIsWhole
    <3> QED
      BY <3>1, <3>2, <3>4 DEF GenerationInv
  <2> QED
    BY <2>2, <2>3
<1>13. CASE FillGeneration
  <2>1. /\ UNCHANGED <<grant, session, stored>> /\ pc = "artifacts" /\ pc' = "checkpoint"
        /\ gens' = [gens EXCEPT ![Key].whole = TRUE]
    BY <1>13 DEF FillGeneration, Write, Goto
  <2>2. Key \in DOMAIN gens /\ gens[Key] = [by |-> grant.attempt, whole |-> FALSE]
    BY <2>1 DEF GenerationInv
  <2>3. Key' = Key
    BY <2>1 DEF Key
  <2>4. Key \in DOMAIN gens' /\ gens'[Key].by = grant.attempt /\ gens'[Key].whole
    <3>1. Key \in DOMAIN gens' /\ gens'[Key] = [gens[Key] EXCEPT !.whole = TRUE]
      BY <2>1, <2>2
    <3> QED
      BY <2>2, <3>1
  <2>5. GenerationIsWhole'
    <3> SUFFICES ASSUME stored.native
                 PROVE  /\ <<stored.session, stored.turn>> \in DOMAIN gens'
                        /\ gens'[<<stored.session, stored.turn>>].by = stored.attempt
                        /\ gens'[<<stored.session, stored.turn>>].whole
      BY <2>1 DEF GenerationIsWhole
    <3> DEFINE k == <<stored.session, stored.turn>>
    <3>1. k \in DOMAIN gens /\ gens[k].by = stored.attempt /\ gens[k].whole
      BY DEF GenerationInv, GenerationIsWhole
    <3>2. k # Key
      BY <2>2, <3>1
    <3>3. k \in DOMAIN gens' /\ gens'[k] = gens[k]
      BY <2>1, <3>1, <3>2
    <3> QED
      BY <3>1, <3>3
  <2> QED
    BY <2>1, <2>3, <2>4, <2>5 DEF GenerationInv
<1>14. CASE Reserve
  <2>1. pc' = "idle" /\ UNCHANGED <<gens, stored>>
    BY <1>14 DEF Reserve, GrantInv, Running, Phases
  <2> QED
    BY <2>1, GenerationKept
<1>15. CASE ReserveSlot
  BY <1>15, GenerationKept DEF ReserveSlot, GrantInv, Running
<1>16. CASE RequestStop
  BY <1>16, GenerationKept DEF RequestStop, Sessions
<1>17. CASE CancelPreparation
  BY <1>17, GenerationKept DEF CancelPreparation, GrantInv, Running
<1>18. CASE BeginPreparation
  BY <1>18, GenerationKept DEF BeginPreparation, GrantInv, Running
<1>19. CASE PublishCancel
  BY <1>19, GenerationKept DEF PublishCancel, GrantInv, Running
<1>20. CASE CheckpointPreparation
  <2>1. UNCHANGED <<grant, session, gens>> /\ pc = "checkpoint" /\ stored' = Record
    BY <1>20 DEF CheckpointPreparation
  <2>2. Key \in DOMAIN gens /\ gens[Key].by = grant.attempt /\ gens[Key].whole
    BY <2>1 DEF GenerationInv
  <2>3. GenerationIsWhole'
    BY <2>1, <2>2 DEF GenerationIsWhole, Record, Key
  <2> QED
    BY <1>20, <2>1, <2>2, <2>3 DEF CheckpointPreparation, GenerationInv, Key
<1>21. CASE CompletePreparation
  <2>1. UNCHANGED <<session, gens>> /\ pc = "complete" /\ stored' = Record /\ pc' = "idle"
    BY <1>21 DEF CompletePreparation
  <2>2. Key \in DOMAIN gens /\ gens[Key].by = grant.attempt /\ gens[Key].whole
    BY <2>1 DEF GenerationInv
  <2>3. GenerationIsWhole'
    BY <2>1, <2>2 DEF GenerationIsWhole, Record, Key
  <2> QED
    BY <2>1, <2>3 DEF GenerationInv
<1>22. CASE FailPreparation
  BY <1>22, GenerationKept DEF FailPreparation, GrantInv, Running
<1>23. CASE Crash
  BY <1>23, GenerationKept DEF Crash, GrantInv, Running
<1>24. CASE ContainerEnds
  BY <1>24, GenerationKept DEF ContainerEnds, GrantInv, Running
<1>25. CASE InterruptPreparation
  BY <1>25, GenerationKept DEF InterruptPreparation, GrantInv, Running
<1>26. CASE PodStarts
  BY <1>26, GenerationKept DEF PodStarts, GrantInv, Running
<1>27. CASE TurnCompletes
  BY <1>27, GenerationKept DEF TurnCompletes, GrantInv, Running
<1>28. CASE PodEnds
  BY <1>28, GenerationKept DEF PodEnds, Sessions
<1>29. CASE CloseSession
  <2>1. pc' = "idle" /\ UNCHANGED <<gens, stored>>
    BY <1>29 DEF CloseSession, GrantInv, Running, Phases
  <2> QED
    BY <2>1, GenerationKept
<1>30. CASE TaskWrites
  BY <1>30, GenerationKept DEF TaskWrites, GrantInv, Running
<1>31. CASE UNCHANGED vars
  BY <1>31, GenerationKept
<1> QED
  BY <1>1, <1>2, <1>3, <1>4, <1>5, <1>6, <1>7, <1>8, <1>9, <1>10, <1>11, <1>12, <1>13, <1>14, <1>15, <1>16, <1>17, <1>18, <1>19, <1>20, <1>21, <1>22, <1>23, <1>24, <1>25, <1>26, <1>27, <1>28, <1>29, <1>30, <1>31 DEF Next, PreparationStep

-----------------------------------------------------------------------------
(* The theorems                                                            *)

\* The initial journal, goroutine and root satisfy the invariant: nothing
\* runs, and a root of an earlier release is no native preparation.
LEMMA PrepareInit == Init => PrepareInv
<1> SUFFICES ASSUME Init PROVE PrepareInv
  OBVIOUS
<1>1. ~stored.native
  <2>1. CASE FreshRoot
    BY <2>1 DEF FreshRoot, None
  <2>2. CASE MigratedRoot
    <3>1. \A f, l : ~[None EXCEPT !.files = f, !.links = l].native
      BY DEF None
    <3> QED
      BY <2>2, <3>1 DEF MigratedRoot
  <2> QED
    BY <2>1, <2>2 DEF Init
<1>2. GrantInv /\ HelperInv
  BY DEF Init, GrantInv, HelperInv, Running
<1>3. BesideInv
  BY DEF Init, BesideInv, Running, Establishing, Refused
<1>4. LinkInv
  BY DEF Init, LinkInv, Refused, Establishing
<1>5. GenerationInv
  BY <1>1 DEF Init, GenerationInv, GenerationIsWhole
<1> QED
  BY <1>2, <1>3, <1>4, <1>5 DEF PrepareInv

\* The journal and the goroutine of a preparation keep the shape that the
\* code relies on (BeginPreparation .. CompletePreparation, prepare.go), for
\* any number of turns, sessions, deaths and writes.
THEOREM PreparationInvariant == Spec => [](TypeOK /\ PrepareInv)
<1>1. Init => TypeOK /\ PrepareInv
  BY TypeInit, PrepareInit
<1>2. TypeOK /\ PrepareInv /\ [Next]_vars => (TypeOK /\ PrepareInv)'
  BY TypeStep, GrantStep, HelperStep, BesideStep, LinkStep, GenerationStep DEF PrepareInv
<1> QED
  BY <1>1, <1>2, PTL DEF Spec

\* What a preparation in the journal names exists and is complete
\* (publishNativeArtifacts, CheckpointPreparation).
THEOREM GenerationSafe == Spec => []GenerationIsWhole
<1>1. TypeOK /\ PrepareInv => GenerationIsWhole
  BY DEF PrepareInv, GenerationInv
<1> QED
  BY <1>1, PreparationInvariant, PTL

\* A foreign file where a required link belongs is refused before anything is
\* changed (the first pass of establishNativeProjections).
THEOREM CollisionsSafe == Spec => []CollisionsRefusedFirst
<1>1. TypeOK /\ PrepareInv => CollisionsRefusedFirst
  BY DEF PrepareInv, LinkInv, NoneForeign, CollisionsRefusedFirst
<1> QED
  BY <1>1, PreparationInvariant, PTL

\* Links are set up without a worker or a helper beside, and a stopped
\* preparation has no writer left (PrepareTask and its callers).
THEOREM WritersSafe == Spec => []WritersApart
<1>1. TypeOK /\ PrepareInv => WritersApart
  <2> SUFFICES ASSUME TypeOK, PrepareInv PROVE WritersApart
    OBVIOUS
  <2>1. Establishing => ~session.pod /\ helpers = {}
    BY DEF PrepareInv, BesideInv, HelperInv, Establishing, Running
  <2>2. grant.stopped => pc = "idle" /\ helpers = {}
    BY DEF PrepareInv, GrantInv, HelperInv, Running
  <2> QED
    BY <2>1, <2>2 DEF WritersApart
<1> QED
  BY <1>1, PreparationInvariant, PTL

\* The step relation of ForeignFilesSurvive.
ForeignStep ==
    \A p \in Paths :
        writes' = writes /\ entry'[p] # entry[p] =>
           /\ ~session.pod
           /\ entry[p] = "absent" \/ (entry[p] = "file" /\ p \in work.prior.files)

\* Only the goroutine that sets up links changes platform paths, and it only
\* removes what it owns.
LEMMA ForeignNext == TypeOK /\ PrepareInv /\ [Next]_vars => ForeignStep
<1> SUFFICES ASSUME TypeOK, PrepareInv, [Next]_vars PROVE ForeignStep
  OBVIOUS
<1> USE DEF TypeOK
<1>1. pc \in {"skills", "project", "home"} => ~session.pod
  BY DEF PrepareInv, BesideInv, Running, Establishing
<1>2. \A p \in OwnedFiles : p \in work.prior.files
  BY DEF OwnedFiles
<1>3. CASE RemoveSkills
  <2>1. pc = "skills" /\ work.todo \subseteq OwnedFiles
    BY <1>3 DEF RemoveSkills, PrepareInv, LinkInv
  <2>2. \A p \in Paths : entry'[p] # entry[p] => p \in work.todo /\ entry[p] = "file"
    BY <1>3 DEF RemoveSkills, Goto, Fail, Write
  <2> QED
    BY <1>1, <1>2, <2>1, <2>2 DEF ForeignStep
<1>4. CASE Project
  <2>1. \A p \in Paths : entry'[p] # entry[p] =>
            entry[p] = "absent" \/ (p \in OwnedFiles /\ entry[p] = "file")
    BY <1>4 DEF Project, Goto, Fail, Write
  <2>2. pc = "project"
    BY <1>4 DEF Project
  <2> QED
    BY <1>1, <1>2, <2>1, <2>2 DEF ForeignStep
<1>5. CASE BindHome
  <2>1. \A p \in Paths : entry'[p] # entry[p] => entry[p] = "absent"
    BY <1>5 DEF BindHome, Goto, Fail, Write
  <2>2. pc = "home"
    BY <1>5 DEF BindHome
  <2> QED
    BY <1>1, <2>1, <2>2 DEF ForeignStep
<1>6. CASE TaskWrites
  BY <1>6 DEF TaskWrites, ForeignStep
<1>7. CASE StepFails
  BY <1>7 DEF StepFails, Goto, Fail, Write, ForeignStep
<1>8. CASE ReadInputs
  BY <1>8 DEF ReadInputs, Goto, Fail, Write, ForeignStep
<1>9. CASE HelperEnds
  BY <1>9 DEF HelperEnds, Goto, Fail, Write, ForeignStep
<1>10. CASE MakeRoot
  BY <1>10 DEF MakeRoot, Goto, Fail, Write, ForeignStep
<1>11. CASE Base
  BY <1>11 DEF Base, Goto, Fail, Write, ForeignStep
<1>12. CASE Pin
  BY <1>12 DEF Pin, Goto, Fail, Write, ForeignStep
<1>13. CASE Collisions
  BY <1>13 DEF Collisions, Goto, Fail, Write, ForeignStep
<1>14. CASE VerifyBindings
  BY <1>14 DEF VerifyBindings, Goto, Fail, Write, ForeignStep
<1>15. CASE MakeGeneration
  BY <1>15 DEF MakeGeneration, Goto, Fail, Write, ForeignStep
<1>16. CASE FillGeneration
  BY <1>16 DEF FillGeneration, Goto, Fail, Write, ForeignStep
<1>17. CASE Reserve
  BY <1>17 DEF Reserve, ForeignStep
<1>18. CASE ReserveSlot
  BY <1>18 DEF ReserveSlot, ForeignStep
<1>19. CASE RequestStop
  BY <1>19 DEF RequestStop, ForeignStep
<1>20. CASE CancelPreparation
  BY <1>20 DEF CancelPreparation, ForeignStep
<1>21. CASE BeginPreparation
  BY <1>21 DEF BeginPreparation, ForeignStep
<1>22. CASE PublishCancel
  BY <1>22 DEF PublishCancel, ForeignStep
<1>23. CASE CheckpointPreparation
  BY <1>23 DEF CheckpointPreparation, ForeignStep
<1>24. CASE CompletePreparation
  BY <1>24 DEF CompletePreparation, ForeignStep
<1>25. CASE FailPreparation
  BY <1>25 DEF FailPreparation, ForeignStep
<1>26. CASE Crash
  BY <1>26 DEF Crash, ForeignStep
<1>27. CASE ContainerEnds
  BY <1>27 DEF ContainerEnds, ForeignStep
<1>28. CASE InterruptPreparation
  BY <1>28 DEF InterruptPreparation, ForeignStep
<1>29. CASE PodStarts
  BY <1>29 DEF PodStarts, ForeignStep
<1>30. CASE TurnCompletes
  BY <1>30 DEF TurnCompletes, ForeignStep
<1>31. CASE PodEnds
  BY <1>31 DEF PodEnds, ForeignStep
<1>32. CASE CloseSession
  BY <1>32 DEF CloseSession, ForeignStep
<1>33. CASE UNCHANGED vars
  BY <1>33 DEF ForeignStep
<1> QED
  BY <1>3, <1>4, <1>5, <1>6, <1>7, <1>8, <1>9, <1>10, <1>11, <1>12, <1>13, <1>14, <1>15, <1>16, <1>17, <1>18, <1>19, <1>20, <1>21, <1>22, <1>23, <1>24, <1>25, <1>26, <1>27, <1>28, <1>29, <1>30, <1>31, <1>32, <1>33 DEF Next, PreparationStep

\* The controller replaces only files that the earlier release listed, and
\* none beside a running worker (establishNativeProjections).
THEOREM ForeignSafe == Spec => ForeignFilesSurvive
<1>1. TypeOK /\ PrepareInv /\ [Next]_vars => [ForeignStep]_vars
  BY ForeignNext
<1>2. ForeignFilesSurvive <=> [][ForeignStep]_vars
  BY PTL DEF ForeignFilesSurvive, ForeignStep
<1> QED
  BY <1>1, <1>2, PreparationInvariant, PTL DEF Spec

=============================================================================
