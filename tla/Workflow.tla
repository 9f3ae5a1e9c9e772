------------------------------ MODULE Workflow ------------------------------
(***************************************************************************)
(* The operations of ProjectWorkflowService on one project, each as one    *)
(* committed transaction (PostgresProjectRepository runs every operation   *)
(* inside runIdempotentMutation, so an operation that throws leaves no     *)
(* trace: it is a guard here that does not hold).                          *)
(*                                                                         *)
(* One project is enough: its row, artifacts and approvals are only ever   *)
(* read through its own id.  A replay of a completed request returns the   *)
(* stored result, a stuttering step.  Calls of users other than the owner  *)
(* throw in loadProjectContext before the first write and are left out.    *)
(* The status column is a function of the stage (move, createProject) and  *)
(* is left out too.                                                        *)
(***************************************************************************)
EXTENDS StageMachine, Sequences

CONSTANTS
    ProjectTypes,  \* the project types a user may ask for
    MaxVersions    \* bound: versions of one artifact kind

ASSUME ProjectTypesAssumption == ProjectTypes # {}
ASSUME MaxVersionsAssumption == MaxVersions \in Nat \ {0}

VARIABLES
    stage,        \* current_stage, or "NONE" before the row exists
    projectType,  \* project_type; the one of the first create
    revision,     \* revision
    finalDesign,  \* final_design_version_id, 0 for NULL
    artifact,     \* artifact[k]: the versions of kind k, oldest first
    approval,     \* approval[k]: the approved versions of kind k by row id
    created       \* the types whose project-create request has completed

projectVars == <<stage, projectType, revision, finalDesign>>
vars == <<stage, projectType, revision, finalDesign, artifact, approval, created>>

Stages == ProjectStages \cup {"NONE"}

\* What the properties tell apart in a payload.  missing: RESOURCES lists
\* missing resources.  passed, critical: the verdict of a VERIFICATION.
\* on: the version of the preceding kind's artifact this one was made from,
\* which a VERIFICATION stores as designVersionId and which for the other
\* kinds is history the code does not record.
Payloads ==
    [on : Nat, missing : BOOLEAN, passed : BOOLEAN, critical : BOOLEAN]

\* The kind each artifact is made from.
Precursor ==
    [STRUCTURE     |-> "ANALYSIS",  RESOURCES |-> "STRUCTURE",
     ART_DIRECTION |-> "RESOURCES", DESIGN    |-> "ART_DIRECTION",
     VERIFICATION  |-> "DESIGN"]

TypeOK ==
    /\ stage \in Stages
    /\ projectType \in ProjectTypes
    /\ revision \in Nat
    /\ finalDesign \in Nat
    /\ artifact \in [ArtifactKinds -> Seq(Payloads)]
    /\ approval \in [ArtifactKinds -> Seq(Nat)]
    /\ created \subseteq ProjectTypes

-----------------------------------------------------------------------------
(* Reads of the repository.                                                *)

\* getLatestArtifact: the highest version number, 0 when there is none.
Latest(k) == Len(artifact[k])

\* getApprovedVersion: the approval row with the highest id, 0 when none.
ApprovedVersion(k) ==
    IF approval[k] = <<>> THEN 0 ELSE approval[k][Len(approval[k])]

LatestVerification == artifact["VERIFICATION"][Latest("VERIFICATION")]

\* snapshot: latest and approved version of each kind under review, and the
\* latest verdict; without a verification nothing has passed.
Snapshot ==
    [current  |-> [k \in ReviewKinds |-> Latest(k)],
     approved |-> [k \in ReviewKinds |-> ApprovedVersion(k)],
     passed   |-> Latest("VERIFICATION") # 0 /\ LatestVerification.passed,
     critical |-> Latest("VERIFICATION") # 0 /\ LatestVerification.critical]

\* Two calls of move, to `to` and on to `end`.  The second reads the snapshot
\* again; an artifact created in between is not one that the guard of `end`
\* looks at.
CanMove(to, end) ==
    /\ CanTransition(stage, to, Snapshot)
    /\ CanTransition(to, end, Snapshot)

\* `saves` calls of saveProject with the revision just read: each adds one.
SaveProject(end, saves) ==
    /\ stage' = end
    /\ revision' = revision + saves

\* A slip: the payload is stored without its verdict.
CreateArtifactUnjudged(k, on, missing, passed, critical) ==
    /\ Latest(k) < MaxVersions
    /\ artifact' = [artifact EXCEPT ![k] = Append(@,
           [on |-> on, missing |-> missing, passed |-> passed \/ critical])]

\* createArtifactVersion: the next version number of the kind.
CreateArtifact(k, on, missing, passed, critical) ==
    /\ Latest(k) < MaxVersions
    /\ artifact' = [artifact EXCEPT ![k] = Append(@,
           [on |-> on, missing |-> missing, passed |-> passed, critical |-> critical])]

\* An artifact of kind k made from the latest of the preceding kind.
CreateDerived(k, missing) ==
    CreateArtifact(k, Latest(Precursor[k]), missing, FALSE, FALSE)

-----------------------------------------------------------------------------
(* The operations.                                                         *)

\* createProject.  The id is a hash of user and request, but the idempotency
\* key also holds the type: a first request inserts the row ...
InsertProject(t) ==
    /\ stage = "NONE"
    /\ projectType' = t
    /\ stage' = "DRAFT"
    /\ revision' = 0
    /\ finalDesign' = 0

\* ... and the same request for another type runs again on the same id, where
\* the upsert of saveProject resets stage, status and final design and keeps
\* the type and the revision.
OverwriteProject ==
    /\ stage # "NONE"
    /\ stage' = "DRAFT"
    /\ finalDesign' = 0
    /\ UNCHANGED <<projectType, revision>>

CreateProject(t) ==
    /\ t \notin created
    /\ created' = created \cup {t}
    /\ InsertProject(t) \/ OverwriteProject
    /\ UNCHANGED <<artifact, approval>>

\* startAnalysis, from DRAFT or again from ANALYSIS_REVIEW.  No committed
\* state is in ANALYZING, the third stage the code would accept.
StartAnalysis ==
    /\ stage \in {"DRAFT", "ANALYSIS_REVIEW"}
    /\ CanMove("ANALYZING", "ANALYSIS_REVIEW")
    /\ CreateArtifact("ANALYSIS", 0, FALSE, FALSE, FALSE)
    /\ SaveProject("ANALYSIS_REVIEW", 2)
    /\ UNCHANGED <<projectType, finalDesign, approval, created>>

\* approve: an existing version of that kind, and the latest one, whatever
\* the stage of the project.  saveApproval adds a row unless the version has
\* one, which then keeps its id; the project row is not written.
Approve(k, v) ==
    /\ stage # "NONE"
    /\ v # 0 /\ v = Latest(k)
    /\ approval' = [approval EXCEPT ![k] =
           IF \E i \in 1..Len(@) : @[i] = v THEN @ ELSE Append(@, v)]
    /\ UNCHANGED <<projectVars, artifact, created>>

\* structure, from any stage that leads to STRUCTURING.
Structure ==
    /\ stage \in ProjectStages
    /\ CanMove("STRUCTURING", "STRUCTURE_REVIEW")
    /\ CreateDerived("STRUCTURE", FALSE)
    /\ SaveProject("STRUCTURE_REVIEW", 2)
    /\ UNCHANGED <<projectType, finalDesign, approval, created>>

\* resolveResources.  The institution's assets decide what is missing.
ResolveResources(missing) ==
    /\ stage \in ProjectStages
    /\ CanMove("RESOLVING_RESOURCES", "RESOURCES_REVIEW")
    /\ CreateDerived("RESOURCES", missing)
    /\ SaveProject("RESOURCES_REVIEW", 2)
    /\ UNCHANGED <<projectType, finalDesign, approval, created>>

\* A slip: resources with something missing do not hold artDirect up.
ArtDirectUnchecked ==
    /\ stage \in ProjectStages
    /\ CanMove("ART_DIRECTING", "ART_DIRECTION_REVIEW")
    /\ CreateDerived("ART_DIRECTION", FALSE)
    /\ SaveProject("ART_DIRECTION_REVIEW", 2)
    /\ UNCHANGED <<projectType, finalDesign, approval, created>>

\* artDirect: refused while the latest resources list something missing.
ArtDirect ==
    /\ stage \in ProjectStages
    /\ Latest("RESOURCES") # 0 => ~artifact["RESOURCES"][Latest("RESOURCES")].missing
    /\ CanMove("ART_DIRECTING", "ART_DIRECTION_REVIEW")
    /\ CreateDerived("ART_DIRECTION", FALSE)
    /\ SaveProject("ART_DIRECTION_REVIEW", 2)
    /\ UNCHANGED <<projectType, finalDesign, approval, created>>

\* createDesignVersion.  The service only moves to GENERATING from
\* ART_DIRECTION_REVIEW, although the stage machine has other edges to it.
CreateDesignVersion ==
    /\ stage = "ART_DIRECTION_REVIEW"
    /\ CanMove("GENERATING", "GENERATED")
    /\ CreateDerived("DESIGN", FALSE)
    /\ SaveProject("GENERATED", 2)
    /\ UNCHANGED <<projectType, finalDesign, approval, created>>

\* A slip: the design verified exists and need not be the latest.
SaveVerificationOfAny(d, passed, critical) ==
    /\ d \in 1..Latest("DESIGN")
    /\ stage = "GENERATED"
    /\ CanMove("VERIFYING", "VERIFICATION_REVIEW")
    /\ CreateArtifact("VERIFICATION", d, FALSE, passed, critical)
    /\ SaveProject("VERIFICATION_REVIEW", 2)
    /\ UNCHANGED <<projectType, finalDesign, approval, created>>

\* saveVerification of design d, which must be the latest, with the verdict
\* the caller reports.
SaveVerification(d, passed, critical) ==
    /\ d # 0 /\ d = Latest("DESIGN")
    /\ stage = "GENERATED"
    /\ CanMove("VERIFYING", "VERIFICATION_REVIEW")
    /\ CreateArtifact("VERIFICATION", d, FALSE, passed, critical)
    /\ SaveProject("VERIFICATION_REVIEW", 2)
    /\ UNCHANGED <<projectType, finalDesign, approval, created>>

\* approveDesign: the verification last approved names the design; the project
\* moves to APPROVED and FINAL, and a third save records the final design.
ApproveDesign(v) ==
    /\ stage \in ProjectStages
    /\ v # 0 /\ v = ApprovedVersion("VERIFICATION")
    /\ v <= Latest("VERIFICATION")
    /\ artifact["VERIFICATION"][v].on \in 1..Latest("DESIGN")
    /\ CanMove("APPROVED", "FINAL")
    /\ SaveProject("FINAL", 3)
    /\ finalDesign' = artifact["VERIFICATION"][v].on
    /\ UNCHANGED <<projectType, artifact, approval, created>>

-----------------------------------------------------------------------------

Init ==
    /\ stage = "NONE"
    /\ projectType \in ProjectTypes
    /\ revision = 0
    /\ finalDesign = 0
    /\ artifact = [k \in ArtifactKinds |-> <<>>]
    /\ approval = [k \in ArtifactKinds |-> <<>>]
    /\ created = {}

Versions == 1..MaxVersions

Next ==
    \/ \E t \in ProjectTypes : CreateProject(t)
    \/ StartAnalysis
    \/ \E k \in ArtifactKinds, v \in Versions : Approve(k, v)
    \/ Structure
    \/ \E missing \in BOOLEAN : ResolveResources(missing)
    \/ ArtDirect
    \/ CreateDesignVersion
    \/ \E d \in Versions, passed, critical \in BOOLEAN :
           SaveVerification(d, passed, critical)
    \/ \E v \in Versions : ApproveDesign(v)

Spec == Init /\ [][Next]_vars

-----------------------------------------------------------------------------
(* What the method promises.                                               *)

\* A FINAL project names its latest design, and the latest verification is of
\* that design, passed without critical errors and was approved by the user;
\* a project that is not FINAL names no final design.  About the gate that
\* approveDesign, saveVerification and the stage guards make up together.
FinalDesignIsVerified ==
    IF stage = "FINAL"
    THEN /\ finalDesign = Latest("DESIGN") /\ finalDesign # 0
         /\ Latest("VERIFICATION") # 0
         /\ LatestVerification.on = finalDesign
         /\ LatestVerification.passed /\ ~LatestVerification.critical
         /\ ApprovedVersion("VERIFICATION") = Latest("VERIFICATION")
    ELSE finalDesign = 0

\* Every gate behind the project is closed on the current version: in a phase
\* after that of a kind under review, its latest version is the one approved,
\* so no revision slips in behind a gate that an older version opened.
PassedGatesStaySigned ==
    \A k \in ReviewKinds :
        Phase[stage] > PhaseOf[k] =>
            Latest(k) # 0 /\ ApprovedVersion(k) = Latest(k)

\* The latest artifact of every phase reached was made from the latest one of
\* the phase before: nothing in a project rests on a superseded version, not
\* even after the art direction sent it back to STRUCTURING.
LineageIsCurrent ==
    \A k \in DOMAIN Precursor :
        Phase[stage] >= PhaseOf[k] =>
            /\ Latest(k) # 0
            /\ artifact[k][Latest(k)].on = Latest(Precursor[k])

\* From ART_DIRECTING on, the resources in force lack nothing.
ResourcesAreComplete ==
    Phase[stage] >= PhaseOf["ART_DIRECTION"] =>
        ~artifact["RESOURCES"][Latest("RESOURCES")].missing

\* The method only climbs one phase at a time: no operation skips a stage.
NoPhaseSkipped ==
    [][Phase[stage'] <= Phase[stage] + 1]_vars

\* FINAL leads nowhere but ARCHIVED, and a final design is not replaced.
FinalIsStable ==
    [][stage = "FINAL" => stage' = "FINAL" /\ finalDesign' = finalDesign]_vars

-----------------------------------------------------------------------------

\* The abstract view of the project that ReviewContract is about.
Contract ==
    INSTANCE ReviewContract WITH
        MayStartOver <- \E t, u \in ProjectTypes : t # u,
        phase    <- Phase[stage],
        versions <- [k \in ArtifactKinds |-> Latest(k)],
        signed   <- [k \in ArtifactKinds |-> {approval[k][i] : i \in 1..Len(approval[k])}],
        passing  <- {v \in 1..Latest("VERIFICATION") :
                         artifact["VERIFICATION"][v].passed
                         /\ ~artifact["VERIFICATION"][v].critical},
        final    <- finalDesign

\* Every operation is one the contract allows: the project is started over by
\* a create request repeated with another project type, and by nothing else.
KeepsContract == Contract!ContractSpec

=============================================================================
