---------------------------- MODULE StageMachine ----------------------------
(***************************************************************************)
(* The project stage machine of packages/state-machine: which stage may    *)
(* follow which, and what an approval snapshot must show before a stage    *)
(* that stands behind a gate is entered.  Every service that moves a       *)
(* project calls `transition` with a snapshot read from the repository.    *)
(*                                                                         *)
(* An artifact version id is `${kind}_${project}_v${n}`, so within one     *)
(* project and one kind it is represented by n; 0 stands for null.         *)
(***************************************************************************)
EXTENDS Naturals

\* The artifact kinds that a user approves before the method moves on ...
ReviewKinds ==
    {"ANALYSIS", "STRUCTURE", "RESOURCES", "ART_DIRECTION", "VERIFICATION"}

\* ... and all kinds: a DESIGN is verified, and approved through its verification.
ArtifactKinds == ReviewKinds \cup {"DESIGN"}

\* The successors the code lists for each stage, ARCHIVED left aside.
NextStages ==
    [DRAFT                |-> {"ANALYZING"},
     ANALYZING            |-> {"ANALYSIS_REVIEW"},
     ANALYSIS_REVIEW      |-> {"ANALYZING", "STRUCTURING"},
     STRUCTURING          |-> {"STRUCTURE_REVIEW"},
     STRUCTURE_REVIEW     |-> {"STRUCTURING", "RESOLVING_RESOURCES"},
     RESOLVING_RESOURCES  |-> {"RESOURCES_REVIEW"},
     RESOURCES_REVIEW     |-> {"RESOLVING_RESOURCES", "ART_DIRECTING"},
     ART_DIRECTING        |-> {"ART_DIRECTION_REVIEW"},
     ART_DIRECTION_REVIEW |-> {"ART_DIRECTING", "STRUCTURING", "GENERATING"},
     GENERATING           |-> {"GENERATED"},
     GENERATED            |-> {"VERIFYING", "GENERATING"},
     VERIFYING            |-> {"VERIFICATION_REVIEW"},
     VERIFICATION_REVIEW  |-> {"VERIFYING", "GENERATING", "APPROVED"},
     APPROVED             |-> {"FINAL", "GENERATING"},
     FINAL                |-> {},
     ARCHIVED             |-> {}]

ProjectStages == DOMAIN NextStages

\* A slip the table could hold: resources approved for an older structure are
\* taken as good enough for a new one.
AllowedTransitionsShortcut(from) ==
    NextStages[from] \cup (IF from = "STRUCTURE_REVIEW" THEN {"ART_DIRECTING"} ELSE {})

\* Every stage but ARCHIVED may also be archived.
AllowedTransitions(from) ==
    NextStages[from] \cup (IF from = "ARCHIVED" THEN {} ELSE {"ARCHIVED"})

-----------------------------------------------------------------------------
(* An approval snapshot a: a.current[k] is the latest version of kind k,   *)
(* a.approved[k] the version last approved; a.passed and a.critical come   *)
(* from the payload of the latest verification.                            *)

ApprovalSnapshots ==
    [current  : [ReviewKinds -> Nat], approved : [ReviewKinds -> Nat],
     passed   : BOOLEAN,              critical : BOOLEAN]

\* A slip: an approval of any version counts.
AnyVersionApproved(a, k) ==
    a.current[k] # 0 /\ a.approved[k] # 0

IsCurrentVersionApproved(a, k) ==
    a.current[k] # 0 /\ a.current[k] = a.approved[k]

\* The kind whose current version must be approved before a stage is entered.
RequiredApproval ==
    [STRUCTURING         |-> "ANALYSIS",
     RESOLVING_RESOURCES |-> "STRUCTURE",
     ART_DIRECTING       |-> "RESOURCES",
     GENERATING          |-> "ART_DIRECTION",
     APPROVED            |-> "VERIFICATION",
     FINAL               |-> "VERIFICATION"]

\* A slip: the guard asks for the approval and not for the verdict.
StageGuardWithoutVerdict(to, a) ==
    to \in DOMAIN RequiredApproval
        => IsCurrentVersionApproved(a, RequiredApproval[to])

\* A verdict that has not passed, or that names critical errors, blocks both
\* APPROVED and FINAL.
StageGuard(to, a) ==
    /\ to \in DOMAIN RequiredApproval
           => IsCurrentVersionApproved(a, RequiredApproval[to])
    /\ to \in {"APPROVED", "FINAL"} => a.passed /\ ~a.critical

\* `transition` throws unless this holds, and returns `to` when it does.
CanTransition(from, to, a) ==
    /\ to \in AllowedTransitions(from)
    /\ StageGuard(to, a)

-----------------------------------------------------------------------------
\* How far the method has come in each stage, and the phase that makes each
\* kind.  No operation archives a project.
Phase ==
    [NONE |-> 0, DRAFT |-> 1, ANALYZING |-> 2, ANALYSIS_REVIEW |-> 2,
     STRUCTURING |-> 3, STRUCTURE_REVIEW |-> 3,
     RESOLVING_RESOURCES |-> 4, RESOURCES_REVIEW |-> 4,
     ART_DIRECTING |-> 5, ART_DIRECTION_REVIEW |-> 5,
     GENERATING |-> 6, GENERATED |-> 6,
     VERIFYING |-> 7, VERIFICATION_REVIEW |-> 7,
     APPROVED |-> 8, FINAL |-> 8, ARCHIVED |-> 0]

PhaseOf ==
    [ANALYSIS |-> 2, STRUCTURE |-> 3, RESOURCES |-> 4, ART_DIRECTION |-> 5,
     DESIGN |-> 6, VERIFICATION |-> 7]

=============================================================================
