--------------------------- MODULE WorkflowProofs ---------------------------
(***************************************************************************)
(* What Workflow guarantees for every set of project types and every bound *)
(* on the number of versions.                                              *)
(***************************************************************************)
EXTENDS Workflow, TLAPS

\* The conjunction of the safety invariants is inductive as it stands: each
\* phase hands the signed and current chain of artifacts on to the next.
IInv ==
    /\ TypeOK
    /\ FinalDesignIsVerified
    /\ PassedGatesStaySigned
    /\ LineageIsCurrent
    /\ ResourcesAreComplete

-----------------------------------------------------------------------------
(* The stage machine.                                                      *)

\* The stages from which a move of the service can enter each gated stage.
LEMMA Entrances ==
    ASSUME NEW s \in ProjectStages, NEW a
    PROVE  /\ CanTransition(s, "ANALYZING", a) => s \in {"DRAFT", "ANALYSIS_REVIEW"}
           /\ CanTransition(s, "STRUCTURING", a)
                => s \in {"ANALYSIS_REVIEW", "STRUCTURE_REVIEW", "ART_DIRECTION_REVIEW"}
           /\ CanTransition(s, "RESOLVING_RESOURCES", a)
                => s \in {"STRUCTURE_REVIEW", "RESOURCES_REVIEW"}
           /\ CanTransition(s, "ART_DIRECTING", a)
                => s \in {"RESOURCES_REVIEW", "ART_DIRECTION_REVIEW"}
           /\ CanTransition(s, "APPROVED", a) => s = "VERIFICATION_REVIEW"
  BY DEF CanTransition, AllowedTransitions, NextStages, ProjectStages

\* A gated stage is only entered on the approved current version of its kind.
LEMMA GateIsSigned ==
    ASSUME NEW s, NEW to \in DOMAIN RequiredApproval,
           CanTransition(s, to, Snapshot)
    PROVE  LET k == RequiredApproval[to]
           IN  k \in ReviewKinds /\ Latest(k) # 0 /\ ApprovedVersion(k) = Latest(k)
  BY DEF CanTransition, StageGuard, IsCurrentVersionApproved, Snapshot,
         RequiredApproval, ReviewKinds

-----------------------------------------------------------------------------
(* Writes of artifacts and approvals.                                      *)

\* createArtifactVersion adds one version to its kind and touches no other.
LEMMA CreateArtifactEffect ==
    ASSUME TypeOK, NEW k \in ArtifactKinds,
           NEW on \in Nat, NEW missing \in BOOLEAN,
           NEW passed \in BOOLEAN, NEW critical \in BOOLEAN,
           CreateArtifact(k, on, missing, passed, critical)
    PROVE  /\ artifact' \in [ArtifactKinds -> Seq(Payloads)]
           /\ \A j \in ArtifactKinds \ {k} : artifact'[j] = artifact[j]
           /\ Latest(k)' = Latest(k) + 1
           /\ Latest(k) \in Nat
           /\ artifact'[k][Latest(k)'] =
                  [on |-> on, missing |-> missing, passed |-> passed, critical |-> critical]
  <1> DEFINE new == [on |-> on, missing |-> missing, passed |-> passed, critical |-> critical]
  <1>1. new \in Payloads
    BY DEF Payloads
  <1>2. artifact[k] \in Seq(Payloads)
    BY DEF TypeOK
  <1>3. artifact' = [artifact EXCEPT ![k] = Append(artifact[k], new)]
    BY DEF CreateArtifact
  <1>4. artifact'[k] = Append(artifact[k], new)
    BY <1>3 DEF TypeOK
  <1> HIDE DEF new
  <1>5. /\ Append(artifact[k], new) \in Seq(Payloads)
        /\ Len(Append(artifact[k], new)) = Len(artifact[k]) + 1
        /\ Append(artifact[k], new)[Len(artifact[k]) + 1] = new
        /\ Len(artifact[k]) \in Nat
    BY <1>1, <1>2
  <1>6. artifact' \in [ArtifactKinds -> Seq(Payloads)]
    BY <1>3, <1>5 DEF TypeOK
  <1>7. \A j \in ArtifactKinds \ {k} : artifact'[j] = artifact[j]
    BY <1>3 DEF TypeOK
  <1>8. Latest(k)' = Latest(k) + 1 /\ Latest(k) \in Nat
    BY <1>4, <1>5 DEF Latest
  <1>9. artifact'[k][Latest(k)'] = new
    BY <1>4, <1>5 DEF Latest
  <1> QED
    BY <1>6, <1>7, <1>8, <1>9 DEF new

\* approve leaves the version it names as the one last approved, or leaves
\* the approvals of the kind alone.
LEMMA ApproveEffect ==
    ASSUME TypeOK, NEW k \in ArtifactKinds, NEW v \in Nat, Approve(k, v)
    PROVE  /\ approval' \in [ArtifactKinds -> Seq(Nat)]
           /\ v = Latest(k)
           /\ \A j \in ArtifactKinds :
                 \/ ApprovedVersion(j)' = ApprovedVersion(j)
                 \/ j = k /\ ApprovedVersion(j)' = v
  <1>1. approval[k] \in Seq(Nat)
    BY DEF TypeOK
  <1>2. CASE approval' = approval
    BY <1>2 DEF TypeOK, Approve, ApprovedVersion
  <1>3. CASE approval' = [approval EXCEPT ![k] = Append(approval[k], v)]
    <2>1. /\ Append(approval[k], v) \in Seq(Nat)
          /\ Append(approval[k], v) # <<>>
          /\ Append(approval[k], v)[Len(Append(approval[k], v))] = v
      BY <1>1
    <2>2. approval' \in [ArtifactKinds -> Seq(Nat)]
      BY <1>3, <2>1 DEF TypeOK
    <2>3. ApprovedVersion(k)' = v
      BY <1>3, <2>1 DEF TypeOK, ApprovedVersion
    <2>4. \A j \in ArtifactKinds \ {k} : ApprovedVersion(j)' = ApprovedVersion(j)
      BY <1>3 DEF TypeOK, ApprovedVersion
    <2> QED
      BY <2>2, <2>3, <2>4 DEF Approve
  <1>4. approval' = approval \/ approval' = [approval EXCEPT ![k] = Append(approval[k], v)]
    BY DEF Approve, TypeOK
  <1> QED
    BY <1>2, <1>3, <1>4

-----------------------------------------------------------------------------
(* Steps that make an artifact.                                            *)

\* The current version of kind k is the approved one.
Signed(k) == Latest(k) # 0 /\ ApprovedVersion(k) = Latest(k)

\* The latest version of kind k was made from the latest of its precursor.
Derived(k) == Latest(k) # 0 /\ artifact[k][Latest(k)].on = Latest(Precursor[k])

\* A step that makes the artifact of the next phase, or of a phase already
\* reached, from the signed artifact before it keeps the invariant: all that
\* it claims of the earlier phases is about kinds that the step leaves alone.
LEMMA ProduceKeepsIInv ==
    ASSUME IInv, NEW k \in DOMAIN Precursor,
           NEW missing \in BOOLEAN, NEW passed \in BOOLEAN, NEW critical \in BOOLEAN,
           CreateArtifact(k, Latest(Precursor[k]), missing, passed, critical),
           stage \in ProjectStages, stage # "FINAL",
           PhaseOf[k] <= Phase[stage] + 1,
           Precursor[k] \in ReviewKinds => Signed(Precursor[k]),
           k = "ART_DIRECTION" => ~artifact["RESOURCES"][Latest("RESOURCES")].missing,
           stage' \in ProjectStages \ {"FINAL"}, Phase[stage'] = PhaseOf[k],
           revision' \in Nat,
           UNCHANGED <<projectType, finalDesign, approval, created>>
    PROVE  IInv'
  <1> USE DEF Precursor, PhaseOf, ReviewKinds, ArtifactKinds
  <1>1. k \in ArtifactKinds /\ Precursor[k] \in ArtifactKinds
    OBVIOUS
  <1>2. Latest(Precursor[k]) \in Nat
    BY <1>1 DEF IInv, TypeOK, Latest
  <1>3. /\ artifact' \in [ArtifactKinds -> Seq(Payloads)]
        /\ \A j \in ArtifactKinds \ {k} : artifact'[j] = artifact[j]
        /\ Latest(k)' = Latest(k) + 1
        /\ Latest(k) \in Nat
        /\ artifact'[k][Latest(k)'] =
               [on |-> Latest(Precursor[k]), missing |-> missing,
                passed |-> passed, critical |-> critical]
    <2> HIDE DEF Precursor, PhaseOf, ReviewKinds, ArtifactKinds
    <2>1. TypeOK /\ k \in ArtifactKinds
      BY <1>1 DEF IInv
    <2> DEFINE on == Latest(Precursor[k])
    <2>2. on \in Nat /\ CreateArtifact(k, on, missing, passed, critical)
      BY <1>2
    <2> HIDE DEF on
    <2>3. /\ artifact' \in [ArtifactKinds -> Seq(Payloads)]
          /\ \A j \in ArtifactKinds \ {k} : artifact'[j] = artifact[j]
          /\ Latest(k)' = Latest(k) + 1
          /\ Latest(k) \in Nat
          /\ artifact'[k][Latest(k)'] =
                 [on |-> on, missing |-> missing, passed |-> passed, critical |-> critical]
      BY <2>1, <2>2, CreateArtifactEffect
    <2> QED
      BY <2>3 DEF on
  <1>4. \A j \in ArtifactKinds \ {k} : Latest(j)' = Latest(j)
    BY <1>3 DEF Latest
  <1>5. \A j \in ArtifactKinds : ApprovedVersion(j)' = ApprovedVersion(j)
    BY DEF ApprovedVersion
  <1>6. Phase[stage] \in Nat
    BY DEF Phase, ProjectStages, NextStages
  <1>7. TypeOK'
    BY <1>3 DEF IInv, TypeOK, Stages
  <1>8. FinalDesignIsVerified'
    BY DEF IInv, FinalDesignIsVerified
  <1>9. PassedGatesStaySigned'
    <2> SUFFICES ASSUME NEW j \in ReviewKinds, PhaseOf[j] < PhaseOf[k]
                 PROVE  Signed(j)'
      BY DEF PassedGatesStaySigned, Signed
    <2>1. j # k
      OBVIOUS
    <2>2. Signed(j)
      <3>1. CASE PhaseOf[j] < Phase[stage]
        BY <3>1, <1>6 DEF IInv, PassedGatesStaySigned, Signed
      <3>2. CASE j = Precursor[k]
        BY <3>2
      <3>3. PhaseOf[j] < Phase[stage] \/ j = Precursor[k]
        BY <1>6
      <3> QED
        BY <3>1, <3>2, <3>3
    <2> QED
      BY <2>1, <2>2, <1>4, <1>5 DEF Signed
  <1>10. LineageIsCurrent'
    <2> SUFFICES ASSUME NEW j \in DOMAIN Precursor, PhaseOf[j] <= PhaseOf[k]
                 PROVE  Derived(j)'
      BY DEF LineageIsCurrent, Derived
    <2>1. CASE j = k
      <3>1. Precursor[k] # k
        OBVIOUS
      <3>2. Latest(Precursor[k])' = Latest(Precursor[k])
        BY <1>1, <1>4, <3>1
      <3>3. Latest(k)' # 0
        BY <1>3
      <3> QED
        BY <2>1, <3>2, <3>3, <1>3 DEF Derived
    <2>2. CASE j # k
      <3>1. PhaseOf[j] <= Phase[stage]
        BY <2>2, <1>6
      <3>2. Derived(j)
        BY <3>1, <1>6 DEF IInv, LineageIsCurrent, Derived
      <3>3. Precursor[j] # k /\ Precursor[j] \in ArtifactKinds /\ j \in ArtifactKinds
        BY <2>2
      <3>4. Latest(Precursor[j])' = Latest(Precursor[j]) /\ Latest(j)' = Latest(j)
        BY <2>2, <3>3, <1>4
      <3>5. artifact'[j] = artifact[j]
        BY <2>2, <3>3, <1>3
      <3> QED
        BY <3>2, <3>4, <3>5 DEF Derived
    <2> QED
      BY <2>1, <2>2
  <1>11. ResourcesAreComplete'
    <2> SUFFICES ASSUME PhaseOf[k] >= 5
                 PROVE  ~artifact'["RESOURCES"][Latest("RESOURCES")'].missing
      BY DEF ResourcesAreComplete
    <2>1. k # "RESOURCES"
      OBVIOUS
    <2>2. ~artifact["RESOURCES"][Latest("RESOURCES")].missing
      <3>1. CASE k = "ART_DIRECTION"
        BY <3>1
      <3>2. CASE k # "ART_DIRECTION"
        BY <3>2, <1>6 DEF IInv, ResourcesAreComplete
      <3> QED
        BY <3>1, <3>2
    <2> QED
      BY <2>1, <2>2, <1>3, <1>4
  <1> QED
    BY <1>7, <1>8, <1>9, <1>10, <1>11 DEF IInv

-----------------------------------------------------------------------------
(* The operations.                                                         *)

\* A project created or reset is in DRAFT, of which the invariant claims only
\* that no final design is left.
LEMMA CreateProjectKeepsIInv ==
    ASSUME IInv, NEW t \in ProjectTypes, CreateProject(t)
    PROVE  IInv'
  <1>1. stage' = "DRAFT" /\ finalDesign' = 0 /\ Phase[stage'] = 1
    BY DEF CreateProject, InsertProject, OverwriteProject, Phase
  <1>2. TypeOK'
    BY DEF IInv, TypeOK, CreateProject, InsertProject, OverwriteProject, Stages,
           ProjectStages, NextStages
  <1> QED
    BY <1>1, <1>2 DEF IInv, FinalDesignIsVerified, PassedGatesStaySigned,
       LineageIsCurrent, ResourcesAreComplete, PhaseOf, ReviewKinds, Precursor

\* A new analysis leaves no earlier gate to keep: every phase after it is open
\* again.
LEMMA StartAnalysisKeepsIInv ==
    ASSUME IInv, StartAnalysis
    PROVE  IInv'
  <1>1. artifact' \in [ArtifactKinds -> Seq(Payloads)]
    BY CreateArtifactEffect, Zenon DEF IInv, StartAnalysis, ArtifactKinds, ReviewKinds
  <1>2. stage' = "ANALYSIS_REVIEW" /\ Phase[stage'] = 2 /\ stage' \in ProjectStages
    BY DEF StartAnalysis, SaveProject, Phase, ProjectStages, NextStages
  <1>3. finalDesign' = 0
    BY DEF IInv, FinalDesignIsVerified, StartAnalysis
  <1>4. TypeOK'
    BY <1>1, <1>2 DEF IInv, TypeOK, StartAnalysis, SaveProject, Stages
  <1> QED
    BY <1>2, <1>3, <1>4 DEF IInv, FinalDesignIsVerified, PassedGatesStaySigned,
       LineageIsCurrent, ResourcesAreComplete, PhaseOf, ReviewKinds, Precursor

\* An approval names the latest version, so what was signed stays signed.
LEMMA ApproveKeepsIInv ==
    ASSUME IInv, NEW k \in ArtifactKinds, NEW v \in Nat, Approve(k, v)
    PROVE  IInv'
  <1>1. /\ approval' \in [ArtifactKinds -> Seq(Nat)]
        /\ v = Latest(k)
        /\ \A j \in ArtifactKinds :
              \/ ApprovedVersion(j)' = ApprovedVersion(j)
              \/ j = k /\ ApprovedVersion(j)' = v
    <2>1. TypeOK
      BY DEF IInv
    <2> QED
      BY <2>1, ApproveEffect, Zenon
  <1>2. UNCHANGED <<stage, projectType, revision, finalDesign, artifact, created>>
    BY DEF Approve, projectVars
  <1>3. \A j \in ArtifactKinds : Latest(j)' = Latest(j)
    BY <1>2 DEF Latest
  <1>4. TypeOK'
    BY <1>1, <1>2 DEF IInv, TypeOK
  <1>5. \A j \in ArtifactKinds : Signed(j) => Signed(j)'
    BY <1>1, <1>3 DEF Signed
  <1>6. PassedGatesStaySigned'
    BY <1>2, <1>5 DEF IInv, PassedGatesStaySigned, Signed, ArtifactKinds
  <1>7. LineageIsCurrent' /\ ResourcesAreComplete'
    BY <1>2 DEF IInv, LineageIsCurrent, ResourcesAreComplete, Latest
  <1>8. FinalDesignIsVerified'
    <2>1. CASE stage = "FINAL"
      <3>1. Signed("VERIFICATION")'
        BY <2>1, <1>5 DEF IInv, FinalDesignIsVerified, Signed, ArtifactKinds, ReviewKinds
      <3>2. LatestVerification' = LatestVerification /\ Latest("DESIGN")' = Latest("DESIGN")
        BY <1>2 DEF LatestVerification, Latest
      <3> QED
        BY <2>1, <3>1, <3>2, <1>2 DEF IInv, FinalDesignIsVerified, Signed
    <2>2. CASE stage # "FINAL"
      BY <2>2, <1>2 DEF IInv, FinalDesignIsVerified
    <2> QED
      BY <2>1, <2>2
  <1> QED
    BY <1>4, <1>6, <1>7, <1>8 DEF IInv

\* structure enters STRUCTURING on the approved current analysis, also when the
\* art direction sends the project back.
LEMMA StructureKeepsIInv ==
    ASSUME IInv, Structure
    PROVE  IInv'
  <1>1. stage \in {"ANALYSIS_REVIEW", "STRUCTURE_REVIEW", "ART_DIRECTION_REVIEW"}
    BY Entrances DEF Structure, CanMove
  <1>2. Signed("ANALYSIS")
    BY GateIsSigned DEF Structure, CanMove, RequiredApproval, Signed
  <1>3. CreateArtifact("STRUCTURE", Latest(Precursor["STRUCTURE"]), FALSE, FALSE, FALSE)
    BY DEF Structure, CreateDerived
  <1>4. revision' \in Nat /\ stage' = "STRUCTURE_REVIEW"
    BY DEF IInv, TypeOK, Structure, SaveProject
  <1>5. /\ Precursor["STRUCTURE"] = "ANALYSIS" /\ "STRUCTURE" \in DOMAIN Precursor
        /\ PhaseOf["STRUCTURE"] = 3 /\ Phase[stage] \in 2..5 /\ Phase[stage'] = 3
        /\ stage' \in ProjectStages \ {"FINAL"} /\ stage # "FINAL"
    BY <1>1, <1>4 DEF Precursor, PhaseOf, Phase, ProjectStages, NextStages
  <1>7. UNCHANGED <<projectType, finalDesign, approval, created>>
    BY DEF Structure
  <1>8. Precursor["STRUCTURE"] \in ReviewKinds => Signed(Precursor["STRUCTURE"])
    BY <1>2, <1>5
  <1>9. /\ PhaseOf["STRUCTURE"] <= Phase[stage] + 1 /\ Phase[stage'] = PhaseOf["STRUCTURE"]
        /\ stage \in ProjectStages
    BY <1>5 DEF Structure
  <1> QED
    BY <1>2, <1>3, <1>4, <1>5, <1>7, <1>8, <1>9, ProduceKeepsIInv

\* resolveResources makes RESOURCES from the approved current structure.
LEMMA ResolveResourcesKeepsIInv ==
    ASSUME IInv, NEW missing \in BOOLEAN, ResolveResources(missing)
    PROVE  IInv'
  <1>1. stage \in {"STRUCTURE_REVIEW", "RESOURCES_REVIEW"}
    BY Entrances DEF ResolveResources, CanMove
  <1>2. Signed("STRUCTURE")
    BY GateIsSigned DEF ResolveResources, CanMove, RequiredApproval, Signed
  <1>3. CreateArtifact("RESOURCES", Latest(Precursor["RESOURCES"]), missing, FALSE, FALSE)
    BY DEF ResolveResources, CreateDerived
  <1>4. revision' \in Nat /\ stage' = "RESOURCES_REVIEW"
    BY DEF IInv, TypeOK, ResolveResources, SaveProject
  <1>5. /\ Precursor["RESOURCES"] = "STRUCTURE" /\ "RESOURCES" \in DOMAIN Precursor
        /\ PhaseOf["RESOURCES"] = 4 /\ Phase[stage] \in 3..4 /\ Phase[stage'] = 4
        /\ stage' \in ProjectStages \ {"FINAL"} /\ stage # "FINAL"
    BY <1>1, <1>4 DEF Precursor, PhaseOf, Phase, ProjectStages, NextStages
  <1>7. UNCHANGED <<projectType, finalDesign, approval, created>>
    BY DEF ResolveResources
  <1>8. Precursor["RESOURCES"] \in ReviewKinds => Signed(Precursor["RESOURCES"])
    BY <1>2, <1>5
  <1>9. /\ PhaseOf["RESOURCES"] <= Phase[stage] + 1 /\ Phase[stage'] = PhaseOf["RESOURCES"]
        /\ stage \in ProjectStages
    BY <1>5 DEF ResolveResources
  <1> QED
    BY <1>2, <1>3, <1>4, <1>5, <1>7, <1>8, <1>9, ProduceKeepsIInv

\* artDirect makes ART_DIRECTION from approved current resources that it has
\* found complete.
LEMMA ArtDirectKeepsIInv ==
    ASSUME IInv, ArtDirect
    PROVE  IInv'
  <1>1. stage \in {"RESOURCES_REVIEW", "ART_DIRECTION_REVIEW"}
    BY Entrances DEF ArtDirect, CanMove
  <1>2. Signed("RESOURCES")
    BY GateIsSigned DEF ArtDirect, CanMove, RequiredApproval, Signed
  <1>3. CreateArtifact("ART_DIRECTION", Latest(Precursor["ART_DIRECTION"]), FALSE, FALSE, FALSE)
    BY DEF ArtDirect, CreateDerived
  <1>4. revision' \in Nat /\ stage' = "ART_DIRECTION_REVIEW"
    BY DEF IInv, TypeOK, ArtDirect, SaveProject
  <1>5. /\ Precursor["ART_DIRECTION"] = "RESOURCES" /\ "ART_DIRECTION" \in DOMAIN Precursor
        /\ PhaseOf["ART_DIRECTION"] = 5 /\ Phase[stage] \in 4..5 /\ Phase[stage'] = 5
        /\ stage' \in ProjectStages \ {"FINAL"} /\ stage # "FINAL"
    BY <1>1, <1>4 DEF Precursor, PhaseOf, Phase, ProjectStages, NextStages
  <1>6. ~artifact["RESOURCES"][Latest("RESOURCES")].missing
    BY <1>2 DEF ArtDirect, Signed
  <1>7. UNCHANGED <<projectType, finalDesign, approval, created>>
    BY DEF ArtDirect
  <1>8. Precursor["ART_DIRECTION"] \in ReviewKinds => Signed(Precursor["ART_DIRECTION"])
    BY <1>2, <1>5
  <1>9. /\ PhaseOf["ART_DIRECTION"] <= Phase[stage] + 1 /\ Phase[stage'] = PhaseOf["ART_DIRECTION"]
        /\ stage \in ProjectStages
    BY <1>5 DEF ArtDirect
  <1> QED
    BY <1>2, <1>3, <1>4, <1>5, <1>6, <1>7, <1>8, <1>9, ProduceKeepsIInv

\* createDesignVersion makes a DESIGN from the approved current art direction.
LEMMA CreateDesignVersionKeepsIInv ==
    ASSUME IInv, CreateDesignVersion
    PROVE  IInv'
  <1>1. Signed("ART_DIRECTION")
    BY GateIsSigned DEF CreateDesignVersion, CanMove, RequiredApproval, Signed
  <1>2. CreateArtifact("DESIGN", Latest(Precursor["DESIGN"]), FALSE, FALSE, FALSE)
    BY DEF CreateDesignVersion, CreateDerived
  <1>3. revision' \in Nat /\ stage' = "GENERATED" /\ stage = "ART_DIRECTION_REVIEW"
    BY DEF IInv, TypeOK, CreateDesignVersion, SaveProject
  <1>4. /\ Precursor["DESIGN"] = "ART_DIRECTION" /\ "DESIGN" \in DOMAIN Precursor
        /\ PhaseOf["DESIGN"] = 6 /\ Phase[stage] = 5 /\ Phase[stage'] = 6
        /\ stage' \in ProjectStages \ {"FINAL"} /\ stage # "FINAL"
        /\ stage \in ProjectStages
    BY <1>3 DEF Precursor, PhaseOf, Phase, ProjectStages, NextStages
  <1>7. UNCHANGED <<projectType, finalDesign, approval, created>>
    BY DEF CreateDesignVersion
  <1>8. Precursor["DESIGN"] \in ReviewKinds => Signed(Precursor["DESIGN"])
    BY <1>1, <1>4
  <1>9. /\ PhaseOf["DESIGN"] <= Phase[stage] + 1 /\ Phase[stage'] = PhaseOf["DESIGN"]
        /\ stage \in ProjectStages
    BY <1>1, <1>2, <1>3, <1>4
  <1> QED
    BY <1>1, <1>2, <1>3, <1>4, <1>7, <1>8, <1>9, ProduceKeepsIInv

\* saveVerification makes a VERIFICATION of the latest design.
LEMMA SaveVerificationKeepsIInv ==
    ASSUME IInv, NEW d \in Versions, NEW passed \in BOOLEAN, NEW critical \in BOOLEAN,
           SaveVerification(d, passed, critical)
    PROVE  IInv'
  <1>1. CreateArtifact("VERIFICATION", Latest(Precursor["VERIFICATION"]), FALSE, passed, critical)
    BY DEF SaveVerification, Precursor
  <1>2. revision' \in Nat /\ stage' = "VERIFICATION_REVIEW" /\ stage = "GENERATED"
    BY DEF IInv, TypeOK, SaveVerification, SaveProject
  <1>3. /\ Precursor["VERIFICATION"] \notin ReviewKinds
        /\ "VERIFICATION" \in DOMAIN Precursor
        /\ PhaseOf["VERIFICATION"] = 7 /\ Phase[stage] = 6 /\ Phase[stage'] = 7
        /\ stage' \in ProjectStages \ {"FINAL"} /\ stage # "FINAL"
        /\ stage \in ProjectStages
    BY <1>2 DEF Precursor, PhaseOf, Phase, ProjectStages, NextStages, ReviewKinds
  <1>7. UNCHANGED <<projectType, finalDesign, approval, created>>
    BY DEF SaveVerification
  <1>8. Precursor["VERIFICATION"] \in ReviewKinds => Signed(Precursor["VERIFICATION"])
    BY <1>3
  <1>9. /\ PhaseOf["VERIFICATION"] <= Phase[stage] + 1 /\ Phase[stage'] = PhaseOf["VERIFICATION"]
        /\ stage \in ProjectStages
    BY <1>1, <1>2, <1>3
  <1> QED
    BY <1>1, <1>2, <1>3, <1>7, <1>8, <1>9, ProduceKeepsIInv

\* The verification approved is the latest, and its design the latest design.
LEMMA ApproveDesignKeepsIInv ==
    ASSUME IInv, NEW v \in Versions, ApproveDesign(v)
    PROVE  IInv'
  <1>1. stage = "VERIFICATION_REVIEW"
    BY Entrances DEF ApproveDesign, CanMove
  <1>2. Signed("VERIFICATION") /\ v = Latest("VERIFICATION")
    BY GateIsSigned DEF ApproveDesign, CanMove, RequiredApproval, Signed
  <1>3. LatestVerification.passed /\ ~LatestVerification.critical
    BY <1>2 DEF ApproveDesign, CanMove, CanTransition, StageGuard, Snapshot, Signed
  <1>4. Derived("VERIFICATION") /\ Derived("DESIGN")
    BY <1>1 DEF IInv, LineageIsCurrent, Derived, Phase, PhaseOf, Precursor
  <1>5. /\ finalDesign' = Latest("DESIGN") /\ finalDesign' # 0
        /\ LatestVerification.on = finalDesign'
    BY <1>2, <1>4 DEF ApproveDesign, Derived, LatestVerification, Precursor
  <1>6. /\ UNCHANGED <<projectType, artifact, approval, created>>
        /\ stage' = "FINAL" /\ revision' = revision + 3
    BY DEF ApproveDesign, SaveProject
  <1>7. /\ \A k \in ArtifactKinds : Latest(k)' = Latest(k)
        /\ \A k \in ArtifactKinds : ApprovedVersion(k)' = ApprovedVersion(k)
        /\ LatestVerification' = LatestVerification
    BY <1>6 DEF Latest, ApprovedVersion, LatestVerification
  <1>8. FinalDesignIsVerified'
    BY <1>2, <1>3, <1>5, <1>6, <1>7
    DEF FinalDesignIsVerified, Signed, ArtifactKinds, ReviewKinds
  <1>9. PassedGatesStaySigned'
    <2>1. \A k \in ReviewKinds : Signed(k)
      BY <1>1, <1>2 DEF IInv, PassedGatesStaySigned, Signed, Phase, PhaseOf, ReviewKinds
    <2> QED
      BY <2>1, <1>7 DEF PassedGatesStaySigned, Signed, ArtifactKinds
  <1>10. LineageIsCurrent'
    BY <1>1, <1>6 DEF IInv, LineageIsCurrent, Phase, PhaseOf, Precursor, Latest
  <1>11. ResourcesAreComplete'
    BY <1>1, <1>6 DEF IInv, ResourcesAreComplete, Phase, PhaseOf, Latest
  <1>12. TypeOK'
    <2>1. finalDesign' \in Nat
      BY <1>5 DEF IInv, TypeOK, Latest, ArtifactKinds, ReviewKinds
    <2> QED
      BY <2>1, <1>6 DEF IInv, TypeOK, Stages, ProjectStages, NextStages
  <1> QED
    BY <1>8, <1>9, <1>10, <1>11, <1>12 DEF IInv

-----------------------------------------------------------------------------
(* The invariant is inductive.                                             *)

\* Before the first create there is no project and the invariant claims nothing.
LEMMA InitIInv == Init => IInv
  <1> SUFFICES ASSUME Init PROVE IInv
    OBVIOUS
  <1>1. TypeOK
    BY DEF Init, TypeOK, Stages
  <1> QED
    BY <1>1 DEF Init, IInv, FinalDesignIsVerified, PassedGatesStaySigned,
       LineageIsCurrent, ResourcesAreComplete, Phase, PhaseOf, ReviewKinds, Precursor

\* Every operation, and every step that is none, keeps the invariant.
LEMMA NextKeepsIInv == IInv /\ [Next]_vars => IInv'
  <1> SUFFICES ASSUME IInv, [Next]_vars PROVE IInv'
    OBVIOUS
  <1>1. ASSUME NEW t \in ProjectTypes, CreateProject(t) PROVE IInv'
    BY <1>1, CreateProjectKeepsIInv
  <1>2. CASE StartAnalysis
    BY <1>2, StartAnalysisKeepsIInv
  <1>3. ASSUME NEW k \in ArtifactKinds, NEW v \in Versions, Approve(k, v) PROVE IInv'
    <2>1. v \in Nat
      BY MaxVersionsAssumption DEF Versions
    <2> QED
      BY <1>3, <2>1, ApproveKeepsIInv
  <1>4. CASE Structure
    BY <1>4, StructureKeepsIInv
  <1>5. ASSUME NEW missing \in BOOLEAN, ResolveResources(missing) PROVE IInv'
    BY <1>5, ResolveResourcesKeepsIInv
  <1>6. CASE ArtDirect
    BY <1>6, ArtDirectKeepsIInv
  <1>7. CASE CreateDesignVersion
    BY <1>7, CreateDesignVersionKeepsIInv
  <1>8. ASSUME NEW d \in Versions, NEW passed \in BOOLEAN, NEW critical \in BOOLEAN,
               SaveVerification(d, passed, critical)
        PROVE  IInv'
    BY <1>8, SaveVerificationKeepsIInv
  <1>9. ASSUME NEW v \in Versions, ApproveDesign(v) PROVE IInv'
    BY <1>9, ApproveDesignKeepsIInv
  <1>10. CASE UNCHANGED vars
    BY <1>10 DEF vars, IInv, TypeOK, FinalDesignIsVerified, PassedGatesStaySigned,
       LineageIsCurrent, ResourcesAreComplete, Latest, LatestVerification, ApprovedVersion
  <1> QED
    BY <1>1, <1>2, <1>3, <1>4, <1>5, <1>6, <1>7, <1>8, <1>9, <1>10 DEF Next

\* An operation ends in the phase it started from, in the next or in an
\* earlier one: by the stages from which each gate can be entered.
LEMMA NextClimbsOnePhase ==
    ASSUME TypeOK, Next
    PROVE  Phase[stage'] <= Phase[stage] + 1
  <1>1. Phase[stage] \in Nat
    BY DEF TypeOK, Stages, Phase, ProjectStages, NextStages
  <1>2. ASSUME NEW t \in ProjectTypes, CreateProject(t)
        PROVE  Phase[stage'] <= Phase[stage] + 1
    <2>1. stage' = "DRAFT"
      BY <1>2 DEF CreateProject, InsertProject, OverwriteProject
    <2> QED
      BY <1>1, <2>1 DEF Phase
  <1>3. CASE StartAnalysis
    BY <1>3 DEF StartAnalysis, SaveProject, Phase
  <1>4. ASSUME NEW k \in ArtifactKinds, NEW v \in Versions, Approve(k, v)
        PROVE  Phase[stage'] <= Phase[stage] + 1
    BY <1>1, <1>4 DEF Approve, projectVars
  <1>5. CASE Structure
    <2>1. stage \in {"ANALYSIS_REVIEW", "STRUCTURE_REVIEW", "ART_DIRECTION_REVIEW"}
      BY <1>5, Entrances DEF Structure, CanMove
    <2> QED
      BY <1>5, <2>1 DEF Structure, SaveProject, Phase
  <1>6. ASSUME NEW missing \in BOOLEAN, ResolveResources(missing)
        PROVE  Phase[stage'] <= Phase[stage] + 1
    <2>1. stage \in {"STRUCTURE_REVIEW", "RESOURCES_REVIEW"}
      BY <1>6, Entrances DEF ResolveResources, CanMove
    <2> QED
      BY <1>6, <2>1 DEF ResolveResources, SaveProject, Phase
  <1>7. CASE ArtDirect
    <2>1. stage \in {"RESOURCES_REVIEW", "ART_DIRECTION_REVIEW"}
      BY <1>7, Entrances DEF ArtDirect, CanMove
    <2> QED
      BY <1>7, <2>1 DEF ArtDirect, SaveProject, Phase
  <1>8. CASE CreateDesignVersion
    BY <1>8 DEF CreateDesignVersion, SaveProject, Phase
  <1>9. ASSUME NEW d \in Versions, NEW passed \in BOOLEAN, NEW critical \in BOOLEAN,
               SaveVerification(d, passed, critical)
        PROVE  Phase[stage'] <= Phase[stage] + 1
    BY <1>9 DEF SaveVerification, SaveProject, Phase
  <1>10. ASSUME NEW v \in Versions, ApproveDesign(v)
         PROVE  Phase[stage'] <= Phase[stage] + 1
    <2>1. stage = "VERIFICATION_REVIEW"
      BY <1>10, Entrances DEF ApproveDesign, CanMove
    <2> QED
      BY <1>10, <2>1 DEF ApproveDesign, SaveProject, Phase
  <1> QED
    BY <1>2, <1>3, <1>4, <1>5, <1>6, <1>7, <1>8, <1>9, <1>10 DEF Next

-----------------------------------------------------------------------------
(* The contract.                                                           *)

\* A project is there from the first create request on, and none is archived.
Opened ==
    /\ stage # "ARCHIVED"
    /\ stage # "NONE" => created # {}

\* What counts as signed here is signed in the contract.
LEMMA SignedIsSignedOff ==
    ASSUME TypeOK, NEW k \in ArtifactKinds, Signed(k)
    PROVE  Contract!SignedOff(k)
  <1>1. approval[k] \in Seq(Nat) /\ Latest(k) \in Nat
    BY DEF TypeOK, Latest
  <1>2. approval[k] # <<>> /\ approval[k][Len(approval[k])] = Latest(k)
    BY DEF Signed, ApprovedVersion
  <1>3. Len(approval[k]) \in 1..Len(approval[k])
    BY <1>1, <1>2
  <1> QED
    BY <1>2, <1>3 DEF Contract!SignedOff, Signed

\* A step that makes an artifact from a signed one is Make of the contract.
LEMMA MakesOne ==
    ASSUME TypeOK, NEW k \in ArtifactKinds,
           NEW on \in Nat, NEW missing \in BOOLEAN,
           NEW passed \in BOOLEAN, NEW critical \in BOOLEAN,
           CreateArtifact(k, on, missing, passed, critical),
           Phase[stage] \in (PhaseOf[k] - 1)..7, Phase[stage'] = PhaseOf[k],
           \A j \in ArtifactKinds \ {"DESIGN"} : PhaseOf[j] = PhaseOf[k] - 1 => Signed(j),
           UNCHANGED <<finalDesign, approval>>
    PROVE  Contract!ContractNext
  <1> DEFINE P == {v \in 1..Latest("VERIFICATION") :
                      artifact["VERIFICATION"][v].passed /\ ~artifact["VERIFICATION"][v].critical}
             new == [on |-> on, missing |-> missing, passed |-> passed, critical |-> critical]
  <1>1. Contract!Kinds = ArtifactKinds /\ Contract!MadeIn = PhaseOf
    BY DEF Contract!Kinds, Contract!MadeIn, PhaseOf, ArtifactKinds, ReviewKinds
  <1>2. new \in Payloads /\ artifact \in [ArtifactKinds -> Seq(Payloads)]
        /\ artifact' = [artifact EXCEPT ![k] = Append(@, new)]
    BY DEF Payloads, TypeOK, CreateArtifact
  <1>3. /\ \A j \in ArtifactKinds : Latest(j) \in Nat
        /\ \A j \in ArtifactKinds : Latest(j)' = IF j = k THEN Latest(j) + 1 ELSE Latest(j)
        /\ \A j \in ArtifactKinds : \A v \in 1..Latest(j) : artifact'[j][v] = artifact[j][v]
    <2> HIDE DEF new
    <2>1. /\ Append(artifact[k], new) \in Seq(Payloads)
          /\ Len(Append(artifact[k], new)) = Len(artifact[k]) + 1
          /\ \A v \in 1..Len(artifact[k]) : Append(artifact[k], new)[v] = artifact[k][v]
      BY <1>2
    <2>2. \A j \in ArtifactKinds :
             artifact'[j] = IF j = k THEN Append(artifact[k], new) ELSE artifact[j]
      BY <1>2
    <2>3. \A j \in ArtifactKinds : Len(artifact[j]) \in Nat
      BY <1>2
    <2> QED
      BY <2>1, <2>2, <2>3 DEF Latest
  <1>4. P' = P \/ (k = "VERIFICATION" /\ P' = P \cup {Latest("VERIFICATION")'})
    <2>1. "VERIFICATION" \in ArtifactKinds
      BY DEF ArtifactKinds, ReviewKinds
    <2>2. CASE k # "VERIFICATION"
      BY <1>3, <2>1, <2>2
    <2>3. CASE k = "VERIFICATION"
      <3> DEFINE n == Latest("VERIFICATION")
      <3>1. n \in Nat /\ n' = n + 1
            /\ \A v \in 1..n : artifact'["VERIFICATION"][v] = artifact["VERIFICATION"][v]
        BY <1>3, <2>1, <2>3
      <3>2. /\ P = {v \in 1..n : artifact["VERIFICATION"][v].passed
                                 /\ ~artifact["VERIFICATION"][v].critical}
            /\ P' = {v \in 1..n' : artifact'["VERIFICATION"][v].passed
                                   /\ ~artifact'["VERIFICATION"][v].critical}
        OBVIOUS
      <3> HIDE DEF n, P
      <3>3. 1..n' = (1..n) \cup {n + 1} /\ n + 1 \notin 1..n
        BY <3>1
      <3>4. \A v \in 1..n : v \in P' <=> v \in P
        BY <3>1, <3>2, <3>3
      <3>5. P \subseteq 1..n /\ P' \subseteq (1..n) \cup {n + 1}
        BY <3>2, <3>3
      <3>6. P' = P \/ P' = P \cup {n'}
        BY <3>1, <3>4, <3>5
      <3> QED
        BY <2>3, <3>6 DEF n
    <2> QED
      BY <2>2, <2>3
  <1>5. \A j \in ArtifactKinds \ {"DESIGN"} : PhaseOf[j] = PhaseOf[k] - 1 => Contract!SignedOff(j)
    BY SignedIsSignedOff
  <1>6. [j \in ArtifactKinds |-> Latest(j)]'
           = [[j \in ArtifactKinds |-> Latest(j)] EXCEPT ![k] = @ + 1]
    BY <1>3
  <1>7. Contract!Make(k)
    BY <1>1, <1>3, <1>4, <1>5, <1>6 DEF Contract!Make
  <1> QED
    BY <1>1, <1>7 DEF Contract!ContractNext

\* A create request opens the project, or starts it over: then a request with
\* another type has been completed.
LEMMA CreateIsAllowed ==
    ASSUME IInv, Opened, NEW t \in ProjectTypes, CreateProject(t)
    PROVE  Contract!ContractNext
  <1>1. UNCHANGED <<artifact, approval>> /\ t \notin created
    BY DEF CreateProject
  <1>2. CASE InsertProject(t)
    <2>1. finalDesign = 0 /\ finalDesign' = 0 /\ Phase[stage] = 0 /\ Phase[stage'] = 1
      BY <1>2 DEF InsertProject, IInv, FinalDesignIsVerified, Phase
    <2>2. Contract!Open
      BY <1>1, <2>1 DEF Contract!Open, Latest
    <2> QED
      BY <2>2 DEF Contract!ContractNext
  <1>3. CASE OverwriteProject
    <2>1. Phase[stage] # 0 /\ Phase[stage'] = 1 /\ finalDesign' = 0
      BY <1>3 DEF OverwriteProject, IInv, TypeOK, Stages, Opened, Phase, ProjectStages, NextStages
    <2>2. \E u \in ProjectTypes : u # t
      BY <1>1, <1>3 DEF Opened, OverwriteProject, IInv, TypeOK
    <2>3. Contract!StartOver
      BY <1>1, <2>1, <2>2 DEF Contract!StartOver, Latest
    <2> QED
      BY <2>3 DEF Contract!ContractNext
  <1> QED
    BY <1>2, <1>3 DEF CreateProject

\* approve adds the version it names to those signed.
LEMMA ApproveIsAllowed ==
    ASSUME IInv, NEW k \in ArtifactKinds, NEW v \in Nat, Approve(k, v)
    PROVE  Contract!ContractNext
  <1> DEFINE S(j) == {approval[j][i] : i \in 1..Len(approval[j])}
  <1>1. UNCHANGED <<stage, finalDesign, artifact>> /\ v \in 1..Latest(k)
    BY DEF Approve, projectVars, IInv, TypeOK, Latest
  <1>2. approval \in [ArtifactKinds -> Seq(Nat)]
    BY DEF IInv, TypeOK
  <1>3. \A j \in ArtifactKinds \ {k} : S(j)' = S(j)
    BY <1>2 DEF Approve
  <1>4. S(k)' = S(k) \cup {v}
    <2> DEFINE n == Len(approval[k])
    <2>1. CASE \E i \in 1..n : approval[k][i] = v
      BY <1>2, <2>1 DEF Approve
    <2>2. CASE ~\E i \in 1..n : approval[k][i] = v
      <3>1. approval'[k] = Append(approval[k], v)
        BY <1>2, <2>2 DEF Approve
      <3>2. /\ n \in Nat /\ Len(approval'[k]) = n + 1
            /\ approval'[k][n + 1] = v
            /\ \A i \in 1..n : approval'[k][i] = approval[k][i]
        BY <1>2, <3>1
      <3>3. S(k)' = {approval'[k][i] : i \in 1..(n + 1)}
        BY <3>2
      <3> HIDE DEF n
      <3>4. 1..(n + 1) = (1..n) \cup {n + 1}
        BY <3>2
      <3>5. {approval'[k][i] : i \in 1..(n + 1)} = {approval'[k][i] : i \in 1..n} \cup {v}
        BY <3>2, <3>4
      <3>6. {approval'[k][i] : i \in 1..n} = {approval[k][i] : i \in 1..n}
        BY <3>2
      <3> QED
        BY <3>3, <3>5, <3>6 DEF n
    <2> QED
      BY <2>1, <2>2
  <1>5. [j \in ArtifactKinds |-> S(j)]' = [[j \in ArtifactKinds |-> S(j)] EXCEPT ![k] = @ \cup {v}]
    BY <1>3, <1>4
  <1>6. Contract!Sign(k) /\ k \in Contract!Kinds
    BY <1>1, <1>5 DEF Contract!Sign, Contract!Kinds, Contract!MadeIn, Latest, S,
       ArtifactKinds, ReviewKinds
  <1> QED
    BY <1>6 DEF Contract!ContractNext

\* approveDesign closes the project; what it leaves behind is what the
\* invariant says of a FINAL project.
LEMMA ApproveDesignIsAllowed ==
    ASSUME IInv, NEW v \in Versions, ApproveDesign(v)
    PROVE  Contract!ContractNext
  <1>1. stage = "VERIFICATION_REVIEW"
    BY Entrances DEF ApproveDesign, CanMove
  <1>2. UNCHANGED <<artifact, approval>> /\ stage' = "FINAL"
    BY DEF ApproveDesign, SaveProject
  <1>3. FinalDesignIsVerified'
    BY ApproveDesignKeepsIInv DEF IInv
  <1>4. finalDesign' = Latest("DESIGN") /\ Signed("VERIFICATION")
        /\ LatestVerification.passed /\ ~LatestVerification.critical
    BY <1>2, <1>3 DEF FinalDesignIsVerified, Signed, Latest, LatestVerification, ApprovedVersion
  <1>5. "VERIFICATION" \in ArtifactKinds /\ "DESIGN" \in ArtifactKinds
    BY DEF ArtifactKinds, ReviewKinds
  <1>6. Contract!SignedOff("VERIFICATION")
    BY <1>4, <1>5, SignedIsSignedOff DEF IInv
  <1>7. Latest("VERIFICATION") \in 1..Latest("VERIFICATION")
    BY <1>4, <1>5 DEF IInv, TypeOK, Latest, Signed
  <1>8. Phase[stage] = 7 /\ Phase[stage'] = 8
    BY <1>1, <1>2 DEF Phase
  <1>9. Contract!Close
    BY <1>2, <1>4, <1>5, <1>6, <1>7, <1>8 DEF Contract!Close, Latest, LatestVerification
  <1> QED
    BY <1>9 DEF Contract!ContractNext

\* An operation that makes an artifact enters the phase of its kind on the signed
\* artifact of the phase before.
LEMMA MakersAreAllowed ==
    ASSUME IInv,
           \/ StartAnalysis \/ Structure \/ ArtDirect \/ CreateDesignVersion
           \/ \E missing \in BOOLEAN : ResolveResources(missing)
           \/ \E d \in Versions, passed, critical \in BOOLEAN :
                  SaveVerification(d, passed, critical)
    PROVE  Contract!ContractNext
  <1>1. TypeOK /\ \A k \in ArtifactKinds : Latest(k) \in Nat
    BY DEF IInv, TypeOK, Latest
  <1>2. /\ ArtifactKinds = {"ANALYSIS", "STRUCTURE", "RESOURCES", "ART_DIRECTION", "DESIGN",
                            "VERIFICATION"}
        /\ PhaseOf["ANALYSIS"] = 2 /\ PhaseOf["STRUCTURE"] = 3 /\ PhaseOf["RESOURCES"] = 4
        /\ PhaseOf["ART_DIRECTION"] = 5 /\ PhaseOf["DESIGN"] = 6
        /\ PhaseOf["VERIFICATION"] = 7
    BY DEF ArtifactKinds, ReviewKinds, PhaseOf
  <1>3. \A j \in ArtifactKinds \ {"DESIGN"} :
           /\ PhaseOf[j] # 1 /\ PhaseOf[j] # 6
           /\ PhaseOf[j] = 2 => j = "ANALYSIS"
           /\ PhaseOf[j] = 3 => j = "STRUCTURE"
           /\ PhaseOf[j] = 4 => j = "RESOURCES"
           /\ PhaseOf[j] = 5 => j = "ART_DIRECTION"
    BY <1>2
  <1>4. CASE StartAnalysis
    <2>1. CreateArtifact("ANALYSIS", 0, FALSE, FALSE, FALSE)
          /\ UNCHANGED <<finalDesign, approval>>
          /\ stage \in {"DRAFT", "ANALYSIS_REVIEW"} /\ stage' = "ANALYSIS_REVIEW"
      BY <1>4 DEF StartAnalysis, SaveProject
    <2>2. Phase[stage] \in 1..2 /\ Phase[stage'] = 2
      BY <2>1 DEF Phase
    <2>5. /\ Phase[stage] \in (PhaseOf["ANALYSIS"] - 1)..7 /\ Phase[stage'] = PhaseOf["ANALYSIS"]
          /\ \A j \in ArtifactKinds \ {"DESIGN"} :
                PhaseOf[j] = PhaseOf["ANALYSIS"] - 1 => Signed(j)
      BY <1>2, <1>3, <2>1, <2>2
    <2> QED
      BY <1>1, <1>2, <2>1, <2>5, MakesOne
  <1>5. CASE Structure
    <2>1. CreateArtifact("STRUCTURE", Latest("ANALYSIS"), FALSE, FALSE, FALSE)
          /\ UNCHANGED <<finalDesign, approval>> /\ stage' = "STRUCTURE_REVIEW"
      BY <1>5 DEF Structure, SaveProject, CreateDerived, Precursor
    <2>2. stage \in {"ANALYSIS_REVIEW", "STRUCTURE_REVIEW", "ART_DIRECTION_REVIEW"}
      BY <1>5, Entrances DEF Structure, CanMove
    <2>3. Signed("ANALYSIS")
      BY <1>5, GateIsSigned DEF Structure, CanMove, RequiredApproval, Signed
    <2>4. Phase[stage] \in 2..5 /\ Phase[stage'] = 3
      BY <2>1, <2>2 DEF Phase
    <2>5. /\ Phase[stage] \in (PhaseOf["STRUCTURE"] - 1)..7 /\ Phase[stage'] = PhaseOf["STRUCTURE"]
          /\ \A j \in ArtifactKinds \ {"DESIGN"} :
                PhaseOf[j] = PhaseOf["STRUCTURE"] - 1 => Signed(j)
      BY <1>2, <1>3, <2>1, <2>3, <2>4
    <2> QED
      BY <1>1, <1>2, <2>1, <2>5, MakesOne
  <1>6. CASE \E missing \in BOOLEAN : ResolveResources(missing)
    <2>7. PICK missing \in BOOLEAN : ResolveResources(missing)
      BY <1>6
    <2>1. CreateArtifact("RESOURCES", Latest("STRUCTURE"), missing, FALSE, FALSE)
          /\ UNCHANGED <<finalDesign, approval>> /\ stage' = "RESOURCES_REVIEW"
      BY <2>7 DEF ResolveResources, SaveProject, CreateDerived, Precursor
    <2>2. stage \in {"STRUCTURE_REVIEW", "RESOURCES_REVIEW"}
      BY <2>7, Entrances DEF ResolveResources, CanMove
    <2>3. Signed("STRUCTURE")
      BY <2>7, GateIsSigned DEF ResolveResources, CanMove, RequiredApproval, Signed
    <2>4. Phase[stage] \in 3..4 /\ Phase[stage'] = 4
      BY <2>1, <2>2 DEF Phase
    <2>5. /\ Phase[stage] \in (PhaseOf["RESOURCES"] - 1)..7 /\ Phase[stage'] = PhaseOf["RESOURCES"]
          /\ \A j \in ArtifactKinds \ {"DESIGN"} :
                PhaseOf[j] = PhaseOf["RESOURCES"] - 1 => Signed(j)
      BY <1>2, <1>3, <2>1, <2>3, <2>4
    <2> QED
      BY <1>1, <1>2, <2>1, <2>7, <2>5, MakesOne
  <1>7. CASE ArtDirect
    <2>1. CreateArtifact("ART_DIRECTION", Latest("RESOURCES"), FALSE, FALSE, FALSE)
          /\ UNCHANGED <<finalDesign, approval>> /\ stage' = "ART_DIRECTION_REVIEW"
      BY <1>7 DEF ArtDirect, SaveProject, CreateDerived, Precursor
    <2>2. stage \in {"RESOURCES_REVIEW", "ART_DIRECTION_REVIEW"}
      BY <1>7, Entrances DEF ArtDirect, CanMove
    <2>3. Signed("RESOURCES")
      BY <1>7, GateIsSigned DEF ArtDirect, CanMove, RequiredApproval, Signed
    <2>4. Phase[stage] \in 4..5 /\ Phase[stage'] = 5
      BY <2>1, <2>2 DEF Phase
    <2>5. /\ Phase[stage] \in (PhaseOf["ART_DIRECTION"] - 1)..7 /\ Phase[stage'] = PhaseOf["ART_DIRECTION"]
          /\ \A j \in ArtifactKinds \ {"DESIGN"} :
                PhaseOf[j] = PhaseOf["ART_DIRECTION"] - 1 => Signed(j)
      BY <1>2, <1>3, <2>1, <2>3, <2>4
    <2> QED
      BY <1>1, <1>2, <2>1, <2>5, MakesOne
  <1>8. CASE CreateDesignVersion
    <2>1. CreateArtifact("DESIGN", Latest("ART_DIRECTION"), FALSE, FALSE, FALSE)
          /\ UNCHANGED <<finalDesign, approval>>
          /\ Phase[stage] = 5 /\ Phase[stage'] = 6
      BY <1>8 DEF CreateDesignVersion, SaveProject, CreateDerived, Precursor, Phase
    <2>2. Signed("ART_DIRECTION")
      BY <1>8, GateIsSigned DEF CreateDesignVersion, CanMove, RequiredApproval, Signed
    <2>5. /\ Phase[stage] \in (PhaseOf["DESIGN"] - 1)..7 /\ Phase[stage'] = PhaseOf["DESIGN"]
          /\ \A j \in ArtifactKinds \ {"DESIGN"} :
                PhaseOf[j] = PhaseOf["DESIGN"] - 1 => Signed(j)
      BY <1>2, <1>3, <2>1, <2>2
    <2> QED
      BY <1>1, <1>2, <2>1, <2>5, MakesOne
  <1>9. CASE \E d \in Versions, passed, critical \in BOOLEAN : SaveVerification(d, passed, critical)
    <2>1. PICK d \in Versions, passed \in BOOLEAN, critical \in BOOLEAN :
              SaveVerification(d, passed, critical)
      BY <1>9
    <2>2. CreateArtifact("VERIFICATION", d, FALSE, passed, critical) /\ d \in Nat
          /\ UNCHANGED <<finalDesign, approval>>
          /\ Phase[stage] = 6 /\ Phase[stage'] = 7
      BY <1>1, <1>2, <2>1 DEF SaveVerification, SaveProject, Phase
    <2>5. /\ Phase[stage] \in (PhaseOf["VERIFICATION"] - 1)..7 /\ Phase[stage'] = PhaseOf["VERIFICATION"]
          /\ \A j \in ArtifactKinds \ {"DESIGN"} :
                PhaseOf[j] = PhaseOf["VERIFICATION"] - 1 => Signed(j)
      BY <1>2, <1>3, <2>2
    <2> QED
      BY <1>1, <1>2, <2>2, <2>1, <2>5, MakesOne
  <1> QED
    BY <1>4, <1>5, <1>6, <1>7, <1>8, <1>9

\* No operation archives a project or takes it back to where there is none.
LEMMA NextKeepsOpened == Opened /\ [Next]_vars => Opened'
  <1> SUFFICES ASSUME Opened, [Next]_vars PROVE Opened'
    OBVIOUS
  <1>1. ASSUME NEW t \in ProjectTypes, CreateProject(t) PROVE Opened'
    BY <1>1 DEF Opened, CreateProject, InsertProject, OverwriteProject
  <1>2. CASE UNCHANGED vars
    BY <1>2 DEF Opened, vars
  <1>3. CASE \/ StartAnalysis \/ Structure \/ ArtDirect \/ CreateDesignVersion
             \/ \E missing \in BOOLEAN : ResolveResources(missing)
             \/ \E d \in Versions, passed, critical \in BOOLEAN :
                    SaveVerification(d, passed, critical)
             \/ \E v \in Versions : ApproveDesign(v)
    <2>1. stage # "NONE" /\ created' = created
      BY <1>3 DEF StartAnalysis, Structure, ArtDirect, CreateDesignVersion, ResolveResources,
         SaveVerification, ApproveDesign, ProjectStages, NextStages
    <2>2. stage' # "ARCHIVED"
      BY <1>3 DEF StartAnalysis, Structure, ArtDirect, CreateDesignVersion, ResolveResources,
         SaveVerification, ApproveDesign, SaveProject
    <2> QED
      BY <2>1, <2>2 DEF Opened
  <1>4. ASSUME NEW k \in ArtifactKinds, NEW v \in Versions, Approve(k, v) PROVE Opened'
    BY <1>4 DEF Opened, Approve, projectVars
  <1> QED
    BY <1>1, <1>2, <1>3, <1>4 DEF Next

\* Every operation, and every step that is none, is one of the contract.
LEMMA NextIsAllowed ==
    ASSUME IInv, Opened, [Next]_vars
    PROVE  [Contract!ContractNext]_(Contract!contractVars)
  <1>1. ASSUME NEW t \in ProjectTypes, CreateProject(t) PROVE Contract!ContractNext
    BY <1>1, CreateIsAllowed
  <1>2. ASSUME NEW k \in ArtifactKinds, NEW v \in Versions, Approve(k, v)
        PROVE  Contract!ContractNext
    <2>1. v \in Nat
      BY MaxVersionsAssumption DEF Versions
    <2> QED
      BY <1>2, <2>1, ApproveIsAllowed
  <1>3. ASSUME NEW v \in Versions, ApproveDesign(v) PROVE Contract!ContractNext
    BY <1>3, ApproveDesignIsAllowed
  <1>4. CASE UNCHANGED vars
    BY <1>4 DEF vars, Contract!contractVars, Latest
  <1> QED
    BY <1>1, <1>2, <1>3, <1>4, MakersAreAllowed DEF Next

\* Before the first create there is nothing.
LEMMA InitIsAllowed == Init => Contract!ContractInit /\ Opened
  <1> SUFFICES ASSUME Init PROVE Contract!ContractInit /\ Opened
    OBVIOUS
  <1>1. Contract!Kinds = ArtifactKinds
    BY DEF Contract!Kinds, Contract!MadeIn, ArtifactKinds, ReviewKinds
  <1>2. \A k \in ArtifactKinds : /\ Latest(k) = 0
                                 /\ {approval[k][i] : i \in 1..Len(approval[k])} = {}
    BY DEF Init, Latest
  <1>3. {v \in 1..Latest("VERIFICATION") :
             artifact["VERIFICATION"][v].passed /\ ~artifact["VERIFICATION"][v].critical} = {}
    BY <1>2 DEF ArtifactKinds, ReviewKinds
  <1>4. Phase[stage] = 0 /\ finalDesign = 0 /\ Opened
    BY DEF Init, Phase, Opened
  <1> QED
    BY <1>1, <1>2, <1>3, <1>4 DEF Contract!ContractInit

-----------------------------------------------------------------------------
(* The theorems.                                                           *)

\* The conjunction of the invariants holds in every reachable state.
THEOREM InvariantsHold == Spec => []IInv
  BY InitIInv, NextKeepsIInv, PTL DEF Spec

\* Every table keeps its type, whatever the order of the operations.
THEOREM TypeCorrect == Spec => []TypeOK
  <1>1. IInv => TypeOK
    BY DEF IInv
  <1> QED
    BY <1>1, InvariantsHold, PTL

\* A FINAL project names its latest design, verified without critical errors
\* and approved by the user, for any number of versions of every kind.
THEOREM FinalIsVerified == Spec => []FinalDesignIsVerified
  <1>1. IInv => FinalDesignIsVerified
    BY DEF IInv
  <1> QED
    BY <1>1, InvariantsHold, PTL

\* No gate behind the project stands open on a version newer than the one
\* the user approved.
THEOREM GatesStaySigned == Spec => []PassedGatesStaySigned
  <1>1. IInv => PassedGatesStaySigned
    BY DEF IInv
  <1> QED
    BY <1>1, InvariantsHold, PTL

\* Every artifact in force was made from the artifact in force before it.
THEOREM LineageStaysCurrent == Spec => []LineageIsCurrent
  <1>1. IInv => LineageIsCurrent
    BY DEF IInv
  <1> QED
    BY <1>1, InvariantsHold, PTL

\* A project that has reached art direction rests on resources that lack
\* nothing, also after artDirect was called again.
THEOREM ResourcesStayComplete == Spec => []ResourcesAreComplete
  <1>1. IInv => ResourcesAreComplete
    BY DEF IInv
  <1> QED
    BY <1>1, InvariantsHold, PTL

\* No operation of the service skips a phase of the method.
THEOREM PhasesAreClimbed == Spec => NoPhaseSkipped
  <1>1. TypeOK /\ [Next]_vars => [Phase[stage'] <= Phase[stage] + 1]_vars
    BY NextClimbsOnePhase
  <1> QED
    BY <1>1, TypeCorrect, PTL DEF Spec, NoPhaseSkipped

\* Every operation is a step of the review contract: the service climbs the
\* phases only over signed versions, and a project goes back to its draft only
\* by a create request that is repeated with another project type.
THEOREM ContractKept == Spec => KeepsContract
  <1>1. Spec => []Opened
    BY InitIsAllowed, NextKeepsOpened, PTL DEF Spec
  <1>2. IInv /\ Opened /\ [Next]_vars => [Contract!ContractNext]_(Contract!contractVars)
    BY NextIsAllowed
  <1> QED
    BY <1>1, <1>2, InitIsAllowed, InvariantsHold, PTL
    DEF Spec, KeepsContract, Contract!ContractSpec

=============================================================================
