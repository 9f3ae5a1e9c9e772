---------------------------- MODULE MCPgWorkflow ----------------------------
(***************************************************************************)
(* PgWorkflow for TLC.                                                     *)
(***************************************************************************)
EXTENDS PgWorkflow, TLC

\* Connections of the pool are interchangeable.
Connections == Permutations(Txns)

\* One version of each kind, and two of the kinds in K.
Revised(K) == [k \in ArtifactKinds |-> IF k \in K THEN 2 ELSE 1]
TwoAnalyses == Revised({"ANALYSIS"})
TwoReviews == Revised({"ANALYSIS", "STRUCTURE"})
=============================================================================
