----------------------------- MODULE MCWorkflow -----------------------------
(***************************************************************************)
(* Workflow for TLC: one project, up to two versions of every kind, so     *)
(* that each approval can be of a superseded or of the current version.    *)
(***************************************************************************)
EXTENDS Workflow
=============================================================================
