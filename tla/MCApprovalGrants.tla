-------------------------- MODULE MCApprovalGrants --------------------------
(***************************************************************************)
(* ApprovalGrants for TLC: two tokens, two calls, and two versions, so     *)
(* that a token may be for a superseded one.                               *)
(***************************************************************************)
EXTENDS ApprovalGrants
=============================================================================
