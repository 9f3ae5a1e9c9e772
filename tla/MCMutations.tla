----------------------------- MODULE MCMutations -----------------------------
(***************************************************************************)
(* Mutations for TLC: two calls, two create requests, and the activation   *)
(* of the base identity and of another one.                                *)
(***************************************************************************)
EXTENDS Mutations
=============================================================================
