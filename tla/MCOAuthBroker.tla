--------------------------- MODULE MCOAuthBroker ---------------------------
(***************************************************************************)
(* OAuthBroker for TLC: two interchangeable token requests.                *)
(***************************************************************************)
EXTENDS OAuthBroker, TLC

Symmetry == Permutations(Requests)
=============================================================================
