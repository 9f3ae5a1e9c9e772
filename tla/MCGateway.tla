----------------------------- MODULE MCGateway -----------------------------
(***************************************************************************)
(* Gateway for TLC.                                                        *)
(***************************************************************************)
EXTENDS Gateway, TLC

CONSTANTS c1, c2

Token(kid, nbf, exp, scopes, sound) ==
    [sub |-> "ana", kid |-> kid, nbf |-> nbf, exp |-> exp, scopes |-> scopes, sound |-> sound]

\* A token under each key, one that expires and one that is not valid at once,
\* with a scope the server does not know.
SomeTokens ==
    {Token("k1", 0, 2, {"write"}, TRUE), Token("k2", 1, 9, {"approve", "admin"}, TRUE)}

SomeTools == {"projects.create", "approvals.approve_stage"}

TwoCalls == {c1, c2}
Either == Permutations(TwoCalls)
=============================================================================
