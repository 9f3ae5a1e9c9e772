--------------------------- MODULE ApprovalGrants ---------------------------
(***************************************************************************)
(* PostgresApprovalGrantStore and the two tools around it: the click in    *)
(* the approval widget issues a grant for one artifact version, and        *)
(* approvals.approve_stage claims it, runs the approval and consumes it,   *)
(* or gives it back when the approval fails.  Claim, approval and the      *)
(* last update are separate transactions; several calls may present the    *)
(* same token, a statement may fail before or after it took effect, and    *)
(* the process may stop between any two of them.                           *)
(*                                                                         *)
(* One user, one project, one kind of artifact: a token presented for any  *)
(* other matches no row, like one presented for another version.           *)
(***************************************************************************)
EXTENDS Naturals

CONSTANTS
    Calls,        \* concurrent calls of approvals.approve_stage
    Tokens,       \* the tokens that randomBytes may yield
    Faults,       \* what may fail: "database", "crash"
    MaxVersion,   \* bound: versions of the artifact
    MaxUses       \* bound: committed approvals under one token

ASSUME GrantsAssumption ==
    /\ Faults \subseteq {"database", "crash"}
    /\ MaxVersion \in Nat \ {0} /\ MaxUses \in Nat \ {0}

VARIABLES
    latest,    \* the latest version of the artifact
    grant,     \* grant[g]: the approval_grants row of token g
    call,      \* call[c]: where call c is, with its token and version
    approved,  \* the versions with an approval row
    uses,      \* uses[g]: the approvals that committed under token g
    lost       \* the tokens for which a statement failed in the database

vars == <<latest, grant, call, approved, uses, lost>>

Versions == 1..MaxVersion

\* A row of approval_grants; "none" before the token is issued.
Grants ==
    [state : {"none", "ISSUED", "CLAIMED", "CONSUMED"},
     version : Versions, expired : BOOLEAN]

\* A call that the end of the server cut off is "dropped".
CallStates ==
    [at : {"idle", "claimed", "done", "failed", "dropped"},
     token : Tokens, version : Versions]

Busy(c) == call[c].at \notin {"idle", "dropped"}

TypeOK ==
    /\ latest \in Versions
    /\ grant \in [Tokens -> Grants]
    /\ call \in [Calls -> CallStates]
    /\ approved \subseteq Versions
    /\ uses \in [Tokens -> Nat]
    /\ lost \subseteq Tokens

-----------------------------------------------------------------------------
(* Around the store.                                                       *)

\* A new version of the artifact, which supersedes the one under review.
Supersede ==
    /\ latest < MaxVersion
    /\ latest' = latest + 1
    /\ UNCHANGED <<grant, call, approved, uses, lost>>

\* createApprovalGrantUiTool's execute: a grant for the version the widget
\* shows, whether or not it is still the latest.
Issue(g, v) ==
    /\ grant[g].state = "none"
    /\ v <= latest
    /\ grant' = [grant EXCEPT ![g] = [state |-> "ISSUED", version |-> v, expired |-> FALSE]]
    /\ UNCHANGED <<latest, call, approved, uses, lost>>

\* Five minutes pass.
Expire(g) ==
    /\ grant[g].state # "none"
    /\ grant' = [grant EXCEPT ![g].expired = TRUE]
    /\ UNCHANGED <<latest, call, approved, uses, lost>>

-----------------------------------------------------------------------------
(* withClaim.                                                              *)

\* A slip: any unexpired row of the token will do, whatever its state.
ClaimableInAnyState(g, v) ==
    /\ grant[g].state # "none" /\ ~grant[g].expired
    /\ grant[g].version = v

\* A slip: the version is not part of the WHERE clause.
ClaimableForAnyVersion(g, v) ==
    /\ grant[g].state = "ISSUED" /\ ~grant[g].expired
    /\ v \in Versions

\* The WHERE clause of the claim.
Claimable(g, v) ==
    /\ grant[g].state = "ISSUED" /\ ~grant[g].expired
    /\ grant[g].version = v

\* The claim commits and the call goes on; a claim that matches no row throws
\* and leaves no trace.
Claim(c, g, v) ==
    /\ ~Busy(c)
    /\ Claimable(g, v)
    /\ grant' = [grant EXCEPT ![g].state = "CLAIMED"]
    /\ call' = [call EXCEPT ![c] = [at |-> "claimed", token |-> g, version |-> v]]
    /\ UNCHANGED <<latest, approved, uses, lost>>

\* The claim commits and its answer is lost: the call throws.
LoseClaim(c, g, v) ==
    /\ "database" \in Faults
    /\ ~Busy(c)
    /\ Claimable(g, v)
    /\ grant' = [grant EXCEPT ![g].state = "CLAIMED"]
    /\ lost' = lost \cup {g}
    /\ UNCHANGED <<latest, call, approved, uses>>

GoTo(c, at) == call' = [call EXCEPT ![c].at = at]

\* The action, ProjectWorkflowService.approve: commits for the latest version
\* only, and throws otherwise.
Approve(c) ==
    /\ call[c].at = "claimed"
    /\ IF call[c].version = latest
       THEN /\ uses[call[c].token] < MaxUses
            /\ approved' = approved \cup {call[c].version}
            /\ uses' = [uses EXCEPT ![call[c].token] = @ + 1]
            /\ GoTo(c, "done")
       ELSE GoTo(c, "failed") /\ UNCHANGED <<approved, uses>>
    /\ UNCHANGED <<latest, grant, lost>>

\* The action fails in the database, with or without its commit.
LoseApprove(c) ==
    /\ "database" \in Faults
    /\ call[c].at = "claimed"
    /\ \/ /\ call[c].version = latest
          /\ uses[call[c].token] < MaxUses
          /\ approved' = approved \cup {call[c].version}
          /\ uses' = [uses EXCEPT ![call[c].token] = @ + 1]
       \/ UNCHANGED <<approved, uses>>
    /\ GoTo(c, "failed")
    /\ lost' = lost \cup {call[c].token}
    /\ UNCHANGED <<latest, grant>>

\* UPDATE ... SET state='CONSUMED' ... AND state='CLAIMED'.
SetConsumed(g) ==
    grant' = [grant EXCEPT ![g].state = IF @ = "CLAIMED" THEN "CONSUMED" ELSE @]

Consume(c) ==
    /\ call[c].at = "done"
    /\ SetConsumed(call[c].token)
    /\ GoTo(c, "idle")
    /\ UNCHANGED <<latest, approved, uses, lost>>

\* The update fails, before or after it took effect.  It stands in the same
\* try block as the action, so the catch block runs.
LoseConsume(c) ==
    /\ "database" \in Faults
    /\ call[c].at = "done"
    /\ SetConsumed(call[c].token) \/ UNCHANGED grant
    /\ GoTo(c, "failed")
    /\ lost' = lost \cup {call[c].token}
    /\ UNCHANGED <<latest, approved, uses>>

\* Two slips: the row is given back only if it is not claimed, or under a state
\* that the table does not know.
SetIssuedNever(g) ==
    grant' = [grant EXCEPT ![g].state = IF @ = "CONSUMED" THEN "ISSUED" ELSE @]

SetIssuedMisspelt(g) ==
    grant' = [grant EXCEPT ![g].state =
                  IF @ = "CLAIMED" /\ ~grant[g].expired THEN "RELEASED" ELSE @]

\* UPDATE ... SET state='ISSUED' ... AND state='CLAIMED' AND expires_at>=now().
SetIssued(g) ==
    grant' = [grant EXCEPT ![g].state =
                  IF @ = "CLAIMED" /\ ~grant[g].expired THEN "ISSUED" ELSE @]

\* The catch block, after which the call throws.
Restore(c) ==
    /\ call[c].at = "failed"
    /\ SetIssued(call[c].token)
    /\ GoTo(c, "idle")
    /\ UNCHANGED <<latest, approved, uses, lost>>

\* The update of the catch block fails without effect.
LoseRestore(c) ==
    /\ "database" \in Faults
    /\ call[c].at = "failed"
    /\ GoTo(c, "idle")
    /\ lost' = lost \cup {call[c].token}
    /\ UNCHANGED <<latest, grant, approved, uses>>

\* The server stops and starts again; only the tables survive.
Crash ==
    /\ "crash" \in Faults
    /\ call' = [c \in Calls |->
           [call[c] EXCEPT !.at = IF Busy(c) THEN "dropped" ELSE @]]
    /\ UNCHANGED <<latest, grant, approved, uses, lost>>

-----------------------------------------------------------------------------

Init ==
    /\ latest = 1
    /\ grant = [g \in Tokens |-> [state |-> "none", version |-> 1, expired |-> FALSE]]
    /\ call \in [Calls -> [at : {"idle"}, token : Tokens, version : {1}]]
    /\ approved = {}
    /\ uses = [g \in Tokens |-> 0]
    /\ lost = {}

Step(c) ==
    \/ Approve(c) \/ LoseApprove(c)
    \/ Consume(c) \/ LoseConsume(c)
    \/ Restore(c) \/ LoseRestore(c)

Next ==
    \/ Supersede \/ Crash
    \/ \E g \in Tokens : Expire(g)
    \/ \E g \in Tokens, v \in Versions : Issue(g, v)
    \/ \E c \in Calls, g \in Tokens, v \in Versions : Claim(c, g, v) \/ LoseClaim(c, g, v)
    \/ \E c \in Calls : Step(c)

Spec == Init /\ [][Next]_vars

\* The event loop runs the continuation of every call that has begun; nobody
\* has to make one.
FairSpec == Spec /\ \A c \in Calls : WF_vars(Step(c))

-----------------------------------------------------------------------------

\* Two calls never hold the same token at the same time, however often claims
\* fail, are given back and claimed again: the claimed row is the lock under
\* which the approval runs.
OneUseAtATime ==
    \A c, d \in Calls :
        c # d /\ Busy(c) /\ Busy(d) => call[c].token # call[d].token

\* Every approval was clicked for: a grant for exactly that version exists.
ApprovedAsClicked ==
    \A v \in approved :
        \E g \in Tokens : grant[g].state # "none" /\ grant[g].version = v /\ uses[g] > 0

\* The grant is one-time: no token serves two approvals ...
UsedOnce == \A g \in Tokens : uses[g] <= 1

\* ... which holds as long as the database carries out every statement about
\* the token and says so, wherever the server stops.
UsedOnceUnlessLost == \A g \in Tokens \ lost : uses[g] <= 1

\* The claim of a call comes to an end, in CONSUMED, back in ISSUED or with its
\* expiry, unless the server stopped under that call or the database failed it.
EveryClaimSettles ==
    \A c \in Calls, g \in Tokens :
        Busy(c) /\ call[c].token = g ~>
            \/ grant[g].state # "CLAIMED" \/ grant[g].expired
            \/ call[c].at = "dropped" \/ g \in lost

=============================================================================
