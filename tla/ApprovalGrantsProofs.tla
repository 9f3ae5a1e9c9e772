------------------------ MODULE ApprovalGrantsProofs ------------------------
(***************************************************************************)
(* What ApprovalGrants guarantees for any number of calls and tokens and   *)
(* under every combination of faults.                                      *)
(***************************************************************************)
EXTENDS ApprovalGrants, TLAPS

\* A call that has claimed holds the row it claimed: CLAIMED while it runs the
\* approval, and at most consumed by its own update once it is in the catch
\* block.  This is what tells a row claimed by one call from one that another
\* may claim.
HoldsItsClaim ==
    \A c \in Calls :
        /\ call[c].at \in {"claimed", "done"} => grant[call[c].token].state = "CLAIMED"
        /\ call[c].at = "failed" => grant[call[c].token].state \in {"CLAIMED", "CONSUMED"}
        /\ Busy(c) => grant[call[c].token].version = call[c].version

\* As long as no statement about a token is lost, its row tells whether it was
\* used: never while it may be claimed, nor while a call that holds it has not
\* run its approval or is about to give the row back.
UsesAreRecorded ==
    \A g \in Tokens \ lost :
        /\ uses[g] <= 1
        /\ grant[g].state \in {"none", "ISSUED"} => uses[g] = 0
        /\ \A c \in Calls :
              call[c].at \in {"claimed", "failed"} /\ call[c].token = g => uses[g] = 0

IInv ==
    /\ TypeOK
    /\ OneUseAtATime
    /\ ApprovedAsClicked
    /\ HoldsItsClaim
    /\ UsesAreRecorded

\* Before the first click there is no grant, no call and no approval.
LEMMA InitIInv == Init => IInv
  <1> SUFFICES ASSUME Init PROVE IInv
    OBVIOUS
  <1>1. 1 \in Versions
    BY GrantsAssumption DEF Versions
  <1>2. call \in [Calls -> CallStates] /\ \A c \in Calls : call[c].at = "idle"
    BY <1>1 DEF Init, CallStates
  <1>3. TypeOK
    BY <1>1, <1>2 DEF Init, TypeOK, Grants
  <1> QED
    BY <1>2, <1>3 DEF Init, IInv, OneUseAtATime, ApprovedAsClicked, HoldsItsClaim,
       UsesAreRecorded, Busy

-----------------------------------------------------------------------------
(* Steps that leave the calls alone.                                       *)

\* A step that changes no call and no row that a call may hold.
LEMMA OutsideKeepsIInv ==
    ASSUME IInv,
           \/ Supersede
           \/ \E g \in Tokens : Expire(g)
           \/ \E g \in Tokens, v \in Versions : Issue(g, v)
           \/ \E c \in Calls, g \in Tokens, v \in Versions : LoseClaim(c, g, v)
    PROVE  IInv'
  <1>1. /\ UNCHANGED <<call, approved, uses>>
        /\ grant' \in [Tokens -> Grants]
        /\ latest' \in Versions
        /\ lost \subseteq lost' /\ lost' \subseteq Tokens
    <2>1. CASE Supersede
      BY <2>1, GrantsAssumption DEF Supersede, IInv, TypeOK, Versions
    <2>2. ASSUME NEW g \in Tokens, Expire(g)
          PROVE  UNCHANGED <<latest, call, approved, uses, lost>> /\ grant' \in [Tokens -> Grants]
      BY <2>2 DEF Expire, IInv, TypeOK, Grants
    <2>3. ASSUME NEW g \in Tokens, NEW v \in Versions, Issue(g, v)
          PROVE  UNCHANGED <<latest, call, approved, uses, lost>> /\ grant' \in [Tokens -> Grants]
      BY <2>3 DEF Issue, IInv, TypeOK, Grants
    <2>4. ASSUME NEW c \in Calls, NEW g \in Tokens, NEW v \in Versions, LoseClaim(c, g, v)
          PROVE  /\ UNCHANGED <<latest, call, approved, uses>> /\ grant' \in [Tokens -> Grants]
                 /\ lost' = lost \cup {g}
      BY <2>4 DEF LoseClaim, IInv, TypeOK, Grants
    <2> QED
      BY <2>1, <2>2, <2>3, <2>4 DEF IInv, TypeOK
  <1>2. \A g \in Tokens :
            \/ grant'[g].state = grant[g].state /\ grant'[g].version = grant[g].version
            \/ grant[g].state = "none"
            \/ /\ grant[g].state = "ISSUED" /\ grant'[g].state = "CLAIMED"
               /\ grant'[g].version = grant[g].version
    BY DEF IInv, TypeOK, Supersede, Expire, Issue, LoseClaim, Claimable, Grants
  <1>3. \A c \in Calls : call[c].token \in Tokens
    BY DEF IInv, TypeOK, CallStates
  <1>4. TypeOK'
    BY <1>1 DEF IInv, TypeOK
  <1>5. OneUseAtATime'
    BY <1>1 DEF IInv, OneUseAtATime, Busy
  <1>6. HoldsItsClaim'
    BY <1>1, <1>2, <1>3 DEF IInv, TypeOK, CallStates, HoldsItsClaim, Busy
  <1>7. ApprovedAsClicked'
    BY <1>1, <1>2 DEF IInv, ApprovedAsClicked
  <1>8. UsesAreRecorded'
    <2>1. \A g \in Tokens \ lost' : grant[g].state \notin {"none", "ISSUED"} =>
              grant'[g].state \notin {"none", "ISSUED"}
      BY <1>2 DEF IInv, TypeOK, Supersede, Expire, Issue, LoseClaim, Claimable, Grants
    <2> QED
      BY <1>1, <2>1 DEF IInv, UsesAreRecorded
  <1> QED
    BY <1>4, <1>5, <1>6, <1>7, <1>8 DEF IInv

-----------------------------------------------------------------------------
(* The steps of withClaim.                                                 *)

\* The row that a call claims is held by no other: a held row is not ISSUED.
LEMMA ClaimKeepsIInv ==
    ASSUME IInv, NEW c \in Calls, NEW g \in Tokens, NEW v \in Versions, Claim(c, g, v)
    PROVE  IInv'
  <1>1. /\ grant' = [grant EXCEPT ![g].state = "CLAIMED"]
        /\ call' = [call EXCEPT ![c] = [at |-> "claimed", token |-> g, version |-> v]]
        /\ UNCHANGED <<latest, approved, uses, lost>>
        /\ grant[g].state = "ISSUED" /\ grant[g].version = v
    BY DEF Claim, Claimable
  <1>2. TypeOK'
    BY <1>1 DEF IInv, TypeOK, Grants, CallStates
  <1>3. \A d \in Calls \ {c} : call'[d] = call[d] /\ (Busy(d) => call[d].token # g)
    BY <1>1 DEF IInv, TypeOK, CallStates, HoldsItsClaim, Busy
  <1>4. /\ call'[c].token = g /\ call'[c].version = v /\ call'[c].at = "claimed"
        /\ grant'[g].state = "CLAIMED" /\ grant'[g].version = v
        /\ \A h \in Tokens \ {g} : grant'[h] = grant[h]
        /\ \A d \in Calls : call[d].token \in Tokens /\ call[d].at \in {"idle", "claimed", "done", "failed", "dropped"}
    BY <1>1 DEF IInv, TypeOK, Grants, CallStates
  <1>5. OneUseAtATime'
    BY <1>3, <1>4 DEF IInv, OneUseAtATime, Busy
  <1>6. HoldsItsClaim'
    BY <1>3, <1>4 DEF IInv, HoldsItsClaim, Busy
  <1>7. ApprovedAsClicked'
    BY <1>1, <1>4 DEF IInv, ApprovedAsClicked
  <1>8. UsesAreRecorded'
    BY <1>1, <1>3, <1>4 DEF IInv, UsesAreRecorded, Busy
  <1> QED
    BY <1>2, <1>5, <1>6, <1>7, <1>8 DEF IInv

\* A step of a call that holds a row touches that row only, and moves it only
\* as far as the call itself has come.
LEMMA StepKeepsIInv ==
    ASSUME IInv, NEW c \in Calls, Step(c)
    PROVE  IInv'
  <1> DEFINE g == call[c].token
             v == call[c].version
  <1>1. /\ g \in Tokens /\ v \in Versions /\ Busy(c)
        /\ grant[g].version = v /\ grant[g].state \in {"CLAIMED", "CONSUMED"}
        /\ call[c].at \in {"claimed", "done"} => grant[g].state = "CLAIMED"
    BY DEF IInv, TypeOK, CallStates, HoldsItsClaim, Busy, Step, Approve, LoseApprove,
       Consume, LoseConsume, Restore, LoseRestore
  <1>2. /\ latest' = latest
        /\ \E s \in {"ISSUED", "CLAIMED", "CONSUMED"} :
              grant' = [grant EXCEPT ![g].state = s]
        /\ \E a \in {"idle", "done", "failed"} : call' = [call EXCEPT ![c].at = a]
        /\ call'[c].at = "done" => grant'[g].state = "CLAIMED"
        /\ call'[c].at = "failed" => grant'[g].state \in {"CLAIMED", "CONSUMED"}
    <2>1. CASE Approve(c)
      <3>1. grant' = [grant EXCEPT ![g].state = "CLAIMED"]
        BY <2>1, <1>1 DEF Approve, IInv, TypeOK, Grants
      <3> QED
        BY <2>1, <3>1, <1>1 DEF Approve, GoTo, IInv, TypeOK, CallStates, Grants
    <2>2. CASE LoseApprove(c)
      <3>1. grant' = [grant EXCEPT ![g].state = "CLAIMED"]
        BY <2>2, <1>1 DEF LoseApprove, IInv, TypeOK, Grants
      <3> QED
        BY <2>2, <3>1, <1>1 DEF LoseApprove, GoTo, IInv, TypeOK, CallStates, Grants
    <2>3. CASE Consume(c)
      <3>1. grant' = [grant EXCEPT ![g].state = "CONSUMED"]
        BY <2>3, <1>1 DEF Consume, SetConsumed, IInv, TypeOK, Grants
      <3> QED
        BY <2>3, <3>1, <1>1 DEF Consume, GoTo, IInv, TypeOK, CallStates, Grants
    <2>4. CASE LoseConsume(c)
      <3>1. \/ grant' = [grant EXCEPT ![g].state = "CONSUMED"]
            \/ grant' = [grant EXCEPT ![g].state = "CLAIMED"]
        BY <2>4, <1>1 DEF LoseConsume, SetConsumed, IInv, TypeOK, Grants
      <3> QED
        BY <2>4, <3>1, <1>1 DEF LoseConsume, GoTo, IInv, TypeOK, CallStates, Grants
    <2>5. CASE Restore(c)
      <3>1. \E s \in {"ISSUED", "CLAIMED", "CONSUMED"} :
                grant' = [grant EXCEPT ![g].state = s]
        BY <2>5, <1>1 DEF Restore, SetIssued, IInv, TypeOK, Grants
      <3> QED
        BY <2>5, <3>1, <1>1 DEF Restore, GoTo, IInv, TypeOK, CallStates, Grants
    <2>6. CASE LoseRestore(c)
      <3>1. \E s \in {"ISSUED", "CLAIMED", "CONSUMED"} :
                grant' = [grant EXCEPT ![g].state = s]
        BY <2>6, <1>1 DEF LoseRestore, IInv, TypeOK, Grants
      <3> QED
        BY <2>6, <3>1, <1>1 DEF LoseRestore, GoTo, IInv, TypeOK, CallStates, Grants
    <2> QED
      BY <2>1, <2>2, <2>3, <2>4, <2>5, <2>6 DEF Step
  <1>3. \/ UNCHANGED <<approved, uses>>
        \/ approved' = approved \cup {v} /\ uses' = [uses EXCEPT ![g] = @ + 1]
    BY DEF Step, Approve, LoseApprove, Consume, LoseConsume, Restore, LoseRestore
  <1>4. /\ lost' = lost \/ lost' = lost \cup {g}
        /\ g \notin lost' =>
              /\ uses'[g] <= 1
              /\ grant'[g].state = "ISSUED" => uses'[g] = 0
              /\ call'[c].at \in {"claimed", "failed"} => uses'[g] = 0
    <2>1. g \notin lost => /\ uses[g] <= 1
                           /\ call[c].at \in {"claimed", "failed"} => uses[g] = 0
      BY <1>1 DEF IInv, UsesAreRecorded
    <2>2. CASE Approve(c)
      BY <2>1, <2>2, <1>1 DEF Approve, GoTo, IInv, TypeOK, CallStates, Grants
    <2>3. CASE Consume(c)
      BY <2>1, <2>3, <1>1 DEF Consume, SetConsumed, GoTo, IInv, TypeOK, CallStates, Grants
    <2>4. CASE Restore(c)
      BY <2>1, <2>4, <1>1 DEF Restore, SetIssued, GoTo, IInv, TypeOK, CallStates, Grants
    <2>5. CASE LoseApprove(c) \/ LoseConsume(c) \/ LoseRestore(c)
      BY <2>5 DEF LoseApprove, LoseConsume, LoseRestore
    <2> QED
      BY <2>2, <2>3, <2>4, <2>5 DEF Step
  <1> HIDE DEF g, v
  <1>5. /\ \A h \in Tokens \ {g} : grant'[h] = grant[h]
        /\ grant'[g].version = grant[g].version
        /\ grant'[g].state # "none"
        /\ grant' \in [Tokens -> Grants]
    BY <1>1, <1>2 DEF IInv, TypeOK, Grants
  <1>6. /\ \A d \in Calls \ {c} : call'[d] = call[d]
        /\ call'[c].token = call[c].token /\ call'[c].version = call[c].version
        /\ call'[c].at \in {"idle", "done", "failed"}
        /\ call' \in [Calls -> CallStates]
    BY <1>2 DEF IInv, TypeOK, CallStates
  <1>7. /\ uses' \in [Tokens -> Nat] /\ approved' \subseteq Versions
        /\ \A h \in Tokens : uses[h] > 0 => uses'[h] > 0
        /\ approved' # approved => uses'[g] > 0
    BY <1>1, <1>3 DEF IInv, TypeOK
  <1>8. TypeOK'
    <2>1. lost' \subseteq Tokens
      BY <1>1, <1>4 DEF IInv, TypeOK
    <2> QED
      BY <2>1, <1>2, <1>5, <1>6, <1>7 DEF IInv, TypeOK
  <1>9. OneUseAtATime'
    BY <1>1, <1>6 DEF IInv, OneUseAtATime, Busy
  <1>10. HoldsItsClaim'
    <2>1. \A d \in Calls \ {c} : Busy(d) => call[d].token # g /\ call[d].token \in Tokens
      BY <1>1 DEF IInv, OneUseAtATime, TypeOK, CallStates, g
    <2>2. \A d \in Calls \ {c} : Busy(d) => grant'[call[d].token] = grant[call[d].token]
      BY <2>1, <1>5
    <2>3. ASSUME NEW d \in Calls \ {c}
          PROVE  /\ call'[d].at \in {"claimed", "done"}
                        => grant'[call'[d].token].state = "CLAIMED"
                 /\ call'[d].at = "failed"
                        => grant'[call'[d].token].state \in {"CLAIMED", "CONSUMED"}
                 /\ call'[d].at \notin {"idle", "dropped"}
                        => grant'[call'[d].token].version = call'[d].version
      BY <2>2, <1>6 DEF IInv, HoldsItsClaim, Busy
    <2>4. /\ call'[c].at # "claimed"
          /\ call'[c].token = g /\ grant'[g].version = call'[c].version
      BY <1>1, <1>5, <1>6 DEF g, v
    <2> QED
      BY <2>3, <2>4, <1>2 DEF HoldsItsClaim, Busy
  <1>11. ApprovedAsClicked'
    <2> SUFFICES ASSUME NEW w \in approved'
                 PROVE  \E h \in Tokens :
                            grant'[h].state # "none" /\ grant'[h].version = w /\ uses'[h] > 0
      BY DEF ApprovedAsClicked
    <2>1. CASE w \in approved
      <3>1. PICK h \in Tokens : grant[h].state # "none" /\ grant[h].version = w /\ uses[h] > 0
        BY <2>1 DEF IInv, ApprovedAsClicked
      <3>2. grant'[h].state # "none" /\ grant'[h].version = w
        BY <3>1, <1>5
      <3> QED
        BY <3>1, <3>2, <1>7
    <2>2. CASE w \notin approved
      <3>1. w = v /\ uses'[g] > 0
        BY <2>2, <1>3, <1>7
      <3> QED
        BY <3>1, <1>1, <1>5
    <2> QED
      BY <2>1, <2>2
  <1>12. UsesAreRecorded'
    <2>1. \A h \in Tokens \ {g} : uses'[h] = uses[h] /\ (h \notin lost' => h \notin lost)
      BY <1>1, <1>3, <1>4 DEF IInv, TypeOK
    <2>2. \A d \in Calls \ {c} : Busy(d) => call[d].token # g
      BY <1>1 DEF IInv, OneUseAtATime, g
    <2>3. \A h \in (Tokens \ {g}) \ lost' :
              /\ uses'[h] <= 1
              /\ grant'[h].state \in {"none", "ISSUED"} => uses'[h] = 0
              /\ \A d \in Calls :
                    call'[d].at \in {"claimed", "failed"} /\ call'[d].token = h => uses'[h] = 0
      BY <2>1, <1>5, <1>6 DEF IInv, UsesAreRecorded, g
    <2>4. ASSUME g \notin lost'
          PROVE  /\ uses'[g] <= 1
                 /\ grant'[g].state \in {"none", "ISSUED"} => uses'[g] = 0
                 /\ \A d \in Calls :
                       call'[d].at \in {"claimed", "failed"} /\ call'[d].token = g
                           => uses'[g] = 0
      <3>1. /\ uses'[g] <= 1
            /\ grant'[g].state = "ISSUED" => uses'[g] = 0
            /\ call'[c].at \in {"claimed", "failed"} => uses'[g] = 0
        BY <2>4, <1>4
      <3>2. \A d \in Calls \ {c} :
                call'[d].at \in {"claimed", "failed"} => call'[d].token # g
        BY <2>2, <1>6 DEF Busy
      <3> QED
        BY <3>1, <3>2, <1>5
    <2> QED
      BY <2>3, <2>4 DEF UsesAreRecorded
  <1> QED
    BY <1>8, <1>9, <1>10, <1>11, <1>12 DEF IInv

\* A restart leaves no call that could hold a row.
LEMMA CrashKeepsIInv ==
    ASSUME IInv, Crash
    PROVE  IInv'
  <1>1. /\ UNCHANGED <<latest, grant, approved, uses, lost>>
        /\ call' = [c \in Calls |->
               [call[c] EXCEPT !.at = IF Busy(c) THEN "dropped" ELSE @]]
    BY DEF Crash
  <1>2. TypeOK'
    BY <1>1 DEF IInv, TypeOK, CallStates, Busy
  <1>3. \A c \in Calls : call'[c].at \in {"idle", "dropped"}
    BY <1>1 DEF IInv, TypeOK, CallStates, Busy
  <1> QED
    BY <1>1, <1>2, <1>3 DEF IInv, OneUseAtATime, ApprovedAsClicked, HoldsItsClaim,
       UsesAreRecorded, Busy

\* Every step keeps the invariant.
LEMMA NextKeepsIInv == IInv /\ [Next]_vars => IInv'
  <1> SUFFICES ASSUME IInv, [Next]_vars PROVE IInv'
    OBVIOUS
  <1>1. CASE \/ Supersede
             \/ \E g \in Tokens : Expire(g)
             \/ \E g \in Tokens, v \in Versions : Issue(g, v)
             \/ \E c \in Calls, g \in Tokens, v \in Versions : LoseClaim(c, g, v)
    BY <1>1, OutsideKeepsIInv
  <1>2. ASSUME NEW c \in Calls, NEW g \in Tokens, NEW v \in Versions, Claim(c, g, v)
        PROVE  IInv'
    BY <1>2, ClaimKeepsIInv
  <1>3. ASSUME NEW c \in Calls, Step(c) PROVE IInv'
    BY <1>3, StepKeepsIInv
  <1>4. CASE Crash
    BY <1>4, CrashKeepsIInv
  <1>5. CASE UNCHANGED vars
    BY <1>5 DEF vars, IInv, TypeOK, OneUseAtATime, ApprovedAsClicked, HoldsItsClaim,
       UsesAreRecorded, Busy
  <1> QED
    BY <1>1, <1>2, <1>3, <1>4, <1>5 DEF Next

\* The invariant holds in every reachable state.
LEMMA InvariantHolds == Spec => []IInv
  BY InitIInv, NextKeepsIInv, PTL DEF Spec

-----------------------------------------------------------------------------

\* Two calls never run an approval under the same token at once, whatever
\* fails and however many calls there are.
THEOREM TokensAreExclusive == Spec => []OneUseAtATime
  <1>1. IInv => OneUseAtATime
    BY DEF IInv
  <1> QED
    BY <1>1, InvariantHolds, PTL

\* No version is approved without a click for exactly that version.
THEOREM ApprovalsWereClicked == Spec => []ApprovedAsClicked
  <1>1. IInv => ApprovedAsClicked
    BY DEF IInv
  <1> QED
    BY <1>1, InvariantHolds, PTL

\* Rows, calls and approvals keep their types, whatever fails.
THEOREM TypeCorrect == Spec => []TypeOK
  <1>1. IInv => TypeOK
    BY DEF IInv
  <1> QED
    BY <1>1, InvariantHolds, PTL

\* A token serves at most one approval, wherever the server stops, as long as
\* the database carries out every statement about it.
THEOREM GrantsAreOneTime == Spec => []UsedOnceUnlessLost
  <1>1. IInv => UsedOnceUnlessLost
    BY DEF IInv, UsesAreRecorded, UsedOnceUnlessLost
  <1> QED
    BY <1>1, InvariantHolds, PTL

=============================================================================
