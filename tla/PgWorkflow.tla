----------------------------- MODULE PgWorkflow -----------------------------
(***************************************************************************)
(* The same operations as concurrent PostgreSQL transactions, statement by *)
(* statement: PostgresProjectRepository runs each operation in one READ    *)
(* COMMITTED transaction, so every SELECT sees what is committed when it   *)
(* runs, a row that was written stays locked until its transaction ends,   *)
(* and the only guard against a lost update is the revision a project      *)
(* UPDATE must match.  A transaction may be rolled back at any statement:  *)
(* an error the service throws, a lost connection, a crash of the server.  *)
(*                                                                         *)
(* As in Workflow there is one project, and the owner is the only caller.  *)
(***************************************************************************)
EXTENDS StageMachine, Sequences, FiniteSets

CONSTANTS
    Txns,          \* the connections of the pool that serve this project
    NoTxn,         \* no transaction
    ProjectTypes,  \* the project types a user may ask for
    MaxVersions    \* bound: MaxVersions[k] versions of artifact kind k

ASSUME TxnsAssumption == NoTxn \notin Txns
ASSUME TypesAssumption == "none" \notin ProjectTypes
ASSUME BoundAssumption == MaxVersions \in [ArtifactKinds -> Nat \ {0}]

VARIABLES
    row,       \* the committed projects row: stage, rev, final
    artifact,  \* artifact[k]: the committed versions of kind k
    approval,  \* approval[k]: the approval rows, committed or pending
    created,   \* the types whose project-create key is committed
    holder,    \* the transaction that has the lock on the projects row
    txn        \* txn[t]: the local state of transaction t

vars == <<row, artifact, approval, created, holder, txn>>
tables == <<row, artifact, approval, created>>

\* The statements of each operation after its first SELECT, in the order in
\* which the service issues them.  The snapshot that `move` takes before each
\* UPDATE reads every kind; only the reads that the guard of the stage entered
\* looks at are kept.  "finish" is the insert of the artifact and the second
\* UPDATE, on a row that the transaction has locked by then.
Program ==
    [CreateProject    |-> <<"upsert", "commit">>,
     StartAnalysis    |-> <<"update", "finish", "commit">>,
     Approve          |-> <<"sign", "commit">>,
     Structure        |-> <<"latest", "approved", "update", "finish", "commit">>,
     ResolveResources |-> <<"latest", "approved", "update", "finish", "commit">>,
     ArtDirect        |-> <<"complete", "latest", "approved", "update", "finish",
                            "commit">>,
     CreateDesign     |-> <<"latest", "approved", "update", "finish", "commit">>,
     SaveVerification |-> <<"design", "update", "finish", "commit">>,
     ApproveDesign    |-> <<"load", "latest", "approved", "verdict", "update",
                            "latest", "approved", "verdict", "update", "save",
                            "commit">>]

Operations == DOMAIN Program

\* The operations that move a project: whence the service lets them start,
\* the stage they pass through, the stage they end in, and the artifact made.
Moves ==
    [StartAnalysis    |-> [from |-> {"DRAFT", "ANALYSIS_REVIEW"},
                           via |-> "ANALYZING", end |-> "ANALYSIS_REVIEW",
                           kind |-> "ANALYSIS"],
     Structure        |-> [from |-> ProjectStages,
                           via |-> "STRUCTURING", end |-> "STRUCTURE_REVIEW",
                           kind |-> "STRUCTURE"],
     ResolveResources |-> [from |-> ProjectStages,
                           via |-> "RESOLVING_RESOURCES", end |-> "RESOURCES_REVIEW",
                           kind |-> "RESOURCES"],
     ArtDirect        |-> [from |-> ProjectStages,
                           via |-> "ART_DIRECTING", end |-> "ART_DIRECTION_REVIEW",
                           kind |-> "ART_DIRECTION"],
     CreateDesign     |-> [from |-> {"ART_DIRECTION_REVIEW"},
                           via |-> "GENERATING", end |-> "GENERATED",
                           kind |-> "DESIGN"],
     SaveVerification |-> [from |-> {"GENERATED"},
                           via |-> "VERIFYING", end |-> "VERIFICATION_REVIEW",
                           kind |-> "VERIFICATION"],
     ApproveDesign    |-> [from |-> ProjectStages,
                           via |-> "APPROVED", end |-> "FINAL",
                           kind |-> "VERIFICATION"]]

-----------------------------------------------------------------------------
(* The tables.                                                             *)

NoRow == [stage |-> "NONE", rev |-> 0, final |-> 0]

\* An artifact: the version of the design it verifies (0 for other kinds), and
\* whether the gate behind it may open on it: RESOURCES that lack nothing, a
\* VERIFICATION that passed without critical errors.
Artifacts == [design : Nat, good : BOOLEAN]

\* An approval row, and the transaction that inserted it while that has not
\* committed.  Ids are drawn at the insert, so the order of the rows is that
\* of the inserts and not of the commits.  Only their order counts: here the
\* rows of a kind are numbered without gaps.
ApprovalRows == [id : Nat, v : Nat, by : Txns \cup {NoTxn}]

Latest(k) == Len(artifact[k])

NextId(k) == Cardinality(approval[k]) + 1

CommittedRows(k) == {r \in approval[k] : r.by = NoTxn}

\* getApprovedVersion: of the committed rows the one with the highest id.
ApprovedVersion(k) ==
    IF CommittedRows(k) = {} THEN 0
    ELSE (CHOOSE r \in CommittedRows(k) : \A s \in CommittedRows(k) : s.id <= r.id).v

CommittedApprovals(k) == {r.v : r \in CommittedRows(k)}

-----------------------------------------------------------------------------
(* Transactions.  at is the place of the next statement in the program;    *)
(* copy is the projects row as t last read or wrote it; arg and good are   *)
(* the call's arguments; seen is the version read last; made is the        *)
(* artifact t inserted, of version 0 while there is none.                  *)

Idle ==
    [op |-> "idle", at |-> 0, copy |-> NoRow, arg |-> 0, kind |-> "DESIGN",
     good |-> FALSE, type |-> "none", seen |-> 0, made |-> 0]

At(t, statement) ==
    txn[t].op # "idle" /\ Program[txn[t].op][txn[t].at] = statement

\* The rows t inserted into approvals disappear with its rollback.
WithoutRowsOf(t) ==
    LET kept == [k \in ArtifactKinds |-> {r \in approval[k] : r.by # t}]
        Rank(r, k) == Cardinality({q \in kept[k] : q.id <= r.id})
    IN  [k \in ArtifactKinds |-> {[r EXCEPT !.id = Rank(r, k)] : r \in kept[k]}]

\* ROLLBACK: nothing t wrote remains and its locks are free.
Rollback(t) ==
    /\ txn' = [txn EXCEPT ![t] = Idle]
    /\ approval' = WithoutRowsOf(t)
    /\ holder' = IF holder = t THEN NoTxn ELSE holder
    /\ UNCHANGED <<row, artifact, created>>

\* t goes on to its next statement, with the changes f to its local state.
Continue(t, f) ==
    txn' = [txn EXCEPT ![t] = [f EXCEPT !.at = @ + 1]]

\* A SELECT of t: it goes on if the service accepts what was read, and throws
\* otherwise.
Select(t, accepted, f) ==
    IF accepted
    THEN Continue(t, f) /\ UNCHANGED <<tables, holder>>
    ELSE Rollback(t)

\* BEGIN and the first SELECT of an operation.  A call that throws at once
\* leaves no trace and is no step.
Begin(t, op, f) ==
    /\ txn[t].op = "idle"
    /\ txn' = [txn EXCEPT ![t] = [f EXCEPT !.op = op, !.at = 1]]
    /\ UNCHANGED <<tables, holder>>

\* createProject: reserving its idempotency key waits for the transaction
\* that has the key, and returns the stored result once that has committed.
CallCreate(t, type) ==
    /\ type \notin created
    /\ \A u \in Txns : txn[u].type # type
    /\ Begin(t, "CreateProject", [Idle EXCEPT !.type = type])

\* approve: the project exists and v is the latest version of kind k.
CallApprove(t, k, v) ==
    /\ v = Latest(k)
    /\ Begin(t, "Approve", [Idle EXCEPT !.kind = k, !.arg = v])

\* loadProjectContext accepts the row as it is now for an operation that moves
\* the project: there is one, in a stage that the operation can start from.
CanStart(op) ==
    /\ row.stage \in Moves[op].from
    /\ Moves[op].via \in AllowedTransitions(row.stage)

\* An operation that makes an artifact: arg is the design it verifies, good
\* what the artifact will say.
CallMove(t, op, arg, good) ==
    /\ CanStart(op)
    /\ Latest(Moves[op].kind) < MaxVersions[Moves[op].kind]
    /\ Begin(t, op, [Idle EXCEPT !.kind = Moves[op].kind, !.copy = row,
                                 !.arg = arg, !.good = good])

\* approveDesign reads the version last approved, and the design it names,
\* before it loads the project.
CallApproveDesign(t, v) ==
    /\ v # 0 /\ v = ApprovedVersion("VERIFICATION")
    /\ artifact["VERIFICATION"][v].design \in 1..Latest("DESIGN")
    /\ Begin(t, "ApproveDesign", [Idle EXCEPT !.kind = "VERIFICATION", !.arg = v])

Call(t) ==
    \/ \E type \in ProjectTypes : CallCreate(t, type)
    \/ \E k \in ReviewKinds : \E v \in 1..Latest(k) : CallApprove(t, k, v)
    \/ \E op \in {"StartAnalysis", "Structure", "ArtDirect", "CreateDesign"} :
           CallMove(t, op, 0, TRUE)
    \/ \E good \in BOOLEAN : CallMove(t, "ResolveResources", 0, good)
    \/ \E d \in 1..Latest("DESIGN"), good \in BOOLEAN :
           CallMove(t, "SaveVerification", d, good)
    \/ \E v \in 1..Latest("VERIFICATION") : CallApproveDesign(t, v)

\* approveDesign's loadProjectContext.
Load(t) ==
    /\ At(t, "load")
    /\ Select(t, CanStart("ApproveDesign"), [txn[t] EXCEPT !.copy = row])

\* The stage t enters with its next UPDATE, and the kind whose approval that
\* stage requires.
Target(t) ==
    LET m == Moves[txn[t].op]
    IN  IF txn[t].copy.stage = m.via THEN m.end ELSE m.via

GateOf(t) == RequiredApproval[Target(t)]

\* The two reads that snapshot makes of the kind in question, one after the
\* other, and isCurrentVersionApproved.
ReadLatest(t) ==
    /\ At(t, "latest")
    /\ Select(t, Latest(GateOf(t)) # 0,
              [txn[t] EXCEPT !.seen = Latest(GateOf(t))])

ReadApproved(t) ==
    /\ At(t, "approved")
    /\ Select(t, ApprovedVersion(GateOf(t)) = txn[t].seen, [txn[t] EXCEPT !.seen = 0])

\* snapshot's read of the payload of the latest verification.
ReadVerdict(t) ==
    /\ At(t, "verdict")
    /\ Select(t, artifact["VERIFICATION"][Latest("VERIFICATION")].good, txn[t])

\* artDirect: the latest resources lack nothing.
ReadResources(t) ==
    /\ At(t, "complete")
    /\ Select(t, Latest("RESOURCES") # 0 => artifact["RESOURCES"][Latest("RESOURCES")].good,
              txn[t])

\* saveVerification: the design is the latest.
ReadDesign(t) ==
    /\ At(t, "design")
    /\ Select(t, txn[t].arg = Latest("DESIGN"), txn[t])

\* A slip: the row does not say which transaction it belongs to.
InsertApprovalUnowned(t) ==
    /\ At(t, "sign")
    /\ approval' = [approval EXCEPT ![txn[t].kind] =
                        @ \cup {[id |-> NextId(txn[t].kind), v |-> txn[t].arg]}]
    /\ Continue(t, txn[t])
    /\ UNCHANGED <<row, artifact, created, holder>>

\* u has inserted or updated the approval row that t is about to upsert.
AwaitsRowOf(t, u) ==
    /\ txn[u].op = "Approve" /\ txn[u].at = 2
    /\ txn[u].kind = txn[t].kind /\ txn[u].arg = txn[t].arg

\* saveApproval: INSERT ... ON CONFLICT DO UPDATE.  It waits for an open
\* transaction that has upserted the same key; a row that exists keeps its id.
InsertApproval(t) ==
    LET k == txn[t].kind
        same == {r \in approval[k] : r.v = txn[t].arg}
    IN  /\ At(t, "sign")
        /\ \A u \in Txns \ {t} : ~AwaitsRowOf(t, u)
        /\ approval' = IF same # {} THEN approval
                       ELSE [approval EXCEPT ![k] =
                                 @ \cup {[id |-> NextId(k), v |-> txn[t].arg, by |-> t]}]
        /\ Continue(t, txn[t])
        /\ UNCHANGED <<row, artifact, created, holder>>

\* The local state of t after an UPDATE of the projects row.
Wrote(t, stage, final) ==
    [txn[t] EXCEPT !.copy = [stage |-> stage, rev |-> @.rev + 1, final |-> final]]

\* A slip: the UPDATE does not look at the revision.
UpdateRowBlindly(t, final) ==
    /\ holder \in {NoTxn, t}
    /\ holder' = t
    /\ Continue(t, Wrote(t, Target(t), final))
    /\ UNCHANGED tables

\* UPDATE projects ... WHERE revision = expected: waits for the row lock and
\* then looks at the committed row again; zero rows is PROJECT_REVISION_CONFLICT.
UpdateRow(t, final) ==
    /\ holder \in {NoTxn, t}
    /\ IF holder = t \/ row.rev = txn[t].copy.rev
       THEN /\ holder' = t
            /\ Continue(t, Wrote(t, Target(t), final))
            /\ UNCHANGED tables
       ELSE Rollback(t)

UpdateStage(t) ==
    /\ At(t, "update")
    /\ UpdateRow(t, txn[t].copy.final)

\* approveDesign's last save, in the stage already reached.
SaveFinal(t) ==
    /\ At(t, "save")
    /\ holder = t
    /\ Continue(t, Wrote(t, txn[t].copy.stage, artifact["VERIFICATION"][txn[t].arg].design))
    /\ UNCHANGED <<tables, holder>>

\* A slip: MAX where the code has MAX + 1.
FinishOnTop(t) ==
    /\ At(t, "finish")
    /\ Continue(t, [Wrote(t, Target(t), txn[t].copy.final) EXCEPT
                        !.made = IF Latest(txn[t].kind) = 0 THEN 1 ELSE Latest(txn[t].kind)])
    /\ UNCHANGED <<tables, holder>>

\* createArtifactVersion, which takes the advisory lock of the kind and then
\* MAX + 1, and the move to the stage the operation ends in.
Finish(t) ==
    LET k == txn[t].kind
    IN  /\ At(t, "finish")
        /\ \A u \in Txns \ {t} : txn[u].kind = k => txn[u].made = 0
        /\ Continue(t, [Wrote(t, Target(t), txn[t].copy.final) EXCEPT !.made = Latest(k) + 1])
        /\ UNCHANGED <<tables, holder>>

\* createProject's saveProject without an expected revision: inserts the row,
\* or resets it whatever its revision, which stays as it is.
UpsertProject(t) ==
    /\ At(t, "upsert")
    /\ holder = NoTxn
    /\ holder' = t
    /\ Continue(t, [txn[t] EXCEPT !.copy = [stage |-> "DRAFT", rev |-> row.rev, final |-> 0]])
    /\ UNCHANGED tables

\* A slip: the connection goes back to the pool with its transaction open.
CommitNever(t) ==
    /\ At(t, "commit")
    /\ txn' = [txn EXCEPT ![t] = Idle]
    /\ UNCHANGED <<tables, holder>>

\* COMMIT: everything t wrote becomes visible at once.
Commit(t) ==
    LET k == txn[t].kind
    IN  /\ At(t, "commit")
        /\ row' = IF holder = t THEN txn[t].copy ELSE row
        /\ artifact' =
               IF txn[t].made = 0 THEN artifact
               ELSE [artifact EXCEPT ![k] = Append(@,
                        [design |-> txn[t].arg, good |-> txn[t].good])]
        /\ approval' = [j \in ArtifactKinds |->
               {IF r.by = t THEN [r EXCEPT !.by = NoTxn] ELSE r : r \in approval[j]}]
        /\ created' = created \cup (ProjectTypes \cap {txn[t].type})
        /\ holder' = IF holder = t THEN NoTxn ELSE holder
        /\ txn' = [txn EXCEPT ![t] = Idle]

\* The transaction fails between two statements.
Fail(t) ==
    /\ txn[t].op # "idle"
    /\ Rollback(t)

-----------------------------------------------------------------------------

Init ==
    /\ row = NoRow
    /\ artifact = [k \in ArtifactKinds |-> <<>>]
    /\ approval = [k \in ArtifactKinds |-> {}]
    /\ created = {}
    /\ holder = NoTxn
    /\ txn = [t \in Txns |-> Idle]

Statement(t) ==
    \/ Load(t) \/ ReadLatest(t) \/ ReadApproved(t) \/ ReadVerdict(t)
    \/ ReadResources(t) \/ ReadDesign(t)
    \/ InsertApproval(t) \/ UpdateStage(t) \/ SaveFinal(t) \/ Finish(t)
    \/ UpsertProject(t) \/ Commit(t)

Next == \E t \in Txns : Call(t) \/ Statement(t) \/ Fail(t)

Spec == Init /\ [][Next]_vars

\* PostgreSQL executes the statements it is sent and gives a released lock to
\* the one that has waited longest, so a statement that can run again and
\* again is run; nothing forces a user to make a call.
FairSpec == Spec /\ \A t \in Txns : SF_vars(Statement(t))

-----------------------------------------------------------------------------
(* What must hold.                                                         *)

Transactions ==
    [op : Operations \cup {"idle"}, at : Nat,
     copy : [stage : ProjectStages \cup {"NONE"}, rev : Nat, final : Nat],
     arg : Nat, kind : ArtifactKinds, good : BOOLEAN,
     type : ProjectTypes \cup {"none"}, seen : Nat, made : Nat]

TypeOK ==
    /\ row \in [stage : ProjectStages \cup {"NONE"}, rev : Nat, final : Nat]
    /\ artifact \in [ArtifactKinds -> Seq(Artifacts)]
    /\ approval \in [ArtifactKinds -> SUBSET ApprovalRows]
    /\ created \subseteq ProjectTypes
    /\ holder \in Txns \cup {NoTxn}
    /\ txn \in [Txns -> Transactions]

\* A version number that a transaction has computed is still the next one
\* when it commits, and nobody else computes it: the unique key on project
\* and version number is never violated, and no version is overwritten.
NoVersionCollision ==
    \A t \in Txns :
        txn[t].made # 0 =>
            /\ txn[t].made = Latest(txn[t].kind) + 1
            /\ \A u \in Txns \ {t} : txn[u].kind = txn[t].kind => txn[u].made = 0

\* t waits for u: for its lock on the projects row, for its approval row of the
\* same key, for its advisory lock on the kind.
WaitsFor(t, u) ==
    /\ t # u
    /\ \/ (At(t, "update") \/ At(t, "upsert")) /\ holder = u
       \/ At(t, "sign") /\ AwaitsRowOf(t, u)
       \/ At(t, "finish") /\ txn[u].kind = txn[t].kind /\ txn[u].made # 0

\* Whoever is waited for is at work and waits for nobody: no operation asks for
\* a lock that another could have in exchange for one of its own, so there is
\* no deadlock, and a wait is over when one transaction ends.
NobodyWaitsForAWaiter ==
    \A t, u \in Txns :
        WaitsFor(t, u) => txn[u].op # "idle" /\ \A w \in Txns : ~WaitsFor(u, w)

\* An approval that becomes effective is of the latest version of its kind.
NoSupersededApproval ==
    [][\A k \in ArtifactKinds :
           \A v \in CommittedApprovals(k)' \ CommittedApprovals(k) : v = Latest(k)]_vars

\* Every call ends: no two transactions wait for each other's row, approval
\* or advisory lock.
EveryCallEnds ==
    \A t \in Txns : txn[t].op # "idle" ~> txn[t].op = "idle"

\* The committed tables, as ReviewContract sees them.
Contract ==
    INSTANCE ReviewContract WITH
        MayStartOver <- FALSE,
        phase    <- Phase[row.stage],
        versions <- [k \in ArtifactKinds |-> Latest(k)],
        signed   <- [k \in ArtifactKinds |-> CommittedApprovals(k)],
        passing  <- {v \in 1..Latest("VERIFICATION") : artifact["VERIFICATION"][v].good},
        final    <- row.final

\* Every commit is one step the contract allows and nothing else is visible:
\* the interleavings of READ COMMITTED reads, row locks, rollbacks and late
\* approvals never open a gate that the user has not signed, as long as no
\* create request is repeated with another project type.
KeepsContract == Contract!ContractSpec

=============================================================================
