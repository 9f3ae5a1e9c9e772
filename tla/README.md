# Visual 4D Studio in TLA+

Visual 4D Studio turns an idea into a design in phases (analysis, structure,
resources, art direction, design, verification), each reviewed and approved by
the user before the next one may begin. A language model calls the phases as
MCP tools; a TypeScript service enforces the order, PostgreSQL holds the state,
and a production server puts OAuth, one-time approval grants and a rate limit
around it. This directory models that code, checks the models with TLC and
proves the most important properties with TLAPS. Paths below are relative to
the repository.

## 1. Inventory

| Component | State it keeps | Operations | Where |
|---|---|---|---|
| state machine | none (pure) | `canTransition`, `transition`, the guards of a stage | `packages/state-machine` |
| workflow service | none of its own; works on the repository | `createProject`, `startAnalysis`, `approve`, `structure`, `resolveResources`, `artDirect`, `createDesignVersion`, `saveVerification`, `approveDesign`, `activateIdentity` | `packages/services` |
| Postgres repository | tables: projects, one per artifact kind, approvals, institutions, identities, idempotency keys; a pool of 10 connections | reads, `saveProject` (optimistic revision), `createArtifactVersion`, `saveApproval`, `runIdempotentMutation` (one READ COMMITTED transaction per operation) | `packages/postgres-repository`, `database/migrations` |
| memory repository | the same in maps, without transactions | the same interface, for tests and the local server | `packages/repositories` |
| approval grants | table `approval_grants`: ISSUED, CLAIMED, CONSUMED, five minutes to live | `issue` (from the approval widget), `withClaim` (around `approve`) | `services/mcp-server/src/approval-grants.ts`, `approval-ui-bridge.ts` |
| OAuth broker | two maps in memory: pending authorizations, pending tokens | `/oauth/register`, `/authorize`, `/callback`, `/token`, `cleanup` | `services/mcp-server/src/oauth-broker.ts` |
| production server | rate limit buckets; per request: verified token, scopes | routing, limiter, scope policy, `execute` of a tool | `production-server.ts`, `tool-scope-policy.ts` |
| token verification | the cached key set and its expiry | `verify` | `production-jwt.ts`, `oidc-discovery.ts`, `production-auth.ts` |
| schema bootstrap | the migrations ledger and the tables | `ensureProductionSchema`, `checkProductionReadiness` | `ensure-production-schema.ts`, `production-readiness.ts` |
| layout engine, renderer, asset binding, identity style, provenance, render service | none (pure) | solve and validate a layout, place the texts, bind a hero image, apply an identity, validate, wrap text, draw | `packages/*`, `services/mcp-server/src/render-tool.ts` |
| domain checks | none (pure) | owners, institutions, formats, master assets | `packages/domain` |
| schemas, app widget page, website, docs, scripts | none | | |

How they interact. A tool call reaches the workflow service after the server
has checked the token, the rate limit and the scope. The service runs every
operation inside `runIdempotentMutation`: one database transaction on one
connection, in which it reads the project, takes a snapshot of the latest and
the approved version of every kind, checks the guards of the stage, inserts an
artifact and updates the project row under the revision it read. `approve` is
only reached through `withClaim`, which claims a one-time grant in a
transaction of its own before and consumes it in another one after. The OAuth
broker runs beside that in the same process and shares nothing with it. The
render preview is a tool like the others and touches neither the service nor the
database: its arguments pass through five packages, each with checks of its own.

What is hard in this code:

* *Interleavings of transactions.* READ COMMITTED lets every statement of an
  operation see another state. Only the revision of the project row, the unique
  keys and one advisory lock stand against lost updates.
* *Long sequences of legal calls.* Reviews are sent back, versions superseded,
  old versions approved, projects created twice.
* *Failures between transactions.* Claim, approval and consumption of a grant
  are three transactions; any of them may fail, or succeed and lose its answer,
  and the server may stop in between.
* *Repeated and concurrent HTTP requests* against maps that expire and that a
  restart empties, with a handler that waits in the middle.
* *State read before a wait.* A request fetches the key set when the cached one has
  expired, any number of them at once, and the answers come in any order; meanwhile
  tokens expire, keys rotate and minutes end.
* *Bounds*: pool size, rate limit, expiry, text that does not fit.
* *Checks in a row*: what one package makes must be what the next one accepts.

What makes each component correct:

* workflow: a final design is the latest one and rests on a favourable, approved
  verification of it; no gate is passed on anything but the approved current
  version; no phase is skipped; nothing rests on a superseded version.
* repository: concurrent transactions look like the workflow's operations one
  at a time, version numbers do not collide, every call ends.
* grants: one use at a time, one use in all, for the version that was clicked.
* broker: a consent is redeemed once, in time, by the client that asked for it.
* gateway: nobody gets in on an expired token or a key long withdrawn, a rotated key
  is known in time, the rate limit is exact.
* rendering: a request without fault is drawn, in its boxes, legibly, and nothing is
  left out silently.

The hazards, each at its line and with the properties aimed at it, are listed in
`PROJECT.json`.

## 2. Modules

| Module | What it models | Code |
|---|---|---|
| `StageMachine` | stages, transitions, guards, as constants and operators | `state-machine/src/index.ts` |
| `Workflow` | the operations of the service on one project, each one committed step | `services/src/index.ts` over `postgres-repository/src/index.ts` |
| `PgWorkflow` | the same operations as concurrent transactions, one step per statement | the same |
| `ReviewContract` | the abstract specification: phases, versions, signatures | what both of the above promise |
| `WorkflowProofs` | theorems about `Workflow` | |
| `PgWorkflowProofs` | theorems about `PgWorkflow` and, through it, about the contract | |
| `ApprovalGrants` | `PostgresApprovalGrantStore` with the widget and the tool around it | `approval-grants.ts`, `approval-ui-bridge.ts` |
| `ApprovalGrantsProofs` | theorems about it | |
| `OAuthBroker` | the two maps of the broker under concurrent requests | `oauth-broker.ts` |
| `OAuthBrokerProofs` | theorems about it | |
| `OncePerRequest` | the abstract specification of idempotency | what `runIdempotentMutation` promises |
| `Mutations` | idempotency keys, the connection pool, the bootstrap of institution and identity, `activateIdentity` | `postgres-repository/src/index.ts`, `services/src/index.ts`, migration 0006 |
| `MutationsProofs` | theorems about it | |
| `SchemaBootstrap` | instances that migrate one database at the same time, and the readiness answer | `ensure-production-schema.ts`, `production-readiness.ts`, `Dockerfile.production` |
| `SchemaBootstrapProofs` | theorems about it | |
| `Gateway` | concurrent requests before the verdict, the cached key set, key rotation, the rate limit, the scope of a tool, start and restart | `production-server.ts`, `production-jwt.ts`, `production-auth.ts`, `oidc-discovery.ts`, `tool-scope-policy.ts` |
| `GatewayProofs` | theorems about it | |
| `LayoutEngine` | the layout solver, its text constraints and its validator, as operators | `layout-engine/src/index.ts` |
| `Rendering` | one call of the render preview, from its arguments to the lines of a text | `render-tool.ts`, `render-service`, `renderer`, `asset-binding`, `identity-style`, `provenance` |
| `RenderingProofs` | theorems about it and about `LayoutEngine` | |
| `MCWorkflow`, `MCPgWorkflow`, `MCApprovalGrants`, `MCOAuthBroker`, `MCMutations`, `MCSchemaBootstrap`, `MCGateway`, `MCRendering` | the instances for TLC | |

### StageMachine and Workflow

`Workflow` has the row of one project (`stage`, `projectType`, `revision`,
`finalDesign`), the versions of each kind (`artifact[k]`, a sequence, so that
version n is element n), the approval rows of each kind in the order of their
ids (`approval[k]`), and the create requests that have completed (`created`).
One project is enough, because every read of an operation is by project id. An
operation that throws is rolled back with its idempotency key, so it is not a
step; a replay of a completed request returns the stored result and is a
stutter. `status` is a function of the stage and is left out; calls by a user
who is not the owner throw before the first write and are left out.

Each operation is one action with the name it has in the service. It contains
both calls of `move` (`CanMove`, with the guards that `StageMachine` takes from
`assertStageGuards`), the artifact and the saves of the row. `Approve` keeps the
id of an approval that is already there, as the upsert of `saveApproval` does;
`ApprovedVersion` is the row with the highest id, which need not be the highest
version. `CreateProject` has the two outcomes of the upsert: the id of a project
is a hash of user and request id, while the idempotency key also holds the
project type, so the same request with another type runs again on the same row.

A payload keeps what guards and properties look at: missing resources, the
verdict, and `on`, the version of the preceding artifact. Only a verification
stores that (`designVersionId`); for the other kinds `on` is history, recorded to
state `LineageIsCurrent`.

### PgWorkflow

The same operations, cut at the statements that matter. `txn[t]` is the local
state of the transaction on connection t: the operation, the place of its next
statement (`at`, in its `Program`), the row as it last read or wrote it (`copy`), the
arguments, the version it read last, the version number it drew. The committed tables are
`row`, `artifact`, `approval`, `created`; `holder` is the row lock. A SELECT sees
what is committed when it runs. `UpdateRow` waits for the row lock and then
compares the revision with the committed row, as PostgreSQL does for an UPDATE
that had to wait. `InsertApproval` waits for an open transaction that has
inserted or updated the row of the same key, and its row has its id from the insert, not
from the commit; the rows of a kind are a set numbered without gaps, since only the
order of the ids is ever looked at. `WaitsFor` names these waits. `Finish` takes
the advisory lock of the kind and MAX + 1. `Commit` publishes everything at once,
and `Fail` rolls back anywhere: an error, a lost connection, a stopped server.
Reads that the next guard does not look at are left out of `Program`, and the
insert and second UPDATE, which run under locks already held, are one step.

### ReviewContract

The promise without stages, rows or transactions: `Make(k)` makes a version of
a kind in the next phase or again in one already reached, and needs a signature
on the latest version of the kind before it; `Sign`; `Close` needs a signed,
favourable latest verification; `StartOver` exists only where a create request
can be repeated with another type. `Workflow` and `PgWorkflow` are both shown to
implement it (`KeepsContract`): every step of theirs maps to one contract step or
to a stutter under the mapping at the end of each module.

### ApprovalGrants

`grant[g]` is the row of token g, `call[c]` a call of `approvals.approve_stage`
on its way through `withClaim`. `Claim`, `Approve`, `Consume` and `Restore` are the
transactions of the code. Each has a `Lose...` twin for a statement that fails,
before or after it took effect, and `Crash` stops the server between any two of
them. `Issue` takes any version that exists, as the production widget does; the
check that the version is the latest comes with `Approve`. `Faults` says which
failures a run has, `lost` for which tokens the database failed a statement: a
grant can only serve twice (`grants_reuse`) if one of its own was.

### OAuthBroker

`begun` and `codes` record the upstream states and downstream codes drawn so far
(random in the code, numbered here, so that guessing one is left out), the two
maps are sets of entries, `request[r]` is where a token request is. `/authorize`
and `/callback` run without a pause and are one step each; `/token` pauses while
it reads its body and while it waits for the upstream answer, so it has three.
`Fresh` is `cleanup`, which every request calls first; `TokenRead` does not call
it again, and its code is spent before the upstream endpoint answers.
`Restart` empties both maps.

### OncePerRequest and Mutations

`OncePerRequest` says that a request is carried out at most once and that every
answer is the result of that time. `Mutations` is how that is done: `call[c]` is a
call on its way through `inTransaction` and `runIdempotentMutation`, with the
connections it holds; `queue` is who waits for a connection; `completed` holds the
committed idempotency rows. An open reservation is not a variable of its own: it
is the call that is past `Reserve` with the same key, which is what the INSERT of
another call waits for. `Serve` hands a connection to the longest waiter.

Two mutations are shown in full, because they take what the others do not: a
second connection and the row of the institution. `createProject` stores its user
over `pool.query` (`StoreUser`), reads the institution, and makes institution and
base identity if there is none (`Bootstrap`), or activates the base identity;
`activateIdentity` reads and activates (`Activate`). From the row lock to COMMIT
nothing another call does can be seen, so all updates under it are one step; what
was read before the lock may be stale, and is in the model. `Fail` rolls back at
any statement, `LoseCommit` commits without an answer, `Crash` stops the server.
`AddIdentity` stands for whoever adds identity versions; no code here does.

### SchemaBootstrap

`inst[i]` is a container that starts: it looks for the ledger, then for tables,
creates the ledger, reads it and applies what it has not seen there, each migration
in a transaction. `schema` is the sequence of migrations whose changes are
committed, `recorded` the ledger, `baseline` whether the database had tables of its
own. DDL waits for another instance that has the same changes uncommitted and fails
once they are committed, whether its tables exist (0001 to 0005) or only its ledger
row does (0006, which can be repeated). Both ends of the bootstrap lead to
`"serving"`: the command of `Dockerfile.production` joins bootstrap, preflight and
export by `&&`, but the server by `;`, so it starts after a failed bootstrap too,
with a negative readiness answer and a positive health check. (`start:mcp:production`
in `package.json` has `&&` in that place.) `faulted` tells whether a start failed
for a reason other than another instance.

### Gateway

`call[c]` is a request to `/mcp` on its way through `authenticateProductionBearer`,
the limiter and the tool. It waits in one place before it is judged, `keys()`:
`Arrive` takes the cached keys or begins a fetch, `IssuerAnswers` fixes the keys an
answer holds, `KeysArrive` is the assignment to `cache` when it is received, which
may be after that of a later fetch. From there to the limiter nothing waits, so
`Reject`, `Limit` and `Admit` are one step each. `cache` expires a `Ttl` after the
request that filled it asked, as the code takes `now` before the fetch. `clock` and
`minute` advance together in `Tick`; the minute need not. The issuer publishes and
withdraws keys (`since`, `until`); a token is its claims, with `sound` for the checks
that depend on neither time nor keys. `Dispatch` is the scope check of the tool
handler. `passed` is history, to say what the limit means. `Restart` drops the cache,
the buckets and every request; `Boot` discovers the key set's address.

### Rendering

`step` is how far `render` has come, `spec` the elements of the RenderSpec; `Parse`,
`Create`, `Bind` and `Style` go on or refuse, by `Advance`. A text is the sequence of
the lengths of its words, which is all that `wrapText` looks at. `Draw` picks one of
the texts, any of them, and `Word` is one round of the loop of `wrapText`; `Close` is what
follows the loop, the ellipsis included. `LeftEdge`, `RightEdge` and `Baseline` say where
`renderSvg` puts a line, with the width of a character that `wrapText` counts with, in
units that keep them integers. Whether two colours contrast enough comes with the
request (`legible`), as does whether a field has its type (`typed`). It extends
`LayoutEngine`, so that the boxes are the ones the solver gives.

### LayoutEngine

`Solve` is `solveNineSixteenFlyer`, `Valid` is `validateLayoutSpec`. `Math.round` of
the products with 0.82, 0.76, 0.50 and 0.54 is integer division with halves going up;
none of the four products is within 0.01 of a half, so floating point makes no
difference.

## 3. Runs

| Run | Instance | Question and answer |
|---|---|---|
| `workflow` | 2 versions of each kind, 2 project types; 30 954 states | In every order of operations the gates hold, lineage is current, resources in force lack nothing, and the contract is kept; so no phase is skipped. |
| `workflow_reset` | 1 version, 2 types | Violated: a create request with another type takes a FINAL project back to DRAFT. |
| `pg` | 2 connections, 2 versions of the first two kinds, 1 type; 183 154 states | Concurrent transactions keep the contract, never collide on a version number and never wait for one that waits itself; under fairness every call ends. |
| `pg_stale_approval` | 2 connections, 2 analyses | Violated: an approval commits for a version that has been superseded since it was checked. |
| `grants` | 2 calls, 2 tokens, 2 versions, database failures and crashes; 77 692 states | One use at a time, only for the version clicked, crashes alone never lead to a second use, and every claim is settled unless its call was cut off. |
| `grants_reuse` | 2 calls, 1 token, database failures | Violated: a grant whose approval committed is given back when its CONSUMED update fails, and serves again. |
| `oauth` | 2 flows, 2 token requests, 2 states, time to live 1, clock to 3; 157 872 states up to symmetry | A consent is redeemed once, by the flow that began it, in time. |
| `mutations` | 2 calls, 2 create requests, 2 identities, 2 results, 3 connections, database failures and crashes; 180 522 states | Every request is carried out once, one identity is active, no COMMIT lacks its user, every call ends. |
| `mutations_pool` | 2 calls, 2 connections | Violated: two project creations hold both connections and wait for a third. |
| `schema` | 3 instances, 3 migrations of which the third creates no table, with and without a baseline, database failures and stops; 179 256 states | Migrations are applied once and in order, interrupted starts can be resumed, simultaneous starts do not all fail, "ready" is true, every start ends. |
| `gateway` | 2 requests at a time, 2 tokens of one user under 2 keys, time to live 2, clock to 3, limits 0 and 2, 2 tools; 2 584 073 states up to symmetry | Admission is on a token valid then, under a key not withdrawn for a time to live; a key published that long ago is known; the limit is exact. |
| `rendering` | all 540 intents with long texts, all headlines of up to 4 words of 5 lengths at 3 sizes, all assets, identities of 6 colour pairs; 54 790 states | Only faulty requests are refused; a text is cut exactly when it ends in an ellipsis; lines stay in their boxes; colours were checked against what lies under them. |

Bounds. Two versions of a kind are what it takes for an approval to be of a
superseded or of the current version; a third adds no case to a guard, which
only compares for equality with the latest. Two connections give every pair of
operations every interleaving; a race of three would need three operations that
all pass the same revision, and the first commit excludes the others. In `pg` the
two kinds with a second version are those whose gate and whose successor's gate
can be reopened within the state space; `workflow` has the second version of all.
Two tokens and two calls give both a race for one token and two tokens for one
version. Two upstream states, two flows and two requests give a code presented
twice, a code of another flow, and two transactions at once; a clock to 3 with a
time to live of 1 lets a transaction expire at each of its stages. `MaxUses`
bounds the counter of uses and nothing else. In `mutations` three connections are
one more than two waiting calls hold, so the pool does not decide the outcome there
(`LargePoolNeverStarves` says the same of any number), and `mutations_pool` has the pool as large as the number
of calls, as ten calls meet ten connections; a call repeats a request of the other or
an earlier one of its own, two results tell a second execution from the first, and two
identities are needed for one to be overtaken by the other. In `schema` three
instances are one that leads, one that is stale and one that is new; three migrations
are one that makes an empty database recognisable, one that follows a partial start,
and one that the tables do not show. In `gateway` a time to live of 2 and a clock to 3
let two fetches overlap, the earlier answer arrive last, and the key set it leaves be
used before it expires; one token expires and one is not valid yet within that time; a
limit of 0 and one of 2 are the boundary where the first request of a minute passes
anyway and the first limit that two requests can reach together. The tokens are of
one user, because buckets of different users never meet. In `rendering` a behaviour
is one call and the bounds are on its arguments only: intents are complete, four words
reach every line count of a headline, and lengths are chosen below, at and above a line;
the sizes of an image are those around the limit. CHECK_DEADLOCK is off everywhere:
a project that is final, with all versions made and approved, really is at rest, and so is a drawing.
That no *call* is stuck is what `EveryCallEnds` says.

Symmetry: connections, calls, tokens, token requests and requests are only compared
for equality. No run that checks liveness uses it.

Fairness. `pg` assumes strong fairness of the statements of each
connection: PostgreSQL runs what it is sent and hands a lock to the longest
waiter. `grants` assumes weak fairness of the continuation of a call: the
event loop runs it. `mutations` assumes weak fairness of the pool, which hands a free
connection to whoever waits first, and strong fairness of a call that goes on, `schema`
strong fairness of the statements of a start: both wait for locks that PostgreSQL gives
to the longest waiter. Nothing makes a user call anything, and failures are never
assumed to happen or to stop.

### Findings

* `workflow_reset`: `createProject` keys its idempotency by type and its row by request
  only. The upsert leaves the revision of the row alone, so a transaction that read it
  before the reset still passes the revision check; `PgWorkflow` has that step when
  there are two project types, and then does not keep the contract. It is checked with one.
* `pg_stale_approval`: the check that an approved version is the latest and the
  insert of the approval are two statements. The gate stays shut (`KeepsContract`
  holds in `pg`), but the record says that a superseded version was approved, and
  that row may hide a good one from `getApprovedVersion`.
* `grants_reuse`: the CONSUMED update stands inside the `try` whose `catch` gives
  the grant back.
* `mutations_pool`: `ensurePersistentActor` takes a second connection while its
  transaction holds one. Ten creations at once stop the server's mutations for good:
  the pool has ten connections and no timeout.

Not a finding of a run, but seen while modelling: the server that starts after a
failed bootstrap (`SchemaBootstrap` above); of two instances that start at once on an
empty database one may refuse the other's tables as a foreign baseline
(`SomebodyGetsThrough` says why that does no lasting harm); a first `createProject`
that read "no institution" resets the identity that was activated meanwhile
(`ActiveIdentityIsUnique` holds, the later activation is lost); a failed verification
leads nowhere, since the only transition out of its review needs one that passed; a
limit of 0 admits the first request of every minute (`LimitIsExact` says so); a headline of
LOW prominence has 56 pixels a line and a region of 150, so its third line is drawn
outside, over the hero if that is below (`TextStaysInItsBox` excepts it); the
label on the hero is in a colour that was checked against the background only
(`ReadableText` excepts it); the last line of a text holds one word if the text is cut
there, because `wrapText` leaves its loop when that line begins; and the size of an image
counts its padding, which refuses one of 8 000 000 bytes, the limit itself.

## 4. Proofs

Everything below is proved for any number of versions, types, calls, tokens,
flows and requests; the assumptions are the named ones of the modules (the bounds
are natural numbers, the sets of project types and transactions are sane, the base
identity is one of the identities, the pool is not empty).

`WorkflowProofs`: type correctness, `FinalDesignIsVerified`, `PassedGatesStaySigned`,
`LineageIsCurrent`, `ResourcesAreComplete` (invariants), `NoPhaseSkipped` (action
property, which the contract implies and no run repeats), and `KeepsContract`, the implementation of `ReviewContract`, for any types and
bounds. The stated invariants are not inductive one by one: that a final
design is verified needs that the gate of the verification is signed and that its
lineage is current, and that a gate stays signed needs that approvals are only of
versions that exist and that a stage says which kinds have one. `IInv` is their
conjunction with those facts. Each operation has a lemma; `Approve` and
`CreateProject` keep the stage or lower it, the others climb to the next phase or
back, and lemmas about the stages say which gates lie behind each. For the contract one
more fact is needed (`Opened`): a project that does not exist yet has nothing that a
first create request could reset.

`PgWorkflowProofs`: every safety property of the run `pg`, for any number of connections and
versions. The argument has two layers.

* *The lock* (`BaseInv`). The holder of the row lock is exactly the transaction that has
  written the projects row (`Written`, a place in its program), and a version number is
  drawn after that place. Hence `NoVersionCollision`: the row lock alone already keeps
  two transactions from drawing one number, and the advisory lock is a second line of
  defence. Hence also `NobodyWaitsForAWaiter`: a transaction waits for the projects row
  before it has any lock, for an approval row only in `approve`, which has no other lock,
  and for the advisory lock of a kind only while it has the row lock, when nobody else
  can have drawn a number. Neither needs an assumption on the project types.
* *What a transaction knows* (`DeepInv`). From the read of the row until the first UPDATE a
  transaction knows nothing for certain, but it knows something *if* the committed row still has
  the revision it read: the row is the one it read, and each statement of the guards that
  it has passed (the latest version seen, its approval, the verdict, the design) is still
  true of the committed tables, because whoever made it false has also moved the row. The
  UPDATE compares the revision, so after it these facts hold without the *if*, and they stay
  true until COMMIT because nobody else can commit a version without the lock. That is
  what makes each commit one step of the contract. Pending approval rows belong to a
  transaction at its COMMIT, for a version that exists.

`KeepsContract` is proved under `OneType`: create requests are repeated with one project type
only. That is the condition under which the run checks it, and it cannot be dropped: with
two types the second creation resets the row without changing its revision (see the
findings), and a transaction that read the row before then commits on a draft.
`PhasesStayEarned` draws the conclusion for concurrent transactions that
`WorkflowProofs` draws for one at a time (`PhasesAreEarned` in `ReviewContract`): whatever
was sent back, made again or approved late, the latest version of every kind
behind the phase reached is approved, and a final design is the latest one under a
favourable verification.

The highest id of a set of approval rows exists because the set is finite. The library's
induction theorems take an operator and cannot be used here; `SetInduction` does for
them: if a set has 0 and with a number its successor, and m were missing, then the successor
would map the finite set of its members below m into itself, one to one but not onto (0 is
not a successor), against the pigeonhole facts of `FiniteSetTheorems`.

`ApprovalGrantsProofs`: `TypeOK`, `OneUseAtATime`, `ApprovedAsClicked`, `UsedOnceUnlessLost`,
under every combination of faults. The strengthening is `HoldsItsClaim`: the row of a call
that has claimed is CLAIMED while it runs the approval and at most CONSUMED once it
is in the catch block, so it is never ISSUED and no other call can claim it. For the single use,
`UsesAreRecorded` adds that a row about which nothing was lost tells whether the
token was used.

`OAuthBrokerProofs`: `TypeOK`, `ExchangedOnce`, `TokensReachTheirFlow`, `NoExpiredExchange`. The
strengthening follows a state through its life: pending authorization, code sent
out, exchanged, in one place at a time (`PlacesInv`), each entry knowing the flow
and time its state was drawn for; and a request that is reading its body saw every
pending token fresh when it arrived (`RequestsInv`).

`MutationsProofs`: `TypeOK`, `ActiveIdentityIsUnique`, `CommitFindsUser`, and `KeepsOnce`, the
implementation of `OncePerRequest`. The strengthening: two calls past the reservation
have different keys, and those keys are not completed (`KeysInv`); at most one call has
written the institution, and what it will publish has one active identity (`RowInv`);
a call past `StoreUser` finds its user (`UserInv`); who waits in the queue, once, lacks
a connection (`QueueInv`, `ConnsInv`). `LargePoolNeverStarves` adds that fewer calls than
connections never starve: by counting, someone holds one and waits for none.

`SchemaBootstrapProofs`: every invariant of the run `schema`. The strengthening: what an
instance has read is the beginning of the ledger, and all of it while it applies a
migration, so only one instance does (`KnowsInv`, `AppliesInv`). For `SomebodyGetsThrough`
there is always an instance that leads: it is about to read the ledger or knows all
of it, and only a fault stops it (`LeadInv`).

`GatewayProofs`: every property of the run `gateway`. For the keys the strengthening
(`KeyInv`) dates every key set, whether in the cache, in an answer or with a request:
it was asked for at a known time, holds every key that had been published by then and
is still published, and none that had been withdrawn before; the cache is never used a
`Ttl` after that time. For the limit (`LimitInv`) the bucket of a user agrees with `passed` in the
current minute, and is of an earlier one otherwise. Both are proved for any number of
requests, tokens, users and keys and any time to live and limit.

`RenderingProofs`: `EveryIntentIsValid` of the layout engine, by the band each region lies in,
and every property of the run `rendering`, for texts of any
length. The strengthening (`IInv`) says for each step what the elements are (`Stage`): the placed texts of
the request, with the hero image in its placeholder's box, and their colours; that
is what makes the next check pass. While a text is wrapped every finished line fits or is one
word (`Lines`), and the box of a text is wide and high enough for its font and lines,
which follows from the intent, region by region. For `CutsAreMarked` the code compares
lengths where the property counts words; `CutInv` says that the lengths of the words taken so
far, as a partial sum (a recursive function, with the set induction above for what
it adds up to), are those of the lines and the one in hand.

Only model-checked: the liveness properties `EveryCallEnds` (of `PgWorkflow` and `Mutations`),
`EveryClaimSettles` and `EveryStartEnds`, since liveness under fairness is outside what the
prover does here; for `PgWorkflow`, `NobodyWaitsForAWaiter` is the part of it that is safety.
The properties of the four runs that expect a violation are false, and have no theorem.

## 5. Plan

In this order, the most important behaviour first:

1. *done* workflow, its transactions, their contract; grants; broker.
2. *done* `Mutations`: idempotency under retries and concurrent repeats, the second
   connection of `createProject`, institution and identity; `OncePerRequest`.
3. *done* `SchemaBootstrap` with the readiness answer; `LayoutEngine`.
4. *done* proofs of the invariants of these modules, and of the refinement of
   `OncePerRequest`.
5. *done* `Gateway`: rate limiter and key cache under concurrent requests, a clock, and
   key rotation, with proofs.
6. *done* `Rendering`: the render preview and its checks, `wrapText` on bounded and, by proof, on
   any texts.
7. *done* Proofs: both workflow modules implement `ReviewContract`; version numbers do not
   collide and waits do not chain in `PgWorkflow`; cuts are marked in `Rendering`.
8. The memory repository at the level of awaits, compared with the workflow.

## 6. Not modelled

Cryptography (PKCE, RS256, token hashes: a value is matched or not), HTTP parsing
and routing, URL and origin checks, JSON schemas,
the SVG syntax, contrast as a formula over colours, the widget page, the development server with its in-memory grant
store, `/oauth/register` and refresh (they keep no state), the website, scripts and
CI. Guards that hold by configuration (1080 x 1920, portrait) are not modelled
either: no operation changes what they look at. The memory repository is the double of
tests and of the local server; production runs on PostgreSQL, over which the service
is modelled.
