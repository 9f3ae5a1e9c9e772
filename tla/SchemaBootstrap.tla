-------------------------- MODULE SchemaBootstrap --------------------------
(***************************************************************************)
(* ensureProductionSchema and the readiness answer, for instances of the   *)
(* server that start, stop and start again on one database.                *)
(*                                                                         *)
(* The container runs the bootstrap, then the server, whether or not the   *)
(* bootstrap came through: its commands are joined by ";".  So both ends   *)
(* of the bootstrap lead to "serving", and the readiness answer is what    *)
(* tells them apart.                                                       *)
(***************************************************************************)
EXTENDS Naturals, Sequences

CONSTANTS
    Instances,  \* instances of the container
    N,          \* number of migrations, numbered in their order
    Creating,   \* the migrations that create tables
    Faults      \* what may go wrong: "database", "crash"

Migrations == 1..N

ASSUME SchemaAssumption ==
    /\ N \in Nat \ {0}
    /\ Creating \subseteq Migrations /\ 1 \in Creating
    /\ Faults \subseteq {"database", "crash"}

VARIABLES
    baseline,   \* whether tables were there before the first start
    ledger,     \* whether the table of applied migrations exists
    recorded,   \* its rows
    schema,     \* the migrations whose changes are committed, in that order
    inst,       \* inst[i]: where instance i is, and what it has read
    faulted     \* whether a start has failed for a reason of its own

database == <<baseline, ledger, recorded, schema>>
vars == <<baseline, ledger, recorded, schema, inst, faulted>>

Starting == {"looking", "listing", "creating", "reading", "migrating", "applying"}

InstanceStates ==
    [at : Starting \cup {"off", "serving", "checking", "ready"},
     hadLedger : BOOLEAN, had : SUBSET Migrations]

Applied == {schema[n] : n \in DOMAIN schema}

TypeOK ==
    /\ baseline \in BOOLEAN /\ ledger \in BOOLEAN /\ faulted \in BOOLEAN
    /\ recorded \subseteq Migrations
    /\ schema \in Seq(Migrations)
    /\ inst \in [Instances -> InstanceStates]

-----------------------------------------------------------------------------

GoTo(i, place) == inst' = [inst EXCEPT ![i].at = place]

NewInstance == [at |-> "looking", hadLedger |-> FALSE, had |-> {}]

Start(i) ==
    /\ inst[i].at = "off"
    /\ inst' = [inst EXCEPT ![i] = NewInstance]
    /\ UNCHANGED <<database, faulted>>

LookForLedger(i) ==
    /\ inst[i].at = "looking"
    /\ inst' = [inst EXCEPT ![i].at = "listing", ![i].hadLedger = ledger]
    /\ UNCHANGED <<database, faulted>>

\* A slip: nothing is refused.
LookForNothing(i) ==
    /\ inst[i].at = "listing"
    /\ GoTo(i, "creating")
    /\ UNCHANGED <<database, faulted>>

\* Tables without a ledger are refused; the ledger was looked for earlier.
LookForTables(i) ==
    /\ inst[i].at = "listing"
    /\ GoTo(i, IF ~inst[i].hadLedger /\ (baseline \/ Applied \cap Creating # {})
               THEN "serving" ELSE "creating")
    /\ UNCHANGED <<database, faulted>>

CreateLedger(i) ==
    /\ inst[i].at = "creating"
    /\ ledger' = TRUE
    /\ GoTo(i, "reading")
    /\ UNCHANGED <<baseline, recorded, schema, faulted>>

\* Of two statements CREATE TABLE IF NOT EXISTS that overlap, one may fail.
CollideOnLedger(i) ==
    /\ inst[i].at = "creating"
    /\ ledger /\ ~inst[i].hadLedger
    /\ GoTo(i, "serving")
    /\ UNCHANGED <<database, faulted>>

ReadLedger(i) ==
    /\ inst[i].at = "reading"
    /\ inst' = [inst EXCEPT ![i].at = "migrating", ![i].had = recorded]
    /\ UNCHANGED <<database, faulted>>

\* Two slips: the loop runs once too often, or once too seldom.
PendingAndOneMore(i) == (1..N + 1) \ inst[i].had
PendingButTheLast(i) == (1..N - 1) \ inst[i].had

\* The migrations still to come, as far as the instance knows.
Pending(i) == Migrations \ inst[i].had
NextMigration(i) == CHOOSE m \in Pending(i) : \A other \in Pending(i) : m <= other

\* A slip: whoever is migrating is waited for, not only an open transaction.
OpenInTheLoop(i) ==
    \E j \in Instances \ {i} : inst[j].at \in {"migrating", "applying"} /\ Pending(j) # {}

\* Another instance has the changes of the same migration uncommitted.
Open(i) ==
    \E j \in Instances \ {i} :
        /\ inst[j].at = "applying"
        /\ NextMigration(j) = NextMigration(i)

\* A slip: changes that can be repeated, with a ledger row that need not be new.
MigrateRepeatedly(i) ==
    /\ inst[i].at = "migrating" /\ Pending(i) # {} /\ ~Open(i)
    /\ GoTo(i, "applying")
    /\ UNCHANGED <<database, faulted>>

\* BEGIN and the changes of a migration.  They wait for another instance that
\* makes the same ones, and fail once those are committed: tables, columns and
\* constraints exist, or the ledger row does.
Migrate(i) ==
    /\ inst[i].at = "migrating" /\ Pending(i) # {} /\ ~Open(i)
    /\ GoTo(i, IF NextMigration(i) \in recorded THEN "serving" ELSE "applying")
    /\ UNCHANGED <<database, faulted>>

\* The row of the ledger, and COMMIT.
Publish(i) ==
    /\ inst[i].at = "applying"
    /\ schema' = Append(schema, NextMigration(i))
    /\ recorded' = recorded \cup {NextMigration(i)}
    /\ UNCHANGED <<baseline, ledger>>

Commit(i) ==
    /\ Publish(i)
    /\ inst' = [inst EXCEPT ![i].at = "migrating", ![i].had = @ \cup {NextMigration(i)}]
    /\ UNCHANGED faulted

\* The final checks of ledger and tables, which only decide what is logged.
Finish(i) ==
    /\ inst[i].at = "migrating" /\ Pending(i) = {}
    /\ GoTo(i, "serving")
    /\ UNCHANGED <<database, faulted>>

-----------------------------------------------------------------------------
(* What may go wrong.                                                      *)

\* COMMIT took effect and its answer is lost.
LoseCommit(i) ==
    /\ "database" \in Faults
    /\ Publish(i)
    /\ GoTo(i, "serving") /\ faulted' = TRUE

\* A statement or the connection fails; an open transaction is rolled back.
Fail(i) ==
    /\ "database" \in Faults
    /\ inst[i].at \in Starting
    /\ GoTo(i, "serving") /\ faulted' = TRUE
    /\ UNCHANGED database

\* The container stops, in the middle of its start or later.
Stop(i) ==
    /\ "crash" \in Faults
    /\ inst[i].at # "off"
    /\ GoTo(i, "off") /\ faulted' = (faulted \/ inst[i].at \in Starting)
    /\ UNCHANGED database

-----------------------------------------------------------------------------
(* checkProductionReadiness, for /readyz.  A missing ledger is answered     *)
(* with 503 at once.                                                        *)

ReadVersions(i) ==
    /\ inst[i].at \in {"serving", "ready"}
    /\ ledger
    /\ inst' = [inst EXCEPT ![i].at = "checking", ![i].had = recorded]
    /\ UNCHANGED <<database, faulted>>

\* A slip: only the tables count.
AnswerByTables(i) ==
    /\ inst[i].at = "checking"
    /\ GoTo(i, IF Creating \subseteq Applied THEN "ready" ELSE "serving")
    /\ UNCHANGED <<database, faulted>>

Answer(i) ==
    /\ inst[i].at = "checking"
    /\ GoTo(i, IF inst[i].had = Migrations /\ Creating \subseteq Applied
               THEN "ready" ELSE "serving")
    /\ UNCHANGED <<database, faulted>>

-----------------------------------------------------------------------------

Init ==
    /\ baseline \in BOOLEAN
    /\ ledger = FALSE
    /\ recorded = {}
    /\ schema = <<>>
    /\ inst = [i \in Instances |-> [NewInstance EXCEPT !.at = "off"]]
    /\ faulted = FALSE

Bootstrap(i) ==
    \/ LookForLedger(i) \/ LookForTables(i) \/ CreateLedger(i) \/ CollideOnLedger(i)
    \/ ReadLedger(i) \/ Migrate(i) \/ Commit(i) \/ Finish(i)

Next ==
    \E i \in Instances :
        \/ Start(i) \/ Bootstrap(i) \/ LoseCommit(i) \/ Fail(i) \/ Stop(i)
        \/ ReadVersions(i) \/ Answer(i)

Spec == Init /\ [][Next]_vars

\* PostgreSQL hands a lock to the longest waiter.
FairSpec == Spec /\ \A i \in Instances : SF_vars(Bootstrap(i))

-----------------------------------------------------------------------------

Complete == Applied = Migrations

\* However many instances start at once, and wherever one stops, migrations are
\* applied in their order, none of them twice, and the ledger tells which.
AppliedInOrder ==
    /\ \A n \in DOMAIN schema : schema[n] = n
    /\ recorded = Applied

\* An interrupted start leaves nothing that later starts refuse: tables that the
\* bootstrap made are never without a ledger, and a database that had tables of
\* its own never gets one.
NeverLockedOut ==
    /\ Applied # {} => ledger
    /\ baseline => ~ledger

\* The answer of /readyz is never "ready" while a migration is missing, although
\* ledger and tables are read apart from each other and a server whose bootstrap
\* failed serves as well.
ReadyMeansComplete ==
    \A i \in Instances : inst[i].at = "ready" => Complete

\* Instances that start at once may make each other fail, but not all of them:
\* when none is starting any more, one has come through.
SomebodyGetsThrough ==
    ~baseline /\ ~faulted /\ (\E i \in Instances : inst[i].at # "off")
        /\ (\A i \in Instances : inst[i].at \notin Starting)
    => Complete

\* Every start comes to an end: no two instances wait for each other.
EveryStartEnds ==
    \A i \in Instances : inst[i].at \in Starting ~> inst[i].at \notin Starting

=============================================================================
