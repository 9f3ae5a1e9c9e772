----------------------- MODULE SchemaBootstrapProofs -----------------------
(***************************************************************************)
(* Theorems about SchemaBootstrap, for any number of instances and of      *)
(* migrations.                                                             *)
(*                                                                         *)
(* The strengthening says what an instance knows: what it has read of the  *)
(* ledger is the beginning of what is recorded, and all of it while it     *)
(* applies a migration, which is why only one instance does so at a time.  *)
(***************************************************************************)
EXTENDS SchemaBootstrap, TLAPS

\* The ledger holds the numbers of the changes that were made, one by one.
RecordInv ==
    /\ recorded = 1..Len(schema)
    /\ \A n \in 1..Len(schema) : schema[n] = n
    /\ Len(schema) <= N

\* Past the ledger's creation there is a ledger, and no baseline before it.
LedgerInv ==
    /\ \A i \in Instances :
          /\ inst[i].hadLedger => ledger
          /\ inst[i].at = "creating" => ~baseline
          /\ inst[i].at \in {"reading", "migrating", "applying"} => ledger
    /\ Len(schema) > 0 => ledger
    /\ baseline => ~ledger

\* An instance at work knows the beginning of the ledger.
KnowsInv ==
    \A i \in Instances :
        inst[i].at \in {"migrating", "applying"} =>
            \E k \in 0..Len(schema) : inst[i].had = 1..k

\* An instance that applies a migration knows all of it, and is alone.
AppliesInv ==
    /\ \A i \in Instances :
          inst[i].at = "applying" => inst[i].had = recorded /\ Len(schema) < N
    /\ \A i, j \in Instances :
          inst[i].at = "applying" /\ inst[j].at = "applying" => i = j

\* What a readiness check has read was recorded.
ChecksInv ==
    \A i \in Instances :
        /\ inst[i].at = "checking" => inst[i].had \subseteq recorded
        /\ inst[i].at = "ready" => Len(schema) = N

IInv == TypeOK /\ RecordInv /\ LedgerInv /\ KnowsInv /\ AppliesInv /\ ChecksInv

-----------------------------------------------------------------------------
(* Lemmas.                                                                 *)

\* The changes applied are the first ones, as many as there are.
LEMMA AppliedIsPrefix ==
    ASSUME TypeOK, RecordInv
    PROVE  Applied = 1..Len(schema)
  BY DEF Applied, TypeOK, RecordInv, Migrations

\* An instance that knows the first k rows of the ledger goes on with k + 1.
LEMMA NextIsSuccessor ==
    ASSUME NEW i \in Instances, NEW k \in 0..N, inst[i].had = 1..k
    PROVE  /\ Pending(i) = {} <=> k = N
           /\ k < N => NextMigration(i) = k + 1
  <1>1. N \in Nat
    BY SchemaAssumption
  <1>2. Pending(i) = (k + 1)..N
    BY <1>1 DEF Pending, Migrations
  <1>3. Pending(i) = {} <=> k = N
    BY <1>1, <1>2
  <1>4. ASSUME k < N
        PROVE  NextMigration(i) = k + 1
    <2>1. k + 1 \in Pending(i) /\ \A other \in Pending(i) : k + 1 <= other
      BY <1>1, <1>2, <1>4
    <2>2. ASSUME NEW m \in Pending(i), \A other \in Pending(i) : m <= other
          PROVE  m = k + 1
      <3>1. m <= k + 1 /\ k + 1 <= m
        BY <2>1, <2>2
      <3> QED
        BY <1>1, <1>2, <3>1
    <2> QED
      BY <2>1, <2>2 DEF NextMigration
  <1> QED
    BY <1>3, <1>4

\* The changes that an instance applies are the next ones of the schema.
LEMMA AppliesTheNext ==
    ASSUME IInv, NEW i \in Instances, inst[i].at = "applying"
    PROVE  NextMigration(i) = Len(schema) + 1 /\ Len(schema) < N /\ Len(schema) \in Nat
  <1>1. Len(schema) \in Nat /\ inst[i].had = 1..Len(schema) /\ Len(schema) < N
    BY DEF IInv, TypeOK, AppliesInv, RecordInv
  <1>2. N \in Nat
    BY SchemaAssumption
  <1> QED
    BY <1>1, <1>2, NextIsSuccessor

\* The invariant implies what the module states.
LEMMA Strong ==
    ASSUME IInv
    PROVE  AppliedInOrder /\ NeverLockedOut /\ ReadyMeansComplete
  <1>1. Applied = 1..Len(schema) /\ DOMAIN schema = 1..Len(schema) /\ Len(schema) \in Nat
    BY AppliedIsPrefix DEF IInv, TypeOK
  <1>2. AppliedInOrder
    BY <1>1 DEF AppliedInOrder, IInv, RecordInv
  <1>3. NeverLockedOut
    BY <1>1 DEF NeverLockedOut, IInv, LedgerInv
  <1>4. ReadyMeansComplete
    BY <1>1 DEF ReadyMeansComplete, Complete, Migrations, IInv, ChecksInv
  <1> QED
    BY <1>2, <1>3, <1>4

-----------------------------------------------------------------------------
(* The steps.                                                              *)

\* A step that leaves the database as it is and moves one instance keeps the
\* invariant, if the instance may be where it went with what it has read.
LEMMA MoveKeeps ==
    ASSUME IInv, NEW i \in Instances, NEW record \in InstanceStates,
           inst' = [inst EXCEPT ![i] = record],
           UNCHANGED database, faulted' \in BOOLEAN,
           record.hadLedger => ledger,
           record.at = "creating" => ~baseline,
           record.at \in {"reading", "migrating", "applying"} => ledger,
           record.at \in {"migrating", "applying"} =>
               \E k \in 0..Len(schema) : record.had = 1..k,
           record.at = "applying" =>
               /\ record.had = recorded /\ Len(schema) < N
               /\ \A j \in Instances \ {i} : inst[j].at # "applying",
           record.at = "checking" => record.had \subseteq recorded,
           record.at = "ready" => Len(schema) = N
    PROVE  IInv'
  <1>1. /\ inst'[i] = record /\ \A j \in Instances \ {i} : inst'[j] = inst[j]
        /\ inst' \in [Instances -> InstanceStates]
    BY DEF IInv, TypeOK
  <1>2. baseline' = baseline /\ ledger' = ledger /\ recorded' = recorded /\ schema' = schema
    BY DEF database
  <1>3. TypeOK' /\ RecordInv'
    BY <1>1, <1>2 DEF IInv, TypeOK, RecordInv
  <1>4. LedgerInv'
    BY <1>1, <1>2 DEF IInv, LedgerInv
  <1>5. KnowsInv'
    BY <1>1, <1>2 DEF IInv, KnowsInv
  <1>6. AppliesInv'
    BY <1>1, <1>2 DEF IInv, AppliesInv
  <1>7. ChecksInv'
    BY <1>1, <1>2 DEF IInv, ChecksInv
  <1> QED
    BY <1>3, <1>4, <1>5, <1>6, <1>7 DEF IInv

\* The invariant holds at first.
LEMMA Initially == Init => IInv
  <1> SUFFICES ASSUME Init PROVE IInv
    OBVIOUS
  <1>1. inst \in [Instances -> InstanceStates]
    BY DEF Init, NewInstance, InstanceStates, Starting
  <1>2. \A i \in Instances : inst[i].at = "off" /\ inst[i].hadLedger = FALSE
    BY DEF Init, NewInstance
  <1>3. Len(schema) = 0 /\ N \in Nat
    BY SchemaAssumption DEF Init
  <1>4. TypeOK
    <2>1. <<>> \in Seq(Migrations)
      OBVIOUS
    <2> QED
      BY <1>1, <2>1 DEF Init, TypeOK
  <1>5. RecordInv
    BY <1>3 DEF Init, RecordInv
  <1>6. LedgerInv /\ KnowsInv /\ AppliesInv /\ ChecksInv
    BY <1>2, <1>3 DEF Init, LedgerInv, KnowsInv, AppliesInv, ChecksInv
  <1> QED
    BY <1>4, <1>5, <1>6 DEF IInv

\* What GoTo does to the record of the instance.
LEMMA GoToMoves ==
    ASSUME TypeOK, NEW i \in Instances, NEW p, GoTo(i, p)
    PROVE  inst' = [inst EXCEPT ![i] =
               [at |-> p, hadLedger |-> inst[i].hadLedger, had |-> inst[i].had]]
  <1>1. inst \in [Instances -> InstanceStates] /\ inst[i] \in InstanceStates
    BY DEF TypeOK
  <1>2. [inst[i] EXCEPT !.at = p] =
            [at |-> p, hadLedger |-> inst[i].hadLedger, had |-> inst[i].had]
    BY <1>1 DEF InstanceStates
  <1> QED
    BY <1>1, <1>2 DEF GoTo

\* A record of an instance with two fields replaced.
LEMMA PlaceAndHad ==
    ASSUME NEW r \in InstanceStates, NEW p, NEW x
    PROVE  [r EXCEPT !.at = p, !.had = x] = [at |-> p, hadLedger |-> r.hadLedger, had |-> x]
  <1> DEFINE moved == [r EXCEPT !.at = p]
  <1>1. moved = [at |-> p, hadLedger |-> r.hadLedger, had |-> r.had]
    BY DEF InstanceStates
  <1> HIDE DEF moved
  <1>2. [moved EXCEPT !.had = x] = [at |-> p, hadLedger |-> r.hadLedger, had |-> x]
    BY <1>1
  <1> QED
    BY <1>2 DEF moved

\* The same for another field.
LEMMA PlaceAndHadLedger ==
    ASSUME NEW r \in InstanceStates, NEW p, NEW x
    PROVE  [r EXCEPT !.at = p, !.hadLedger = x] = [at |-> p, hadLedger |-> x, had |-> r.had]
  <1> DEFINE moved == [r EXCEPT !.at = p]
  <1>1. moved = [at |-> p, hadLedger |-> r.hadLedger, had |-> r.had]
    BY DEF InstanceStates
  <1> HIDE DEF moved
  <1>2. [moved EXCEPT !.hadLedger = x] = [at |-> p, hadLedger |-> x, had |-> r.had]
    BY <1>1
  <1> QED
    BY <1>2 DEF moved

\* An instance that goes where it need know nothing keeps the invariant.
LEMMA LeavingKeeps ==
    ASSUME IInv, NEW i \in Instances, NEW p \in {"off", "serving", "listing"}, GoTo(i, p),
           UNCHANGED database, faulted' \in BOOLEAN
    PROVE  IInv'
  <1> DEFINE record == [at |-> p, hadLedger |-> inst[i].hadLedger, had |-> inst[i].had]
  <1>1. inst' = [inst EXCEPT ![i] = record]
    BY GoToMoves DEF IInv
  <1>2. record \in InstanceStates
    BY DEF IInv, TypeOK, InstanceStates, Starting
  <1>3. record.hadLedger => ledger
    BY DEF IInv, LedgerInv
  <1>4. record.at = p
    OBVIOUS
  <1> HIDE DEF record
  <1> QED
    BY <1>1, <1>2, <1>3, <1>4, MoveKeeps

\* A start, and the statements before the first migration.
LEMMA BeginningKeeps ==
    ASSUME IInv, NEW i \in Instances,
           Start(i) \/ LookForLedger(i) \/ LookForTables(i) \/ CollideOnLedger(i) \/ ReadLedger(i)
    PROVE  IInv'
  <1>0. /\ inst[i] \in InstanceStates /\ inst \in [Instances -> InstanceStates]
        /\ faulted \in BOOLEAN /\ ledger \in BOOLEAN /\ recorded \subseteq Migrations
    BY DEF IInv, TypeOK
  <1>1. CASE Start(i)
    <2>1. inst' = [inst EXCEPT ![i] = NewInstance]
      BY <1>1 DEF Start
    <2>2. NewInstance \in InstanceStates /\ NewInstance.at = "looking" /\ ~NewInstance.hadLedger
      BY DEF NewInstance, InstanceStates, Starting
    <2>3. UNCHANGED database /\ faulted' \in BOOLEAN
      BY <1>0, <1>1 DEF Start
    <2> QED
      BY <2>1, <2>2, <2>3, MoveKeeps
  <1>2. CASE LookForLedger(i)
    <2> DEFINE record == [at |-> "listing", hadLedger |-> ledger, had |-> inst[i].had]
    <2>1. [inst[i] EXCEPT !.at = "listing", !.hadLedger = ledger] = record
      BY <1>0, PlaceAndHadLedger
    <2>2. inst' = [inst EXCEPT ![i] = record]
      BY <1>0, <1>2, <2>1 DEF LookForLedger
    <2>3. record \in InstanceStates /\ record.at = "listing" /\ record.hadLedger = ledger
      BY <1>0 DEF InstanceStates, Starting
    <2>4. UNCHANGED database /\ faulted' \in BOOLEAN
      BY <1>0, <1>2 DEF LookForLedger
    <2> HIDE DEF record
    <2> QED
      BY <2>2, <2>3, <2>4, MoveKeeps
  <1>3. CASE LookForTables(i)
    <2>1. UNCHANGED database /\ faulted' \in BOOLEAN
      BY <1>0, <1>3 DEF LookForTables
    <2>2. CASE ~inst[i].hadLedger /\ (baseline \/ Applied \cap Creating # {})
      BY <1>3, <2>1, <2>2, LeavingKeeps DEF LookForTables
    <2>3. CASE ~(~inst[i].hadLedger /\ (baseline \/ Applied \cap Creating # {}))
      <3> DEFINE record ==
              [at |-> "creating", hadLedger |-> inst[i].hadLedger, had |-> inst[i].had]
      <3>1. inst' = [inst EXCEPT ![i] = record]
        BY <1>3, <2>3, GoToMoves DEF LookForTables, IInv
      <3>2. record \in InstanceStates
        BY <1>0 DEF InstanceStates, Starting
      <3>3. record.at = "creating" /\ (record.hadLedger => ledger) /\ ~baseline
        BY <2>3 DEF IInv, LedgerInv
      <3> HIDE DEF record
      <3> QED
        BY <2>1, <3>1, <3>2, <3>3, MoveKeeps
    <2> QED
      BY <2>2, <2>3
  <1>4. CASE CollideOnLedger(i)
    BY <1>0, <1>4, LeavingKeeps DEF CollideOnLedger
  <1>5. CASE ReadLedger(i)
    <2> DEFINE record == [at |-> "migrating", hadLedger |-> inst[i].hadLedger, had |-> recorded]
    <2>1. [inst[i] EXCEPT !.at = "migrating", !.had = recorded] = record
      BY <1>0, PlaceAndHad
    <2>2. inst' = [inst EXCEPT ![i] = record]
      BY <1>0, <1>5, <2>1 DEF ReadLedger
    <2>3. record \in InstanceStates /\ record.at = "migrating" /\ record.had = recorded
      BY <1>0 DEF InstanceStates, Starting
    <2>4. (record.hadLedger => ledger) /\ ledger
      BY <1>5 DEF ReadLedger, IInv, LedgerInv
    <2>5. \E k \in 0..Len(schema) : record.had = 1..k
      BY <2>3 DEF IInv, RecordInv, TypeOK
    <2>6. UNCHANGED database /\ faulted' \in BOOLEAN
      BY <1>0, <1>5 DEF ReadLedger
    <2> HIDE DEF record
    <2> QED
      BY <2>2, <2>3, <2>4, <2>5, <2>6, MoveKeeps
  <1> QED
    BY <1>1, <1>2, <1>3, <1>4, <1>5

\* The ledger is created where there is no baseline.
LEMMA CreateLedgerKeeps ==
    ASSUME IInv, NEW i \in Instances, CreateLedger(i)
    PROVE  IInv'
  <1> DEFINE record == [at |-> "reading", hadLedger |-> inst[i].hadLedger, had |-> inst[i].had]
  <1>1. inst' = [inst EXCEPT ![i] = record] /\ inst[i] \in InstanceStates
    BY GoToMoves DEF IInv, CreateLedger, TypeOK
  <1>2. record \in InstanceStates /\ record.at = "reading"
    BY <1>1 DEF InstanceStates, Starting
  <1> HIDE DEF record
  <1>3. /\ ledger' = TRUE /\ ~baseline
        /\ UNCHANGED <<baseline, recorded, schema, faulted>>
    BY DEF CreateLedger, IInv, LedgerInv
  <1>4. /\ inst'[i] = record /\ \A j \in Instances \ {i} : inst'[j] = inst[j]
        /\ inst' \in [Instances -> InstanceStates]
    BY <1>1, <1>2 DEF IInv, TypeOK
  <1>5. TypeOK' /\ RecordInv'
    BY <1>3, <1>4 DEF IInv, TypeOK, RecordInv
  <1>6. LedgerInv'
    BY <1>2, <1>3, <1>4 DEF IInv, LedgerInv
  <1>7. KnowsInv' /\ AppliesInv' /\ ChecksInv'
    BY <1>2, <1>3, <1>4 DEF IInv, KnowsInv, AppliesInv, ChecksInv
  <1> QED
    BY <1>5, <1>6, <1>7 DEF IInv

\* A migration is begun by one instance at a time, which knows the whole ledger.
LEMMA MigrateKeeps ==
    ASSUME IInv, NEW i \in Instances, Migrate(i)
    PROVE  IInv'
  <1>0. /\ inst[i] \in InstanceStates /\ faulted \in BOOLEAN
        /\ N \in Nat /\ Len(schema) \in Nat /\ Len(schema) <= N /\ recorded = 1..Len(schema)
    BY SchemaAssumption DEF IInv, TypeOK, RecordInv
  <1>1. UNCHANGED database /\ faulted' \in BOOLEAN
    BY <1>0 DEF Migrate
  <1>2. PICK k \in 0..Len(schema) : inst[i].had = 1..k
    BY DEF Migrate, IInv, KnowsInv
  <1>3. k < N /\ NextMigration(i) = k + 1
    BY <1>0, <1>2, NextIsSuccessor DEF Migrate
  <1>4. CASE NextMigration(i) \in recorded
    BY <1>1, <1>4, LeavingKeeps DEF Migrate
  <1>5. CASE NextMigration(i) \notin recorded
    <2> DEFINE record ==
            [at |-> "applying", hadLedger |-> inst[i].hadLedger, had |-> inst[i].had]
    <2>1. inst' = [inst EXCEPT ![i] = record]
      BY <1>5, GoToMoves DEF Migrate, IInv
    <2>2. record \in InstanceStates /\ record.at = "applying" /\ record.had = inst[i].had
      BY <1>0 DEF InstanceStates, Starting
    <2>3. (record.hadLedger => ledger) /\ ledger
      BY DEF Migrate, IInv, LedgerInv
    <2> HIDE DEF record
    <2>4. k = Len(schema)
      BY <1>0, <1>2, <1>3, <1>5
    <2>5. record.had = recorded /\ Len(schema) < N
      BY <1>0, <1>2, <1>3, <2>2, <2>4
    <2>6. \A j \in Instances \ {i} : inst[j].at # "applying"
      BY <1>3, <2>4, AppliesTheNext DEF Migrate, Open
    <2>7. \E n \in 0..Len(schema) : record.had = 1..n
      BY <1>2, <2>2
    <2> QED
      BY <1>1, <2>1, <2>2, <2>3, <2>5, <2>6, <2>7, MoveKeeps
  <1> QED
    BY <1>4, <1>5

\* A migration that commits is the next one, with its row of the ledger.
LEMMA PublishKeeps ==
    ASSUME IInv, NEW i \in Instances, Publish(i), faulted' \in BOOLEAN,
           NEW record \in InstanceStates, inst' = [inst EXCEPT ![i] = record],
           record.at \in {"migrating", "serving"},
           record.hadLedger = inst[i].hadLedger,
           record.at = "migrating" => record.had = inst[i].had \cup {NextMigration(i)}
    PROVE  IInv'
  <1> DEFINE n == Len(schema)
  <1>1. /\ inst[i].at = "applying" /\ NextMigration(i) = n + 1 /\ n < N /\ n \in Nat
        /\ N \in Nat /\ recorded = 1..n /\ inst[i].had = recorded /\ ledger
    BY AppliesTheNext, SchemaAssumption DEF Publish, IInv, RecordInv, AppliesInv, LedgerInv
  <1>2. schema' = Append(schema, n + 1) /\ recorded' = 1..(n + 1)
    BY <1>1 DEF Publish
  <1>3. /\ schema' \in Seq(Migrations) /\ Len(schema') = n + 1
        /\ \A m \in 1..(n + 1) : schema'[m] = m
    <2>1. schema \in Seq(Migrations) /\ n + 1 \in Migrations
      BY <1>1 DEF IInv, TypeOK, Migrations
    <2>2. schema' \in Seq(Migrations) /\ Len(schema') = n + 1
      BY <1>2, <2>1
    <2>3. \A m \in 1..n : schema'[m] = schema[m]
      BY <1>2, <2>1
    <2>4. schema'[n + 1] = n + 1
      BY <1>2, <2>1
    <2>5. \A m \in 1..(n + 1) : m \in 1..n \/ m = n + 1
      BY <1>1
    <2> QED
      BY <2>2, <2>3, <2>4, <2>5 DEF IInv, RecordInv
  <1> HIDE DEF n
  <1>4. /\ inst'[i] = record /\ \A j \in Instances \ {i} : inst'[j] = inst[j]
        /\ inst' \in [Instances -> InstanceStates]
    BY DEF IInv, TypeOK
  <1>5. \A j \in Instances \ {i} : inst[j].at # "applying"
    BY <1>1 DEF IInv, AppliesInv
  <1>6. baseline' = baseline /\ ledger' = ledger
    BY DEF Publish
  <1>7. TypeOK'
    <2>1. recorded' \subseteq Migrations
      BY <1>1, <1>2 DEF Migrations
    <2> QED
      BY <1>3, <1>4, <1>6, <2>1 DEF IInv, TypeOK
  <1>8. RecordInv'
    BY <1>1, <1>2, <1>3 DEF RecordInv
  <1>9. LedgerInv'
    BY <1>1, <1>4, <1>6 DEF IInv, LedgerInv
  <1>10. KnowsInv'
    <2>1. record.at = "migrating" => record.had = 1..(n + 1)
      <3>1. (1..n) \cup {n + 1} = 1..(n + 1)
        BY <1>1
      <3> QED
        BY <1>1, <3>1
    <2>2. ASSUME NEW j \in Instances, j # i, inst'[j].at \in {"migrating", "applying"}
          PROVE  \E k \in 0..(n + 1) : inst'[j].had = 1..k
      <3>1. PICK k \in 0..n : inst[j].had = 1..k
        BY <1>4, <2>2 DEF IInv, KnowsInv, n
      <3> QED
        BY <1>1, <1>4, <2>2, <3>1
    <2>3. n + 1 \in 0..(n + 1)
      BY <1>1
    <2> QED
      BY <1>3, <1>4, <2>1, <2>2, <2>3 DEF KnowsInv
  <1>11. AppliesInv'
    BY <1>4, <1>5 DEF AppliesInv
  <1>12. ChecksInv'
    <2>1. recorded \subseteq recorded'
      BY <1>1, <1>2
    <2>2. \A j \in Instances : inst[j].at # "ready"
      BY <1>1 DEF IInv, ChecksInv, n
    <2> QED
      BY <1>4, <2>1, <2>2 DEF IInv, ChecksInv
  <1> QED
    BY <1>7, <1>8, <1>9, <1>10, <1>11, <1>12 DEF IInv

\* COMMIT, heard or not.
LEMMA CommitKeeps ==
    ASSUME IInv, NEW i \in Instances, Commit(i) \/ LoseCommit(i)
    PROVE  IInv'
  <1>0. inst[i] \in InstanceStates /\ faulted \in BOOLEAN /\ inst \in [Instances -> InstanceStates]
    BY DEF IInv, TypeOK
  <1>1. CASE Commit(i)
    <2> DEFINE record == [at |-> "migrating", hadLedger |-> inst[i].hadLedger,
                          had |-> inst[i].had \cup {NextMigration(i)}]
    <2>1. NextMigration(i) \in Migrations
      BY <1>1, AppliesTheNext, SchemaAssumption DEF Commit, Publish, Migrations
    <2>2. [inst[i] EXCEPT !.at = "migrating", !.had = inst[i].had \cup {NextMigration(i)}] = record
      BY <1>0, PlaceAndHad
    <2>3. inst' = [inst EXCEPT ![i] = record]
      BY <1>0, <1>1, <2>2 DEF Commit
    <2>4. record \in InstanceStates
      BY <1>0, <2>1 DEF InstanceStates, Starting
    <2>5. Publish(i) /\ faulted' \in BOOLEAN
      BY <1>0, <1>1 DEF Commit
    <2>6. /\ record.at = "migrating" /\ record.hadLedger = inst[i].hadLedger
          /\ record.had = inst[i].had \cup {NextMigration(i)}
      OBVIOUS
    <2> HIDE DEF record
    <2> QED
      BY <2>3, <2>4, <2>5, <2>6, PublishKeeps
  <1>2. CASE LoseCommit(i)
    <2> DEFINE record ==
            [at |-> "serving", hadLedger |-> inst[i].hadLedger, had |-> inst[i].had]
    <2>1. inst' = [inst EXCEPT ![i] = record]
      BY <1>2, GoToMoves DEF LoseCommit, IInv
    <2>2. record \in InstanceStates
      BY <1>0 DEF InstanceStates, Starting
    <2>3. Publish(i) /\ faulted' \in BOOLEAN
      BY <1>2 DEF LoseCommit
    <2>4. record.at = "serving" /\ record.hadLedger = inst[i].hadLedger
      OBVIOUS
    <2> HIDE DEF record
    <2> QED
      BY <2>1, <2>2, <2>3, <2>4, PublishKeeps
  <1> QED
    BY <1>1, <1>2

\* The readiness check.
LEMMA CheckKeeps ==
    ASSUME IInv, NEW i \in Instances, ReadVersions(i) \/ Answer(i)
    PROVE  IInv'
  <1>0. /\ inst[i] \in InstanceStates /\ inst \in [Instances -> InstanceStates]
        /\ faulted \in BOOLEAN /\ recorded \subseteq Migrations
        /\ inst[i].hadLedger => ledger
    BY DEF IInv, TypeOK, LedgerInv
  <1>1. CASE ReadVersions(i)
    <2> DEFINE record == [at |-> "checking", hadLedger |-> inst[i].hadLedger, had |-> recorded]
    <2>1. [inst[i] EXCEPT !.at = "checking", !.had = recorded] = record
      BY <1>0, PlaceAndHad
    <2>2. inst' = [inst EXCEPT ![i] = record]
      BY <1>0, <1>1, <2>1 DEF ReadVersions
    <2>3. /\ record \in InstanceStates /\ record.at = "checking" /\ record.had = recorded
          /\ record.hadLedger => ledger
      BY <1>0 DEF InstanceStates, Starting
    <2>4. UNCHANGED database /\ faulted' \in BOOLEAN
      BY <1>0, <1>1 DEF ReadVersions
    <2> HIDE DEF record
    <2> QED
      BY <2>2, <2>3, <2>4, MoveKeeps
  <1>2. CASE Answer(i)
    <2>1. UNCHANGED database /\ faulted' \in BOOLEAN
      BY <1>0, <1>2 DEF Answer
    <2>2. CASE ~(inst[i].had = Migrations /\ Creating \subseteq Applied)
      BY <1>2, <2>1, <2>2, LeavingKeeps DEF Answer
    <2>3. CASE inst[i].had = Migrations /\ Creating \subseteq Applied
      <3> DEFINE record ==
              [at |-> "ready", hadLedger |-> inst[i].hadLedger, had |-> inst[i].had]
      <3>1. inst' = [inst EXCEPT ![i] = record]
        BY <1>2, <2>3, GoToMoves DEF Answer, IInv
      <3>2. /\ record \in InstanceStates /\ record.at = "ready"
            /\ record.hadLedger => ledger
        BY <1>0 DEF InstanceStates, Starting
      <3>3. Len(schema) = N
        <4>1. N \in recorded
          BY <1>2, <2>3, SchemaAssumption DEF Answer, IInv, ChecksInv, Migrations
        <4> QED
          BY <4>1, SchemaAssumption DEF IInv, RecordInv, TypeOK
      <3> HIDE DEF record
      <3> QED
        BY <2>1, <3>1, <3>2, <3>3, MoveKeeps
    <2> QED
      BY <2>2, <2>3
  <1> QED
    BY <1>1, <1>2

\* The invariant is inductive.
LEMMA Inductive == IInv /\ [Next]_vars => IInv'
  <1> SUFFICES ASSUME IInv, [Next]_vars PROVE IInv'
    OBVIOUS
  <1>1. CASE UNCHANGED vars
    BY <1>1 DEF vars, IInv, TypeOK, RecordInv, LedgerInv, KnowsInv, AppliesInv, ChecksInv
  <1>2. ASSUME NEW i \in Instances, Finish(i) \/ Fail(i) \/ Stop(i)
        PROVE  IInv'
    <2>1. faulted \in BOOLEAN
      BY DEF IInv, TypeOK
    <2>2. CASE Finish(i)
      BY <2>1, <2>2, LeavingKeeps DEF Finish
    <2>3. CASE Fail(i)
      BY <2>1, <2>3, LeavingKeeps DEF Fail
    <2>4. CASE Stop(i)
      BY <2>1, <2>4, LeavingKeeps DEF Stop
    <2> QED
      BY <1>2, <2>2, <2>3, <2>4
  <1> QED
    BY <1>1, <1>2, BeginningKeeps, CreateLedgerKeeps, MigrateKeeps, CommitKeeps, CheckKeeps
    DEF Next, Bootstrap

-----------------------------------------------------------------------------
(* Somebody gets through.                                                  *)

\* An instance that nothing but a fault can stop: it is about to read the ledger,
\* or has read all of it.
Leads(i) ==
    \/ inst[i].at \in {"reading", "applying"}
    \/ inst[i].at = "migrating" /\ inst[i].had = recorded

\* As long as nothing fails, there is such an instance until all is applied, and
\* before there is a ledger no instance has come to an end.
LeadInv ==
    ~baseline /\ ~faulted =>
        /\ ledger => Len(schema) = N \/ \E i \in Instances : Leads(i)
        /\ ~ledger => \A i \in Instances :
                          inst[i].at \in {"off", "looking", "listing", "creating"}

\* The invariant implies what the module states.
LEMMA LeadSuffices ==
    ASSUME IInv, LeadInv
    PROVE  SomebodyGetsThrough
  <1> SUFFICES ASSUME ~baseline, ~faulted,
                      NEW i \in Instances, inst[i].at # "off",
                      \A j \in Instances : inst[j].at \notin Starting
               PROVE  Complete
    BY DEF SomebodyGetsThrough
  <1>1. ledger
    BY DEF LeadInv, Starting
  <1>2. \A j \in Instances : ~Leads(j)
    BY DEF Leads, Starting
  <1>3. Len(schema) = N
    BY <1>1, <1>2 DEF LeadInv
  <1> QED
    BY <1>3, AppliedIsPrefix DEF Complete, Migrations, IInv

\* A step of an instance that does not lead leaves the one that leads alone.
LEMMA BystanderKeeps ==
    ASSUME IInv, LeadInv, NEW i \in Instances, ~Leads(i), UNCHANGED database,
           ~faulted' => ~faulted,
           \A j \in Instances \ {i} : inst'[j] = inst[j],
           ledger \/ inst'[i].at \in {"off", "looking", "listing", "creating"}
    PROVE  LeadInv'
  <1>1. baseline' = baseline /\ ledger' = ledger /\ recorded' = recorded /\ schema' = schema
    BY DEF database
  <1> SUFFICES ASSUME ~baseline, ~faulted'
               PROVE  /\ ledger => Len(schema) = N \/ \E j \in Instances : Leads(j)'
                      /\ ~ledger => \A j \in Instances :
                             inst'[j].at \in {"off", "looking", "listing", "creating"}
    BY <1>1 DEF LeadInv
  <1>2. ASSUME ledger, Len(schema) # N
        PROVE  \E j \in Instances : Leads(j)'
    <2>1. PICK j \in Instances : Leads(j)
      BY <1>2 DEF LeadInv
    <2> QED
      BY <1>1, <2>1 DEF Leads
  <1>3. ~ledger => \A j \in Instances :
                       inst'[j].at \in {"off", "looking", "listing", "creating"}
    BY DEF LeadInv
  <1> QED
    BY <1>2, <1>3

\* What a step does to the other instances.
LEMMA OneMoves ==
    ASSUME IInv, NEW i \in Instances,
           Start(i) \/ Bootstrap(i) \/ Stop(i) \/ ReadVersions(i) \/ Answer(i)
    PROVE  \A j \in Instances \ {i} : inst'[j] = inst[j]
  BY DEF IInv, TypeOK, Start, Bootstrap, Stop, ReadVersions, Answer, LookForLedger, LookForTables,
         CreateLedger, CollideOnLedger, ReadLedger, Migrate, Commit, Finish, GoTo

\* One that leads reads the ledger, applies what it lacks, or has it all.
LEMMA LeaderKeeps ==
    ASSUME IInv, NEW i \in Instances,
           \/ CreateLedger(i) \/ ReadLedger(i) \/ Commit(i)
           \/ Leads(i) /\ (Migrate(i) \/ Finish(i))
    PROVE  LeadInv'
  <1>0. /\ inst[i] \in InstanceStates /\ inst \in [Instances -> InstanceStates]
        /\ N \in Nat /\ Len(schema) \in Nat /\ Len(schema) <= N /\ recorded = 1..Len(schema)
        /\ inst[i].at \in {"reading", "migrating", "applying"} => ledger
    BY SchemaAssumption DEF IInv, TypeOK, RecordInv, LedgerInv
  <1> SUFFICES ledger' /\ (Len(schema') = N \/ Leads(i)')
    BY DEF LeadInv
  <1>1. CASE CreateLedger(i)
    BY <1>0, <1>1 DEF CreateLedger, GoTo, Leads
  <1>2. CASE ReadLedger(i)
    <2>1. [inst[i] EXCEPT !.at = "migrating", !.had = recorded] =
              [at |-> "migrating", hadLedger |-> inst[i].hadLedger, had |-> recorded]
      BY <1>0, PlaceAndHad
    <2>2. inst'[i] = [inst[i] EXCEPT !.at = "migrating", !.had = recorded]
      BY <1>0, <1>2 DEF ReadLedger
    <2>3. inst'[i].at = "migrating" /\ inst'[i].had = recorded
      BY <2>1, <2>2
    <2> QED
      BY <1>0, <1>2, <2>3 DEF ReadLedger, database, Leads
  <1>3. CASE Commit(i)
    <2>1. [inst[i] EXCEPT !.at = "migrating", !.had = inst[i].had \cup {NextMigration(i)}] =
              [at |-> "migrating", hadLedger |-> inst[i].hadLedger,
               had |-> inst[i].had \cup {NextMigration(i)}]
      BY <1>0, PlaceAndHad
    <2>2. inst'[i] =
              [inst[i] EXCEPT !.at = "migrating", !.had = inst[i].had \cup {NextMigration(i)}]
      BY <1>0, <1>3 DEF Commit
    <2>3. inst'[i].at = "migrating" /\ inst'[i].had = inst[i].had \cup {NextMigration(i)}
      BY <2>1, <2>2
    <2>4. recorded' = inst[i].had \cup {NextMigration(i)} /\ ledger'
      BY <1>0, <1>3 DEF Commit, Publish, IInv, AppliesInv
    <2> QED
      BY <2>3, <2>4 DEF Leads
  <1>4. ASSUME Leads(i), inst[i].at = "migrating"
        PROVE  inst[i].had = 1..Len(schema) /\ (Pending(i) = {} => Len(schema) = N)
    BY <1>0, <1>4, NextIsSuccessor DEF Leads
  <1>5. CASE Leads(i) /\ Migrate(i)
    <2>1. NextMigration(i) = Len(schema) + 1
      <3>1. Len(schema) # N
        BY <1>0, <1>4, <1>5, NextIsSuccessor DEF Migrate
      <3> QED
        BY <1>0, <1>4, <1>5, <3>1, NextIsSuccessor DEF Migrate
    <2>2. NextMigration(i) \notin recorded
      BY <1>0, <2>1
    <2>3. inst'[i].at = "applying"
      BY <1>0, <1>5, <2>2 DEF Migrate, GoTo
    <2> QED
      BY <1>0, <1>5, <2>3 DEF Migrate, database, Leads
  <1>6. CASE Leads(i) /\ Finish(i)
    BY <1>0, <1>4, <1>6 DEF Finish, database
  <1> QED
    BY <1>1, <1>2, <1>3, <1>5, <1>6

\* The invariant about the leading instance is inductive.
LEMMA LeadInductive == IInv /\ LeadInv /\ [Next]_vars => LeadInv'
  <1> SUFFICES ASSUME IInv, LeadInv, [Next]_vars PROVE LeadInv'
    OBVIOUS
  <1>0. faulted \in BOOLEAN
    BY DEF IInv, TypeOK
  <1>1. CASE UNCHANGED vars
    BY <1>1 DEF vars, LeadInv, Leads
  <1>2. ASSUME NEW i \in Instances, LoseCommit(i) \/ Fail(i)
        PROVE  LeadInv'
    BY <1>2 DEF LoseCommit, Fail, LeadInv
  <1>3. ASSUME NEW i \in Instances, Start(i) \/ Stop(i) \/ ReadVersions(i) \/ Answer(i)
        PROVE  LeadInv'
    <2>1. CASE baseline \/ faulted'
      BY <1>3, <2>1 DEF Start, Stop, ReadVersions, Answer, database, LeadInv
    <2>2. CASE ~baseline /\ ~faulted'
      <3>1. UNCHANGED database /\ ~faulted
        BY <1>0, <1>3, <2>2 DEF Start, Stop, ReadVersions, Answer
      <3>2. ~Leads(i)
        BY <1>3, <2>2 DEF Start, Stop, ReadVersions, Answer, Leads, Starting
      <3>3. ledger \/ inst'[i].at \in {"off", "looking", "listing", "creating"}
        <4>1. inst \in [Instances -> InstanceStates] /\ inst[i] \in InstanceStates
          BY DEF IInv, TypeOK
        <4>2. CASE Start(i)
          BY <4>1, <4>2 DEF Start, NewInstance
        <4>3. CASE Stop(i)
          BY <4>1, <4>3 DEF Stop, GoTo, InstanceStates
        <4>4. CASE ReadVersions(i)
          BY <4>4 DEF ReadVersions
        <4>5. CASE Answer(i)
          BY <2>2, <3>1, <4>5 DEF Answer, LeadInv
        <4> QED
          BY <1>3, <4>2, <4>3, <4>4, <4>5
      <3> QED
        BY <1>3, <3>1, <3>2, <3>3, OneMoves, BystanderKeeps
    <2> QED
      BY <2>1, <2>2
  <1>4. ASSUME NEW i \in Instances, LookForLedger(i) \/ LookForTables(i) \/ CollideOnLedger(i)
        PROVE  LeadInv'
    <2>1. UNCHANGED database /\ faulted' = faulted
      BY <1>4 DEF LookForLedger, LookForTables, CollideOnLedger
    <2>2. ~Leads(i)
      BY <1>4 DEF LookForLedger, LookForTables, CollideOnLedger, Leads
    <2>3. CASE ledger
      BY <1>4, <2>1, <2>2, <2>3, OneMoves, BystanderKeeps DEF Bootstrap
    <2>4. CASE baseline
      BY <2>1, <2>4 DEF database, LeadInv
    <2>5. CASE ~ledger /\ ~baseline
      <3>1. Applied = {}
        <4>1. Len(schema) = 0
          BY <2>5 DEF IInv, LedgerInv, TypeOK
        <4> QED
          BY <4>1, AppliedIsPrefix DEF IInv
      <3>2. inst'[i].at \in {"listing", "creating"}
        <4>1. CASE LookForLedger(i)
          <5>1. inst'[i] = [inst[i] EXCEPT !.at = "listing", !.hadLedger = ledger]
            BY <4>1 DEF LookForLedger, IInv, TypeOK
          <5>2. inst[i] \in InstanceStates
            BY DEF IInv, TypeOK
          <5> QED
            BY <5>1, <5>2, PlaceAndHadLedger
        <4>2. CASE LookForTables(i)
          BY <2>5, <3>1, <4>2 DEF LookForTables, GoTo, IInv, TypeOK, InstanceStates
        <4>3. CASE CollideOnLedger(i)
          BY <2>5, <4>3 DEF CollideOnLedger
        <4> QED
          BY <1>4, <4>1, <4>2, <4>3
      <3> QED
        BY <1>4, <2>1, <2>2, <3>2, OneMoves, BystanderKeeps DEF Bootstrap
    <2> QED
      BY <2>3, <2>4, <2>5
  <1>5. ASSUME NEW i \in Instances, CreateLedger(i) \/ ReadLedger(i) \/ Commit(i)
        PROVE  LeadInv'
    BY <1>5, LeaderKeeps
  <1>6. ASSUME NEW i \in Instances, Migrate(i) \/ Finish(i)
        PROVE  LeadInv'
    <2>1. CASE Leads(i)
      BY <1>6, <2>1, LeaderKeeps
    <2>2. CASE ~Leads(i)
      <3>1. UNCHANGED database /\ faulted' = faulted /\ ledger
        BY <1>6 DEF Migrate, Finish, IInv, LedgerInv
      <3> QED
        BY <1>6, <2>2, <3>1, OneMoves, BystanderKeeps DEF Bootstrap
    <2> QED
      BY <2>1, <2>2
  <1> QED
    BY <1>1, <1>2, <1>3, <1>4, <1>5, <1>6 DEF Next, Bootstrap

-----------------------------------------------------------------------------
(* The theorems.                                                           *)

\* In every reachable state the strengthened invariant holds.
LEMMA Always == Spec => []IInv
  BY Initially, Inductive, PTL DEF Spec

\* Type correctness.
THEOREM SchemaTypeCorrect == Spec => []TypeOK
  <1>1. IInv => TypeOK
    BY DEF IInv
  <1> QED
    BY <1>1, Always, PTL

\* Migrations are applied in their order, none twice, and the ledger says which,
\* whichever instances start, fail and stop at whatever point.
THEOREM MigrationsInOrder == Spec => []AppliedInOrder
  BY Strong, Always, PTL

\* No start leaves a database that later starts refuse, and a database with
\* tables of its own is never touched.
THEOREM StartsAreNeverLockedOut == Spec => []NeverLockedOut
  BY Strong, Always, PTL

\* /readyz answers "ready" only when every migration is applied.
THEOREM ReadyIsComplete == Spec => []ReadyMeansComplete
  BY Strong, Always, PTL

\* Of instances that start at once on an empty database one comes through, unless
\* a start fails for a reason of its own.
THEOREM OneStartSucceeds == Spec => []SomebodyGetsThrough
  <1>1. Init => LeadInv
    BY DEF Init, NewInstance, LeadInv
  <1>2. IInv /\ LeadInv => SomebodyGetsThrough
    BY LeadSuffices
  <1> QED
    BY <1>1, <1>2, LeadInductive, Always, PTL DEF Spec

=============================================================================
