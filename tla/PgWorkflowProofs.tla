-------------------------- MODULE PgWorkflowProofs --------------------------
(***************************************************************************)
(* What the interleaved transactions keep, for any number of connections.  *)
(* The base invariant is about the locks: whoever has written the projects *)
(* row has its lock, and a version number is drawn only by such a          *)
(* transaction.  The second invariant follows what a transaction has read  *)
(* until it commits: a row read at the committed revision is the committed *)
(* row, and what a current transaction has seen still holds.  From both,   *)
(* every commit is a step of ReviewContract.                               *)
(***************************************************************************)
EXTENDS PgWorkflow, FiniteSetTheorems, TLAPS

-----------------------------------------------------------------------------
(* Induction, for sets: a set that has 0 and with a number its successor   *)
(* has them all.  A missing number m would leave finitely many below it in *)
(* the set, and the successor would map these into, but not onto, them.    *)

LEMMA SetInduction ==
    ASSUME NEW P, 0 \in P, \A n \in Nat : n \in P => n + 1 \in P
    PROVE  \A n \in Nat : n \in P
  <1> SUFFICES ASSUME NEW m \in Nat, m \notin P PROVE FALSE
    OBVIOUS
  <1> DEFINE A == {n \in Nat : n \in P /\ n < m}
             next == [n \in A |-> n + 1]
  <1>1. \A n \in A : n + 1 \in A
    OBVIOUS
  <1>2. IsFiniteSet(A)
    <2>1. A \in SUBSET Nat /\ \A s \in A : s <= m
      OBVIOUS
    <2> HIDE DEF A
    <2> QED
      BY <2>1, FS_BoundedSetOfNaturals
  <1>3. next \in Injection(A, A)
    <2>1. next \in [A -> A]
      BY <1>1
    <2>2. \A a, b \in A : next[a] = next[b] => a = b
      OBVIOUS
    <2> HIDE DEF next, A
    <2> QED
      BY <2>1, <2>2 DEF Injection, IsInjective
  <1>4. next \in Surjection(A, A)
    <2> HIDE DEF A, next
    <2> QED
      BY <1>2, <1>3, FS_Injection
  <1>5. 0 \in A
    <2>1. m # 0
      OBVIOUS
    <2> QED
      BY <2>1
  <1>6. \E n \in A : next[n] = 0
    BY <1>4, <1>5 DEF Surjection
  <1> QED
    BY <1>6

\* A finite set of numbers has a highest one.
LEMMA HighestExists ==
    ASSUME NEW S, IsFiniteSet(S), S # {}, \A n \in S : n \in Nat
    PROVE  \E n \in S : \A m \in S : m <= n
  <1> DEFINE Holds(T) == T # {} => \E n \in T : \A m \in T : m <= n
             P == {c \in Nat : \A T \in SUBSET S : Cardinality(T) = c => Holds(T)}
  <1>1. 0 \in P
    BY FS_EmptySet, FS_Subset
  <1>2. ASSUME NEW c \in Nat, c \in P PROVE c + 1 \in P
    <2> SUFFICES ASSUME NEW T \in SUBSET S, T # {}, Cardinality(T) = c + 1
                 PROVE  \E n \in T : \A m \in T : m <= n
      OBVIOUS
    <2>1. PICK x \in T : TRUE
      OBVIOUS
    <2>2. IsFiniteSet(T)
      BY FS_Subset
    <2>3. Cardinality(T \ {x}) = c
      <3>1. Cardinality(T \ {x}) = Cardinality(T) - 1
        BY <2>1, <2>2, FS_RemoveElement
      <3> QED
        BY <3>1
    <2>4. CASE T \ {x} = {}
      <3>1. \A m \in T : m = x
        BY <2>4
      <3> QED
        BY <2>1, <3>1
    <2>5. CASE T \ {x} # {}
      <3>1. PICK n \in T \ {x} : \A m \in T \ {x} : m <= n
        BY <1>2, <2>3, <2>5
      <3>2. CASE x <= n
        BY <3>1, <3>2
      <3>3. CASE ~(x <= n)
        <4>1. \A m \in T : m <= x
          BY <3>1, <3>3
        <4> QED
          BY <2>1, <4>1
      <3> QED
        BY <3>2, <3>3
    <2> QED
      BY <2>4, <2>5
  <1>3. \A n \in Nat : n \in P
    <2> HIDE DEF P
    <2> QED
      BY <1>1, <1>2, SetInduction
  <1>4. Cardinality(S) \in P
    <2> HIDE DEF P
    <2> QED
      BY <1>3, FS_CardinalityType
  <1> QED
    BY <1>4

-----------------------------------------------------------------------------
(* The programs.                                                           *)

\* The operations that make an artifact, and those that write the projects row.
Makers ==
    {"StartAnalysis", "Structure", "ResolveResources", "ArtDirect", "CreateDesign",
     "SaveVerification"}
Writers == Makers \cup {"CreateProject", "ApproveDesign"}

\* The place of the statement by which an operation locks the projects row, and
\* of the one that finds the gate signed.
FirstWrite ==
    [CreateProject |-> 1, StartAnalysis |-> 1, SaveVerification |-> 2,
     Structure |-> 3, ResolveResources |-> 3, CreateDesign |-> 3, ArtDirect |-> 4,
     ApproveDesign |-> 5]
GateCheck ==
    [Structure |-> 2, ResolveResources |-> 2, CreateDesign |-> 2, ArtDirect |-> 3,
     ApproveDesign |-> 3]

Last(op) == Len(Program[op])

LEMMA Lengths ==
    /\ Operations = Writers \cup {"Approve"}
    /\ Last("CreateProject") = 2 /\ Last("Approve") = 2
    /\ Last("StartAnalysis") = 3 /\ Last("SaveVerification") = 4
    /\ Last("Structure") = 5 /\ Last("ResolveResources") = 5 /\ Last("CreateDesign") = 5
    /\ Last("ArtDirect") = 6 /\ Last("ApproveDesign") = 11
  BY DEF Operations, Program, Last, Writers, Makers

\* What a statement says of the place in the program where it stands.
LEMMA Places ==
    ASSUME NEW op \in Operations, NEW n \in 1..Last(op)
    PROVE  LET s == Program[op][n]
           IN  /\ s = "commit" <=> n = Last(op)
               /\ s = "upsert" => op = "CreateProject" /\ n = 1
               /\ s = "sign" => op = "Approve" /\ n = 1
               /\ s = "complete" => op = "ArtDirect" /\ n = 1
               /\ s = "design" => op = "SaveVerification" /\ n = 1
               /\ s = "load" <=> op = "ApproveDesign" /\ n = 1
               /\ s = "latest" => /\ op \in DOMAIN GateCheck
                                  /\ \/ n = GateCheck[op] - 1
                                     \/ op = "ApproveDesign" /\ n = 6
               /\ s = "approved" => /\ op \in DOMAIN GateCheck
                                    /\ \/ n = GateCheck[op]
                                       \/ op = "ApproveDesign" /\ n = 7
               /\ s = "verdict" => op = "ApproveDesign" /\ n \in {4, 8}
               /\ s = "update" => \/ op \in Makers /\ n = FirstWrite[op]
                                  \/ op = "ApproveDesign" /\ n \in {5, 9}
               /\ s = "finish" => op \in Makers /\ n = FirstWrite[op] + 1 /\ n = Last(op) - 1
               /\ s = "save" => op = "ApproveDesign" /\ n = 10
  <1> USE Lengths DEF Writers, Makers, FirstWrite, GateCheck
  <1>1. CASE op = "CreateProject"
    BY <1>1 DEF Program
  <1>2. CASE op = "Approve"
    BY <1>2 DEF Program
  <1>3. CASE op = "StartAnalysis"
    BY <1>3 DEF Program
  <1>4. CASE op = "SaveVerification"
    BY <1>4 DEF Program
  <1>5. CASE op \in {"Structure", "ResolveResources", "CreateDesign"}
    BY <1>5 DEF Program
  <1>6. CASE op = "ArtDirect"
    BY <1>6 DEF Program
  <1>7. CASE op = "ApproveDesign"
    BY <1>7 DEF Program
  <1> QED
    BY <1>1, <1>2, <1>3, <1>4, <1>5, <1>6, <1>7

Movers == Makers \cup {"ApproveDesign"}

\* The moves: all stages are stages, no move passes through the stage it
\* starts from, and the stages behind a gate name a kind under review.
LEMMA MoveFacts ==
    ASSUME NEW op \in Movers
    PROVE  /\ op \in Operations /\ op \in DOMAIN FirstWrite
           /\ Moves[op].via \in ProjectStages /\ Moves[op].end \in ProjectStages
           /\ Moves[op].via # Moves[op].end
           /\ Moves[op].from \subseteq ProjectStages
           /\ Moves[op].kind \in ArtifactKinds
           /\ Moves[op].via \notin AllowedTransitions(Moves[op].via)
           /\ op \in DOMAIN GateCheck =>
                 /\ Moves[op].via \in DOMAIN RequiredApproval
                 /\ RequiredApproval[Moves[op].via] \in ReviewKinds
           /\ op = "ApproveDesign" => /\ RequiredApproval[Moves[op].via] = "VERIFICATION"
                                      /\ RequiredApproval[Moves[op].end] = "VERIFICATION"
                                      /\ Moves[op].kind = "VERIFICATION"
  BY Lengths DEF Movers, Makers, Writers, Moves, ProjectStages, NextStages, AllowedTransitions,
     RequiredApproval, ReviewKinds, ArtifactKinds, GateCheck, FirstWrite

-----------------------------------------------------------------------------
(* The locks.                                                              *)

\* A transaction, given by its local state, has locked the projects row; it
\* has read the row that it is going to write.
Written(x) == x.op \in Writers /\ x.at > FirstWrite[x.op]
Loaded(x) == x.op \in Makers \/ (x.op = "ApproveDesign" /\ x.at > 1)

TxnInv(x) ==
    /\ x.op = "idle" => x = Idle
    /\ x.op # "idle" => x.at \in 1..Last(x.op)
    /\ x.op = "CreateProject" <=> x.type # "none"
    /\ x.op \in Makers => x.kind = Moves[x.op].kind
    /\ x.op = "Approve" => x.kind \in ReviewKinds
    /\ x.op = "ApproveDesign" =>
          x.kind = "VERIFICATION" /\ x.arg \in 1..Latest("VERIFICATION")
    /\ Loaded(x) /\ ~Written(x) =>
          /\ x.copy.stage \in Moves[x.op].from
          /\ Moves[x.op].via \in AllowedTransitions(x.copy.stage)
    /\ x.made # 0 <=> x.op \in Makers /\ x.at = Last(x.op)
    /\ x.made # 0 => x.made = Latest(x.kind) + 1

\* Whoever has written the projects row has the lock on it, and nobody else
\* does; a version number is drawn under that lock and is the next one.
BaseInv ==
    /\ TypeOK
    /\ \A k \in ArtifactKinds : IsFiniteSet(approval[k])
    /\ \A t \in Txns : TxnInv(txn[t])
    /\ \A t \in Txns : holder = t <=> Written(txn[t])

LEMMA IdleFacts ==
    /\ Idle \in Transactions /\ TxnInv(Idle)
    /\ ~Written(Idle) /\ ~Loaded(Idle)
  BY Lengths DEF Idle, NoRow, Transactions, TxnInv, Written, Loaded, Writers, Makers,
     ArtifactKinds

LEMMA InitBaseInv == Init => BaseInv
  <1> SUFFICES ASSUME Init PROVE BaseInv
    OBVIOUS
  <1>1. TypeOK
    BY IdleFacts DEF Init, TypeOK, NoRow
  <1>2. \A t \in Txns : TxnInv(txn[t]) /\ ~Written(txn[t])
    BY IdleFacts DEF Init
  <1>3. \A k \in ArtifactKinds : IsFiniteSet(approval[k])
    BY FS_EmptySet DEF Init
  <1> QED
    BY <1>1, <1>2, <1>3, TxnsAssumption DEF BaseInv, Init

\* A step of one transaction that leaves the committed row and artifacts alone
\* concerns the others only through the lock.
LEMMA LocalStep ==
    ASSUME BaseInv, NEW t \in Txns, NEW x \in Transactions,
           txn' = [txn EXCEPT ![t] = x],
           UNCHANGED <<row, artifact, created>>,
           approval' \in [ArtifactKinds -> SUBSET ApprovalRows],
           \A k \in ArtifactKinds : IsFiniteSet(approval'[k]),
           TxnInv(x),
           \/ Written(x) /\ holder \in {NoTxn, t} /\ holder' = t
           \/ ~Written(x) /\ holder' = IF holder = t THEN NoTxn ELSE holder
    PROVE  BaseInv'
  <1>1. TypeOK'
    BY DEF BaseInv, TypeOK
  <1>2. txn'[t] = x /\ \A u \in Txns \ {t} : txn'[u] = txn[u]
    BY DEF BaseInv, TypeOK
  <1>3. \A y : TxnInv(y) => TxnInv(y)'
    BY DEF TxnInv, Latest
  <1>4. \A y : Written(y)' <=> Written(y)
    BY DEF Written
  <1>5. \A u \in Txns : TxnInv(txn[u])'
    BY <1>2, <1>3 DEF BaseInv
  <1>6. \A u \in Txns : holder' = u <=> Written(txn[u])'
    BY <1>2, <1>4, TxnsAssumption DEF BaseInv
  <1> QED
    BY <1>1, <1>5, <1>6 DEF BaseInv

-----------------------------------------------------------------------------
(* The approval rows.                                                      *)

LEMMA ImageIsFinite ==
    ASSUME NEW S, IsFiniteSet(S), NEW f, DOMAIN f = S
    PROVE  IsFiniteSet({f[x] : x \in S})
  <1> DEFINE T == {f[x] : x \in S}
  <1>1. [x \in S |-> f[x]] \in Surjection(S, T)
    BY DEF Surjection
  <1> HIDE DEF T
  <1>2. IsFiniteSet(T)
    BY <1>1, FS_Surjection
  <1> QED
    BY <1>2 DEF T

\* The version that the gates see as approved has a committed approval.
LEMMA ApprovedIsCommitted ==
    ASSUME NEW k, approval[k] \subseteq ApprovalRows, IsFiniteSet(approval[k]),
           ApprovedVersion(k) # 0
    PROVE  ApprovedVersion(k) \in CommittedApprovals(k)
  <1> DEFINE S == CommittedRows(k)
             ids == [r \in S |-> r.id]
             T == {ids[r] : r \in S}
  <1>1. S # {}
    BY DEF ApprovedVersion
  <1>2. S \in SUBSET approval[k] /\ S \in SUBSET ApprovalRows
    BY DEF CommittedRows
  <1>3. IsFiniteSet(S)
    <2> HIDE DEF S
    <2> QED
      BY <1>2, FS_Subset
  <1>4. IsFiniteSet(T) /\ T # {} /\ \A n \in T : n \in Nat
    <2>1. DOMAIN ids = S
      OBVIOUS
    <2>2. \A r \in S : ids[r] \in Nat
      BY <1>2 DEF ApprovalRows
    <2> HIDE DEF S, ids
    <2> QED
      BY <1>1, <1>3, <2>1, <2>2, ImageIsFinite
  <1>5. PICK n \in T : \A m \in T : m <= n
    <2> HIDE DEF T
    <2> QED
      BY <1>4, HighestExists
  <1>6. \E r \in S : \A s \in S : s.id <= r.id
    BY <1>5
  <1>7. (CHOOSE r \in S : \A s \in S : s.id <= r.id) \in S
    BY <1>6
  <1> QED
    BY <1>1, <1>7 DEF ApprovedVersion, CommittedApprovals

\* What a rollback leaves of the approval rows, renumbered.
LEMMA KeptRows ==
    ASSUME BaseInv, NEW t \in Txns, approval' = WithoutRowsOf(t), NEW k \in ArtifactKinds
    PROVE  /\ approval'[k] \in SUBSET ApprovalRows
           /\ IsFiniteSet(approval'[k])
           /\ \A r \in approval'[k] : \E q \in approval[k] : q.by # t /\ r.v = q.v /\ r.by = q.by
           /\ \A q \in approval[k] : q.by # t =>
                 \E r \in approval'[k] : r.v = q.v /\ r.by = q.by
  <1> DEFINE kept == {r \in approval[k] : r.by # t}
             Rank(r) == Cardinality({q \in kept : q.id <= r.id})
             Moved == [r \in kept |-> [r EXCEPT !.id = Rank(r)]]
  <1>1. approval'[k] = {Moved[r] : r \in kept}
    BY DEF WithoutRowsOf
  <1>2. approval[k] \subseteq ApprovalRows /\ IsFiniteSet(approval[k])
    BY DEF BaseInv, TypeOK
  <1>3. IsFiniteSet(kept)
    BY <1>2, FS_Subset
  <1>4. ASSUME NEW r \in kept PROVE Rank(r) \in Nat
    <2>1. {q \in kept : q.id <= r.id} \in SUBSET kept
      OBVIOUS
    <2> HIDE DEF kept
    <2> QED
      BY <1>3, <2>1, FS_Subset, FS_CardinalityType
  <1> HIDE DEF Rank
  <1>5. \A r \in kept : /\ Moved[r] \in ApprovalRows
                        /\ Moved[r].v = r.v /\ Moved[r].by = r.by
    BY <1>2, <1>4 DEF ApprovalRows
  <1>6. DOMAIN Moved = kept
    OBVIOUS
  <1>7. \A q \in approval[k] : q.by # t <=> q \in kept
    OBVIOUS
  <1>8. kept \subseteq approval[k]
    OBVIOUS
  <1> HIDE DEF kept, Moved
  <1>9. IsFiniteSet(approval'[k])
    BY <1>1, <1>3, <1>6, ImageIsFinite
  <1> QED
    BY <1>1, <1>5, <1>7, <1>8, <1>9

\* What a commit of t makes of them.
Committed(rows, t) == {IF r.by = t THEN [r EXCEPT !.by = NoTxn] ELSE r : r \in rows}

LEMMA CommittedRowsOf ==
    ASSUME BaseInv, NEW t \in Txns, NEW k \in ArtifactKinds
    PROVE  LET rows == Committed(approval[k], t)
           IN  /\ rows \in SUBSET ApprovalRows
               /\ IsFiniteSet(rows)
               /\ \A r \in rows : \E q \in approval[k] :
                     /\ r.v = q.v
                     /\ IF q.by = t THEN r.by = NoTxn ELSE r = q
               /\ \A q \in approval[k] : \E r \in rows :
                     /\ r.v = q.v
                     /\ IF q.by = t THEN r.by = NoTxn ELSE r = q
  <1> DEFINE f == [r \in approval[k] |-> IF r.by = t THEN [r EXCEPT !.by = NoTxn] ELSE r]
  <1>1. Committed(approval[k], t) = {f[r] : r \in approval[k]}
    BY DEF Committed
  <1>2. approval[k] \subseteq ApprovalRows /\ IsFiniteSet(approval[k])
    BY DEF BaseInv, TypeOK
  <1>3. \A q \in approval[k] : /\ f[q] \in ApprovalRows /\ f[q].v = q.v
                               /\ IF q.by = t THEN f[q].by = NoTxn ELSE f[q] = q
    BY <1>2 DEF ApprovalRows
  <1>5. DOMAIN f = approval[k]
    OBVIOUS
  <1> HIDE DEF f
  <1>4. IsFiniteSet({f[r] : r \in approval[k]})
    BY <1>2, <1>5, ImageIsFinite
  <1> QED
    BY <1>1, <1>3, <1>4

-----------------------------------------------------------------------------
(* The statements keep the base invariant.                                 *)

LEMMA RollbackKeepsBase ==
    ASSUME BaseInv, NEW t \in Txns, Rollback(t)
    PROVE  BaseInv'
  <1>1. \A k \in ArtifactKinds :
           approval'[k] \in SUBSET ApprovalRows /\ IsFiniteSet(approval'[k])
    BY KeptRows DEF Rollback
  <1>2. approval' \in [ArtifactKinds -> SUBSET ApprovalRows]
    BY <1>1 DEF Rollback, WithoutRowsOf
  <1> QED
    BY <1>1, <1>2, IdleFacts, LocalStep DEF Rollback

-----------------------------------------------------------------------------
(* What each statement makes of the local state x of its transaction.      *)

LEMMA AtFacts ==
    ASSUME BaseInv, NEW t \in Txns, NEW s, At(t, s)
    PROVE  /\ txn[t] \in Transactions /\ TxnInv(txn[t])
           /\ txn[t].op \in Operations /\ txn[t].at \in 1..Last(txn[t].op)
           /\ Program[txn[t].op][txn[t].at] = s
           /\ Last(txn[t].op) \in Nat
  <1>1. txn[t] \in Transactions /\ TxnInv(txn[t]) /\ txn[t].op # "idle"
    BY DEF BaseInv, TypeOK, At
  <1>2. txn[t].op \in Operations
    BY <1>1 DEF Transactions
  <1> QED
    BY <1>1, <1>2, Lengths DEF At, TxnInv, Writers, Makers

\* No read is the last statement before the commit of an artifact, nor the
\* first write.
LEMMA ReadPlaces ==
    ASSUME NEW op \in Operations, NEW n \in 1..Last(op),
           Program[op][n] \in {"load", "complete", "design", "latest", "approved", "verdict"}
    PROVE  /\ n < Last(op)
           /\ op \in Makers => n < FirstWrite[op] /\ FirstWrite[op] = Last(op) - 2
           /\ op \in Writers => n # FirstWrite[op] /\ FirstWrite[op] \in Nat
           /\ op \in Makers \/ op = "ApproveDesign"
  <1> USE Lengths DEF Writers, Makers, FirstWrite
  <1>1. CASE op \in {"CreateProject", "Approve"}
    BY <1>1 DEF Program
  <1>3. CASE op \in {"StartAnalysis", "SaveVerification"}
    BY <1>3 DEF Program
  <1>5. CASE op \in {"Structure", "ResolveResources", "CreateDesign"}
    BY <1>5 DEF Program
  <1>6. CASE op = "ArtDirect"
    BY <1>6 DEF Program
  <1>7. CASE op = "ApproveDesign"
    BY <1>7 DEF Program
  <1> QED
    BY <1>1, <1>3, <1>5, <1>6, <1>7

\* Where an operation reads the approval that a stage requires, that stage
\* stands behind a gate.
LEMMA GateIsAKind ==
    ASSUME BaseInv, NEW t \in Txns, At(t, "latest") \/ At(t, "approved")
    PROVE  /\ txn[t].op \in DOMAIN GateCheck /\ txn[t].op \in Movers
           /\ GateOf(t) = RequiredApproval[Moves[txn[t].op].via]
           /\ GateOf(t) \in ReviewKinds /\ GateOf(t) \in ArtifactKinds
  <1>1. txn[t].op \in DOMAIN GateCheck
    BY AtFacts, Places
  <1>2. txn[t].op \in Movers
    BY <1>1 DEF GateCheck, Movers, Makers
  <1>3. GateOf(t) = RequiredApproval[Moves[txn[t].op].via]
    <2>1. CASE txn[t].op = "ApproveDesign"
      BY <1>2, <2>1, MoveFacts DEF GateOf, Target
    <2>2. CASE txn[t].op # "ApproveDesign"
      <3>1. txn[t].op \in Makers /\ txn[t].at < FirstWrite[txn[t].op] /\ txn[t].at \in Nat
              /\ FirstWrite[txn[t].op] \in Nat
        BY <1>2, <2>2, AtFacts, ReadPlaces DEF Movers, Writers
      <3>2. ~Written(txn[t]) /\ Loaded(txn[t])
        BY <3>1, MoveFacts DEF Written, Loaded
      <3>3. txn[t].copy.stage # Moves[txn[t].op].via
        BY <1>2, <3>2, AtFacts, MoveFacts DEF TxnInv
      <3> QED
        BY <3>3 DEF GateOf, Target
    <2> QED
      BY <2>1, <2>2
  <1> QED
    BY <1>1, <1>2, <1>3, MoveFacts DEF ArtifactKinds

\* The arguments of the call do not change.
SameCall(y, x) ==
    /\ y.op = x.op /\ y.arg = x.arg /\ y.kind = x.kind /\ y.good = x.good /\ y.type = x.type

LEMMA ContinueFacts ==
    ASSUME BaseInv, NEW t \in Txns, NEW f \in Transactions, Continue(t, f)
    PROVE  LET y == txn'[t]
           IN  /\ txn' = [txn EXCEPT ![t] = y]
               /\ y \in Transactions /\ SameCall(y, f) /\ y.at = f.at + 1
               /\ y.copy = f.copy /\ y.seen = f.seen /\ y.made = f.made
  <1> DEFINE y == [f EXCEPT !.at = @ + 1]
  <1>1. txn' = [txn EXCEPT ![t] = y] /\ txn'[t] = y
    BY DEF Continue, BaseInv, TypeOK
  <1>2. /\ y \in Transactions /\ SameCall(y, f) /\ y.at = f.at + 1
        /\ y.copy = f.copy /\ y.seen = f.seen /\ y.made = f.made
    BY DEF Transactions, SameCall
  <1> HIDE DEF y
  <1> QED
    BY <1>1, <1>2 DEF y

\* What a call makes of the local state.
LEMMA CallFacts ==
    ASSUME BaseInv, NEW t \in Txns, Call(t)
    PROVE  LET y == txn'[t]
           IN  /\ txn[t] = Idle
               /\ txn' = [txn EXCEPT ![t] = y] /\ UNCHANGED <<tables, holder>>
               /\ y \in Transactions /\ y.at = 1 /\ y.made = 0
               /\ \/ /\ y.op = "CreateProject" /\ y.type \in ProjectTypes \ created
                     /\ \A u \in Txns : txn[u].type # y.type
                  \/ /\ y.type = "none"
                     /\ \/ y.op = "Approve" /\ y.kind \in ReviewKinds /\ y.arg \in 1..Latest(y.kind)
                        \/ /\ y.op \in Makers /\ y.kind = Moves[y.op].kind
                           /\ y.copy = row /\ CanStart(y.op)
                        \/ /\ y.op = "ApproveDesign" /\ y.kind = "VERIFICATION"
                           /\ y.arg \in 1..Latest("VERIFICATION")
  <1>1. /\ row \in [stage : ProjectStages \cup {"NONE"}, rev : Nat, final : Nat]
        /\ \A k \in ArtifactKinds : Latest(k) \in Nat
        /\ txn[t].op = "idle" => txn[t] = Idle
    BY DEF BaseInv, TypeOK, Latest, TxnInv
  <1>2. ASSUME NEW op \in Operations, NEW f \in Transactions, Begin(t, op, f)
        PROVE  LET y == txn'[t]
               IN  /\ txn[t] = Idle
                   /\ txn' = [txn EXCEPT ![t] = y] /\ UNCHANGED <<tables, holder>>
                   /\ y \in Transactions /\ y.op = op /\ y.at = 1 /\ y.made = f.made
                   /\ y.type = f.type /\ y.kind = f.kind /\ y.arg = f.arg /\ y.copy = f.copy
    <2> DEFINE y == [f EXCEPT !.op = op, !.at = 1]
    <2>1. txn' = [txn EXCEPT ![t] = y] /\ txn'[t] = y /\ txn[t] = Idle /\ UNCHANGED <<tables, holder>>
      BY <1>1, <1>2 DEF Begin, BaseInv, TypeOK
    <2>2. /\ y \in Transactions /\ y.op = op /\ y.at = 1 /\ y.made = f.made
          /\ y.type = f.type /\ y.kind = f.kind /\ y.arg = f.arg /\ y.copy = f.copy
      BY DEF Transactions
    <2> HIDE DEF y
    <2> QED
      BY <2>1, <2>2
  <1>3. Operations = Makers \cup {"CreateProject", "ApproveDesign", "Approve"}
    BY Lengths DEF Writers
  <1>4. ASSUME NEW type \in ProjectTypes, CallCreate(t, type)
        PROVE  \E f \in Transactions : /\ Begin(t, "CreateProject", f) /\ f.made = 0
                                       /\ f.type = type /\ type \notin created
                                       /\ \A u \in Txns : txn[u].type # type
    <2> DEFINE f == [Idle EXCEPT !.type = type]
    <2>1. f \in Transactions /\ f.made = 0 /\ f.type = type
      BY IdleFacts DEF Idle, Transactions
    <2> QED
      BY <1>4, <2>1 DEF CallCreate
  <1>5. ASSUME NEW k \in ReviewKinds, NEW v \in 1..Latest(k), CallApprove(t, k, v)
        PROVE  \E f \in Transactions : /\ Begin(t, "Approve", f) /\ f.made = 0
                                       /\ f.type = "none" /\ f.kind = k /\ f.arg = v
    <2> DEFINE f == [Idle EXCEPT !.kind = k, !.arg = v]
    <2>1. k \in ArtifactKinds /\ v \in Nat
      BY <1>1 DEF ArtifactKinds
    <2>2. f \in Transactions /\ f.made = 0 /\ f.type = "none" /\ f.kind = k /\ f.arg = v
      BY <2>1, IdleFacts DEF Idle, Transactions
    <2> QED
      BY <1>5, <2>2 DEF CallApprove
  <1>6. ASSUME NEW op \in Makers, NEW d \in Nat, NEW good \in BOOLEAN, CallMove(t, op, d, good)
        PROVE  \E f \in Transactions : /\ Begin(t, op, f) /\ f.made = 0
                                       /\ f.type = "none" /\ f.kind = Moves[op].kind
                                       /\ f.copy = row /\ CanStart(op)
    <2> DEFINE f == [Idle EXCEPT !.kind = Moves[op].kind, !.copy = row, !.arg = d, !.good = good]
    <2>1. Moves[op].kind \in ArtifactKinds
      BY MoveFacts DEF Movers
    <2>2. f \in Transactions /\ f.made = 0 /\ f.type = "none" /\ f.kind = Moves[op].kind
          /\ f.copy = row
      BY <1>1, <2>1, IdleFacts DEF Idle, Transactions
    <2> QED
      BY <1>6, <2>2 DEF CallMove
  <1>7. ASSUME NEW v \in 1..Latest("VERIFICATION"), CallApproveDesign(t, v)
        PROVE  \E f \in Transactions : /\ Begin(t, "ApproveDesign", f) /\ f.made = 0
                                       /\ f.type = "none" /\ f.kind = "VERIFICATION" /\ f.arg = v
    <2> DEFINE f == [Idle EXCEPT !.kind = "VERIFICATION", !.arg = v]
    <2>1. "VERIFICATION" \in ArtifactKinds /\ v \in Nat
      BY <1>1 DEF ArtifactKinds, ReviewKinds
    <2>2. f \in Transactions /\ f.made = 0 /\ f.type = "none" /\ f.kind = "VERIFICATION" /\ f.arg = v
      BY <2>1, IdleFacts DEF Idle, Transactions
    <2> QED
      BY <1>7, <2>2 DEF CallApproveDesign
  <1>8. 1..Latest("DESIGN") \subseteq Nat
    BY <1>1 DEF ArtifactKinds
  <1>9. CASE \E type \in ProjectTypes : CallCreate(t, type)
    BY <1>2, <1>3, <1>4, <1>9
  <1>10. CASE \E k \in ReviewKinds : \E v \in 1..Latest(k) : CallApprove(t, k, v)
    BY <1>2, <1>3, <1>5, <1>10
  <1>11. CASE \E op \in Makers, d \in Nat, good \in BOOLEAN : CallMove(t, op, d, good)
    BY <1>2, <1>3, <1>6, <1>11
  <1>12. CASE \E v \in 1..Latest("VERIFICATION") : CallApproveDesign(t, v)
    BY <1>2, <1>3, <1>7, <1>12
  <1> QED
    BY <1>8, <1>9, <1>10, <1>11, <1>12 DEF Call, Makers

LEMMA CallKeepsBase ==
    ASSUME BaseInv, NEW t \in Txns, Call(t)
    PROVE  BaseInv'
  <1> DEFINE y == txn'[t]
  <1>1. /\ txn[t] = Idle
        /\ txn' = [txn EXCEPT ![t] = y] /\ UNCHANGED <<tables, holder>>
        /\ y \in Transactions /\ y.at = 1 /\ y.made = 0
        /\ \/ y.op = "CreateProject" /\ y.type \in ProjectTypes
           \/ /\ y.type = "none"
              /\ \/ y.op = "Approve" /\ y.kind \in ReviewKinds /\ y.arg \in 1..Latest(y.kind)
                 \/ y.op \in Makers /\ y.kind = Moves[y.op].kind /\ y.copy = row /\ CanStart(y.op)
                 \/ /\ y.op = "ApproveDesign" /\ y.kind = "VERIFICATION"
                    /\ y.arg \in 1..Latest("VERIFICATION")
    BY CallFacts
  <1> HIDE DEF y
  <1>2. y.op \in Operations /\ y.op # "idle" /\ Last(y.op) \in Nat /\ Last(y.op) >= 2
        /\ (y.op \in Makers => Last(y.op) >= 3)
        /\ (y.op \in Writers => FirstWrite[y.op] \in Nat /\ FirstWrite[y.op] >= 1)
    BY <1>1, Lengths DEF Writers, Makers, FirstWrite
  <1>3. ~Written(y)
    BY <1>1, <1>2 DEF Written
  <1>4. /\ "CreateProject" \notin Makers \cup {"Approve", "ApproveDesign"}
        /\ "Approve" \notin Makers \cup {"ApproveDesign"} /\ "ApproveDesign" \notin Makers
    BY DEF Makers
  <1>5. TxnInv(y)
    BY <1>1, <1>2, <1>3, <1>4, TypesAssumption DEF TxnInv, Loaded, CanStart
  <1>6. holder # t
    BY <1>1, IdleFacts DEF BaseInv
  <1> QED
    BY <1>1, <1>3, <1>5, <1>6, LocalStep DEF BaseInv, TypeOK, tables

\* A SELECT changes nothing but what the transaction has seen, or loads the row.
LEMMA ReadFacts ==
    ASSUME BaseInv, NEW t \in Txns, ~Rollback(t),
           \/ Load(t) \/ ReadLatest(t) \/ ReadApproved(t) \/ ReadVerdict(t)
           \/ ReadResources(t) \/ ReadDesign(t)
    PROVE  LET x == txn[t]
               y == txn'[t]
           IN  /\ txn' = [txn EXCEPT ![t] = y] /\ UNCHANGED <<tables, holder>>
               /\ y \in Transactions /\ SameCall(y, x) /\ y.at = x.at + 1 /\ y.made = x.made
               /\ \/ At(t, "load") /\ CanStart("ApproveDesign") /\ y.copy = row
                  \/ /\ y.copy = x.copy
                     /\ \/ /\ At(t, "latest")
                           /\ Latest(GateOf(t)) # 0 /\ y.seen = Latest(GateOf(t))
                        \/ At(t, "approved") /\ ApprovedVersion(GateOf(t)) = x.seen
                        \/ /\ At(t, "verdict")
                           /\ artifact["VERIFICATION"][Latest("VERIFICATION")].good
                        \/ At(t, "complete")
                        \/ At(t, "design") /\ x.arg = Latest("DESIGN")
  <1> DEFINE x == txn[t]
             y == txn'[t]
  <1>0. /\ txn[t] \in Transactions
        /\ row \in [stage : ProjectStages \cup {"NONE"}, rev : Nat, final : Nat]
        /\ \A k \in ArtifactKinds : Latest(k) \in Nat
    BY DEF BaseInv, TypeOK, Latest
  <1>1. CASE Load(t)
    <2> DEFINE f == [txn[t] EXCEPT !.copy = row]
    <2>1. f \in Transactions /\ SameCall(f, txn[t]) /\ f.at = txn[t].at /\ f.made = txn[t].made
          /\ f.copy = row
      BY <1>0 DEF Transactions, SameCall
    <2>2. At(t, "load") /\ CanStart("ApproveDesign") /\ Continue(t, f) /\ UNCHANGED <<tables, holder>>
      BY <1>1 DEF Load, Select
    <2> HIDE DEF f
    <2> QED
      BY <2>1, <2>2, ContinueFacts DEF SameCall
  <1>2. CASE ReadLatest(t)
    <2> DEFINE f == [txn[t] EXCEPT !.seen = Latest(GateOf(t))]
    <2>1. At(t, "latest") /\ Continue(t, f) /\ UNCHANGED <<tables, holder>> /\ Latest(GateOf(t)) # 0
      BY <1>2 DEF ReadLatest, Select
    <2>2. GateOf(t) \in ArtifactKinds
      BY <2>1, GateIsAKind
    <2>3. f \in Transactions /\ SameCall(f, txn[t]) /\ f.at = txn[t].at /\ f.made = txn[t].made
          /\ f.copy = txn[t].copy /\ f.seen = Latest(GateOf(t))
      BY <1>0, <2>2 DEF Transactions, SameCall
    <2> HIDE DEF f
    <2> QED
      BY <2>1, <2>3, ContinueFacts DEF SameCall
  <1>3. CASE ReadApproved(t)
    <2> DEFINE f == [txn[t] EXCEPT !.seen = 0]
    <2>1. At(t, "approved") /\ Continue(t, f) /\ UNCHANGED <<tables, holder>>
          /\ ApprovedVersion(GateOf(t)) = txn[t].seen
      BY <1>3 DEF ReadApproved, Select
    <2>3. f \in Transactions /\ SameCall(f, txn[t]) /\ f.at = txn[t].at /\ f.made = txn[t].made
          /\ f.copy = txn[t].copy
      BY <1>0 DEF Transactions, SameCall
    <2> HIDE DEF f
    <2> QED
      BY <2>1, <2>3, ContinueFacts DEF SameCall
  <1>4. CASE ReadVerdict(t) \/ ReadResources(t) \/ ReadDesign(t)
    <2>1. /\ Continue(t, txn[t]) /\ UNCHANGED <<tables, holder>>
          /\ \/ /\ At(t, "verdict")
                /\ artifact["VERIFICATION"][Latest("VERIFICATION")].good
             \/ At(t, "complete")
             \/ At(t, "design") /\ txn[t].arg = Latest("DESIGN")
      BY <1>4 DEF ReadVerdict, ReadResources, ReadDesign, Select
    <2> QED
      BY <1>0, <2>1, ContinueFacts DEF SameCall
  <1> QED
    BY <1>1, <1>2, <1>3, <1>4

LEMMA ReadKeepsBase ==
    ASSUME BaseInv, NEW t \in Txns,
           \/ Load(t) \/ ReadLatest(t) \/ ReadApproved(t) \/ ReadVerdict(t)
           \/ ReadResources(t) \/ ReadDesign(t)
    PROVE  BaseInv'
  <1>1. CASE Rollback(t)
    BY <1>1, RollbackKeepsBase
  <1>2. CASE ~Rollback(t)
    <2> DEFINE x == txn[t]
               y == txn'[t]
    <2>0. /\ txn' = [txn EXCEPT ![t] = y] /\ UNCHANGED <<tables, holder>>
          /\ y \in Transactions /\ SameCall(y, x) /\ y.at = x.at + 1 /\ y.made = x.made
          /\ \/ At(t, "load") /\ CanStart("ApproveDesign") /\ y.copy = row
             \/ /\ y.copy = x.copy
                /\ \E s \in {"complete", "design", "latest", "approved", "verdict"} : At(t, s)
      BY <1>2, ReadFacts
    <2>00. PICK s \in {"load", "complete", "design", "latest", "approved", "verdict"} :
              /\ At(t, s)
              /\ IF s = "load" THEN CanStart("ApproveDesign") /\ y.copy = row
                               ELSE y.copy = x.copy
      BY <2>0
    <2>1. /\ x \in Transactions /\ TxnInv(x) /\ x.op \in Operations /\ x.at \in 1..Last(x.op)
          /\ Last(x.op) \in Nat /\ Program[x.op][x.at] = s
      BY <2>00, AtFacts
    <2>2. /\ x.at < Last(x.op)
          /\ x.op \in Makers => x.at < FirstWrite[x.op] /\ FirstWrite[x.op] = Last(x.op) - 2
          /\ x.op \in Writers => x.at # FirstWrite[x.op] /\ FirstWrite[x.op] \in Nat
          /\ x.op \in Makers \/ x.op = "ApproveDesign"
      BY <2>1, ReadPlaces
    <2>3. s = "load" <=> x.op = "ApproveDesign" /\ x.at = 1
      BY <2>1, Places
    <2>4. /\ y.op = x.op /\ y.arg = x.arg /\ y.kind = x.kind /\ y.type = x.type
      BY <2>0 DEF SameCall
    <2> HIDE DEF x, y
    <2>5. Written(y) <=> Written(x)
      BY <2>0, <2>1, <2>2, <2>4 DEF Written
    <2>6. "ApproveDesign" \notin Makers /\ "idle" \notin Operations
      BY Lengths DEF Makers, Writers
    <2>7. y.op \in Makers => y.at < Last(y.op) /\ x.at < Last(x.op)
      BY <2>0, <2>1, <2>2, <2>4
    <2>8. Loaded(y) /\ ~Written(y) =>
            /\ y.copy.stage \in Moves[y.op].from
            /\ Moves[y.op].via \in AllowedTransitions(y.copy.stage)
      <3>1. CASE s = "load"
        BY <2>00, <2>3, <2>4, <3>1 DEF CanStart
      <3>2. CASE s # "load"
        <4>1. y.copy = x.copy
          BY <2>00, <3>2
        <4>2. Loaded(x)
          BY <2>1, <2>2, <2>3, <3>2 DEF Loaded
        <4> QED
          BY <2>1, <2>4, <2>5, <4>1, <4>2 DEF TxnInv
      <3> QED
        BY <3>1, <3>2
    <2>9. TxnInv(y)
      BY <2>0, <2>1, <2>2, <2>4, <2>6, <2>7, <2>8 DEF TxnInv
    <2>10. holder = t <=> Written(x)
      BY DEF BaseInv, x
    <2> QED
      BY <2>0, <2>5, <2>9, <2>10, LocalStep DEF BaseInv, TypeOK, tables
  <1> QED
    BY <1>1, <1>2

LEMMA InsertFacts ==
    ASSUME BaseInv, NEW t \in Txns, InsertApproval(t)
    PROVE  LET x == txn[t]
               y == txn'[t]
           IN  /\ x.op = "Approve" /\ x.at = 1
               /\ txn' = [txn EXCEPT ![t] = y] /\ UNCHANGED <<row, artifact, created, holder>>
               /\ y \in Transactions /\ SameCall(y, x) /\ y.at = 2
               /\ y.copy = x.copy /\ y.made = x.made
  <1>1. txn[t] \in Transactions /\ txn[t].op = "Approve" /\ txn[t].at = 1
    BY AtFacts, Places DEF InsertApproval
  <1>2. Continue(t, txn[t]) /\ UNCHANGED <<row, artifact, created, holder>>
    BY DEF InsertApproval
  <1> QED
    BY <1>1, <1>2, ContinueFacts

LEMMA InsertKeepsBase ==
    ASSUME BaseInv, NEW t \in Txns, InsertApproval(t)
    PROVE  BaseInv'
  <1> DEFINE x == txn[t]
             k == x.kind
             y == txn'[t]
             new == [id |-> NextId(k), v |-> x.arg, by |-> t]
  <1>1. /\ x \in Transactions /\ TxnInv(x) /\ x.op = "Approve" /\ x.at = 1
    BY AtFacts, Places DEF InsertApproval
  <1>2. x.op \notin Writers /\ x.op \notin Makers /\ x.op # "ApproveDesign"
        /\ x.op # "CreateProject" /\ x.op # "idle" /\ Last(x.op) = 2
    BY <1>1, Lengths DEF Writers, Makers
  <1>3. k \in ArtifactKinds /\ x.arg \in Nat
    BY <1>1 DEF Transactions
  <1>4. approval[k] \in SUBSET ApprovalRows /\ IsFiniteSet(approval[k])
    BY <1>3 DEF BaseInv, TypeOK
  <1>5. NextId(k) \in Nat
    BY <1>4, FS_CardinalityType DEF NextId
  <1>6. new \in ApprovalRows /\ IsFiniteSet(approval[k] \cup {new})
    BY <1>3, <1>4, <1>5, FS_AddElement DEF ApprovalRows
  <1>7. /\ y \in Transactions /\ y.op = x.op /\ y.at = 2 /\ y.kind = x.kind
        /\ y.type = x.type /\ y.made = x.made
    BY InsertFacts DEF SameCall
  <1>8. txn' = [txn EXCEPT ![t] = y] /\ UNCHANGED <<row, artifact, created, holder>>
    BY InsertFacts
  <1> HIDE DEF y
  <1>9. ~Written(y) /\ ~Written(x)
    BY <1>2, <1>7 DEF Written
  <1>10. TxnInv(y)
    BY <1>1, <1>2, <1>7 DEF TxnInv, Loaded
  <1>11. approval' \in [ArtifactKinds -> SUBSET ApprovalRows]
         /\ \A j \in ArtifactKinds : IsFiniteSet(approval'[j])
    <2> HIDE DEF new, x
    <2>1. approval' = approval \/ approval' = [approval EXCEPT ![k] = @ \cup {new}]
      BY DEF InsertApproval, x, new
    <2>2. approval[k] \cup {new} \in SUBSET ApprovalRows
      BY <1>4, <1>6
    <2>3. approval \in [ArtifactKinds -> SUBSET ApprovalRows]
          /\ \A j \in ArtifactKinds : IsFiniteSet(approval[j])
      BY DEF BaseInv, TypeOK
    <2> HIDE DEF k
    <2>4. \A j \in ArtifactKinds : approval'[j] = approval[j] \/ approval'[j] = approval[k] \cup {new}
      BY <1>3, <2>1, <2>3
    <2>5. approval' \in [ArtifactKinds -> SUBSET ApprovalRows]
      BY <1>3, <2>1, <2>2, <2>3
    <2> QED
      BY <1>6, <2>3, <2>4, <2>5
  <1>12. holder # t
    BY <1>9 DEF BaseInv
  <1> QED
    BY <1>7, <1>8, <1>9, <1>10, <1>11, <1>12, LocalStep

Rows == [stage : ProjectStages \cup {"NONE"}, rev : Nat, final : Nat]

\* The local state after a statement has written the row.
LEMMA WroteFacts ==
    ASSUME BaseInv, NEW t \in Txns, NEW s \in ProjectStages \cup {"NONE"}, NEW g \in Nat
    PROVE  LET x == txn[t]
               w == Wrote(t, s, g)
               c == [stage |-> s, rev |-> x.copy.rev + 1, final |-> g]
           IN  /\ w \in Transactions /\ SameCall(w, x) /\ w.at = x.at /\ w.made = x.made
               /\ w.copy = c
  <1> DEFINE x == txn[t]
             c == [stage |-> s, rev |-> x.copy.rev + 1, final |-> g]
             w == Wrote(t, s, g)
             Ops == Operations \cup {"idle"}
             Types == ProjectTypes \cup {"none"}
  <1>1. x \in Transactions
    BY DEF BaseInv, TypeOK
  <1>2. x.copy \in Rows /\ x.copy.rev \in Nat
    BY <1>1 DEF Transactions, Rows
  <1>3. x.copy.rev + 1 \in Nat
    BY <1>2
  <1>4. c \in Rows
    BY <1>3 DEF Rows
  <1>5. w = [x EXCEPT !.copy = c]
    BY DEF Wrote
  <1>6. Transactions = [op : Ops, at : Nat, copy : Rows, arg : Nat, kind : ArtifactKinds,
                        good : BOOLEAN, type : Types, seen : Nat, made : Nat]
    BY DEF Transactions, Rows
  <1> HIDE DEF c, x, w, Ops, Types
  <1>7. w \in Transactions /\ SameCall(w, x) /\ w.at = x.at /\ w.made = x.made /\ w.copy = c
    BY <1>1, <1>4, <1>5, <1>6 DEF SameCall
  <1> QED
    BY <1>7 DEF c, x, w

LEMMA UpdateFacts ==
    ASSUME BaseInv, NEW t \in Txns, UpdateStage(t), ~Rollback(t)
    PROVE  LET x == txn[t]
               y == txn'[t]
           IN  /\ holder \in {NoTxn, t} /\ (holder = t \/ row.rev = x.copy.rev)
               /\ txn' = [txn EXCEPT ![t] = y] /\ UNCHANGED tables /\ holder' = t
               /\ x \in Transactions /\ TxnInv(x)
               /\ y \in Transactions /\ SameCall(y, x) /\ y.at = x.at + 1 /\ y.made = x.made
               /\ y.copy = [stage |-> Target(t), rev |-> x.copy.rev + 1, final |-> x.copy.final]
               /\ \/ x.op \in Makers /\ x.at = FirstWrite[x.op]
                  \/ x.op = "ApproveDesign" /\ x.at \in {5, 9}
  <1> DEFINE x == txn[t]
             w == Wrote(t, Target(t), x.copy.final)
  <1>1. /\ At(t, "update") /\ holder \in {NoTxn, t} /\ (holder = t \/ row.rev = x.copy.rev)
        /\ holder' = t /\ UNCHANGED tables /\ Continue(t, w)
    BY DEF UpdateStage, UpdateRow
  <1>2. /\ x \in Transactions /\ TxnInv(x) /\ x.op \in Operations /\ x.at \in 1..Last(x.op)
        /\ Program[x.op][x.at] = "update"
    BY <1>1, AtFacts
  <1>3. \/ x.op \in Makers /\ x.at = FirstWrite[x.op]
        \/ x.op = "ApproveDesign" /\ x.at \in {5, 9}
    <2> HIDE DEF x
    <2> QED
      BY <1>2, Places
  <1>4. Target(t) \in ProjectStages
    BY <1>3, MoveFacts DEF Target, Movers
  <1>5. x.copy.final \in Nat
    BY <1>2 DEF Transactions
  <1>6. /\ w \in Transactions /\ SameCall(w, x) /\ w.at = x.at /\ w.made = x.made
        /\ w.copy = [stage |-> Target(t), rev |-> x.copy.rev + 1, final |-> x.copy.final]
    BY <1>4, <1>5, WroteFacts
  <1> HIDE DEF w
  <1> QED
    BY <1>1, <1>2, <1>3, <1>6, ContinueFacts DEF SameCall

LEMMA UpdateKeepsBase ==
    ASSUME BaseInv, NEW t \in Txns, UpdateStage(t)
    PROVE  BaseInv'
  <1>1. CASE Rollback(t)
    BY <1>1, RollbackKeepsBase
  <1>2. CASE ~Rollback(t)
    <2> DEFINE x == txn[t]
               y == txn'[t]
    <2>1. /\ txn' = [txn EXCEPT ![t] = y] /\ UNCHANGED tables /\ holder' = t
          /\ holder \in {NoTxn, t}
          /\ x \in Transactions /\ TxnInv(x)
          /\ y \in Transactions /\ SameCall(y, x) /\ y.at = x.at + 1 /\ y.made = x.made
          /\ \/ x.op \in Makers /\ x.at = FirstWrite[x.op]
             \/ x.op = "ApproveDesign" /\ x.at \in {5, 9}
      BY <1>2, UpdateFacts
    <2> HIDE DEF x, y
    <2>2. y.op = x.op /\ y.arg = x.arg /\ y.kind = x.kind /\ y.type = x.type
      BY <2>1 DEF SameCall
    <2>3. /\ x.op \in Writers /\ x.op # "Approve" /\ x.op # "CreateProject" /\ x.op # "idle"
          /\ x.op \in Makers => FirstWrite[x.op] = Last(x.op) - 2
          /\ "ApproveDesign" \notin Makers /\ FirstWrite["ApproveDesign"] = 5
          /\ Last("ApproveDesign") = 11
          /\ FirstWrite[x.op] \in Nat /\ Last(x.op) \in Nat
      BY <2>1, Lengths DEF Writers, Makers, FirstWrite
    <2>4. /\ y.at \in Nat /\ y.at > FirstWrite[y.op] /\ y.at \in 1..Last(y.op)
          /\ y.op \in Makers => y.at # Last(y.op) /\ x.at # Last(x.op)
      <3>1. CASE x.op = "ApproveDesign"
        BY <2>1, <2>2, <2>3, <3>1
      <3>2. CASE x.op \in Makers
        BY <2>1, <2>2, <2>3, <3>2
      <3> QED
        BY <2>1, <3>1, <3>2
    <2>5. Written(y)
      BY <2>2, <2>3, <2>4 DEF Written
    <2>6. TxnInv(y)
      BY <2>1, <2>2, <2>3, <2>4, <2>5 DEF TxnInv
    <2> QED
      BY <2>1, <2>5, <2>6, LocalStep DEF BaseInv, TypeOK, tables
  <1> QED
    BY <1>1, <1>2

\* The artifact a version number names.
LEMMA NamedArtifact ==
    ASSUME BaseInv, NEW k \in ArtifactKinds, NEW v \in 1..Latest(k)
    PROVE  artifact[k][v] \in Artifacts /\ artifact[k][v].design \in Nat
           /\ artifact[k][v].good \in BOOLEAN
  <1>1. artifact[k] \in Seq(Artifacts)
    BY DEF BaseInv, TypeOK
  <1>2. artifact[k][v] \in Artifacts
    BY <1>1 DEF Latest
  <1> QED
    BY <1>2 DEF Artifacts

LEMMA SaveFacts ==
    ASSUME BaseInv, NEW t \in Txns, SaveFinal(t)
    PROVE  LET x == txn[t]
               y == txn'[t]
           IN  /\ txn' = [txn EXCEPT ![t] = y] /\ UNCHANGED <<tables, holder>>
               /\ x \in Transactions /\ TxnInv(x) /\ x.op = "ApproveDesign" /\ x.at = 10
               /\ y \in Transactions /\ SameCall(y, x) /\ y.at = 11 /\ y.made = x.made
               /\ y.copy = [stage |-> x.copy.stage, rev |-> x.copy.rev + 1,
                            final |-> artifact["VERIFICATION"][x.arg].design]
  <1> DEFINE x == txn[t]
             d == artifact["VERIFICATION"][x.arg].design
             w == Wrote(t, x.copy.stage, d)
  <1>1. /\ x \in Transactions /\ TxnInv(x) /\ x.op = "ApproveDesign" /\ x.at = 10
    BY AtFacts, Places DEF SaveFinal
  <1>2. x.arg \in 1..Latest("VERIFICATION") /\ "VERIFICATION" \in ArtifactKinds
    BY <1>1 DEF TxnInv, ArtifactKinds, ReviewKinds
  <1>3. d \in Nat
    BY <1>2, NamedArtifact
  <1>4. x.copy.stage \in ProjectStages \cup {"NONE"}
    BY <1>1 DEF Transactions
  <1> HIDE DEF d
  <1>5. /\ w \in Transactions /\ SameCall(w, x) /\ w.at = x.at /\ w.made = x.made
        /\ w.copy = [stage |-> x.copy.stage, rev |-> x.copy.rev + 1, final |-> d]
    BY <1>3, <1>4, WroteFacts
  <1>6. Continue(t, w) /\ UNCHANGED <<tables, holder>>
    BY DEF SaveFinal, d
  <1>7. x.at + 1 = 11
    BY <1>1
  <1> HIDE DEF w
  <1> QED
    BY <1>1, <1>5, <1>6, <1>7, ContinueFacts DEF SameCall, d

LEMMA SaveKeepsBase ==
    ASSUME BaseInv, NEW t \in Txns, SaveFinal(t)
    PROVE  BaseInv'
  <1> DEFINE x == txn[t]
             y == txn'[t]
  <1>1. /\ txn' = [txn EXCEPT ![t] = y] /\ UNCHANGED <<tables, holder>>
        /\ x \in Transactions /\ TxnInv(x) /\ x.op = "ApproveDesign" /\ x.at = 10
        /\ y \in Transactions /\ SameCall(y, x) /\ y.at = 11 /\ y.made = x.made
    BY SaveFacts
  <1> HIDE DEF x, y
  <1>2. /\ x.op \in Writers /\ x.op # "Approve" /\ x.op # "CreateProject" /\ x.op # "idle"
        /\ x.op \notin Makers /\ FirstWrite[x.op] = 5 /\ Last(x.op) = 11
    BY <1>1, Lengths DEF Writers, Makers, FirstWrite
  <1>3. y.op = x.op /\ y.arg = x.arg /\ y.kind = x.kind /\ y.type = x.type
    BY <1>1 DEF SameCall
  <1>4. Written(y) /\ Written(x)
    BY <1>1, <1>2, <1>3 DEF Written
  <1>5. TxnInv(y)
    BY <1>1, <1>2, <1>3, <1>4 DEF TxnInv
  <1>6. holder = t
    BY <1>4 DEF BaseInv, x
  <1> QED
    BY <1>1, <1>4, <1>5, <1>6, LocalStep DEF BaseInv, TypeOK, tables

LEMMA FinishFacts ==
    ASSUME BaseInv, NEW t \in Txns, Finish(t)
    PROVE  LET x == txn[t]
               y == txn'[t]
           IN  /\ txn' = [txn EXCEPT ![t] = y] /\ UNCHANGED <<tables, holder>>
               /\ x \in Transactions /\ TxnInv(x) /\ x.op \in Makers
               /\ x.at = FirstWrite[x.op] + 1 /\ x.at = Last(x.op) - 1 /\ x.at \in Nat
               /\ y \in Transactions /\ SameCall(y, x) /\ y.at = x.at + 1
               /\ Latest(x.kind) \in Nat /\ y.made = Latest(x.kind) + 1
               /\ y.copy = [stage |-> Target(t), rev |-> x.copy.rev + 1, final |-> x.copy.final]
  <1> DEFINE x == txn[t]
             n == Latest(x.kind) + 1
             w == Wrote(t, Target(t), x.copy.final)
             f == [w EXCEPT !.made = n]
  <1>1. /\ x \in Transactions /\ TxnInv(x) /\ x.op \in Makers /\ x.at = FirstWrite[x.op] + 1
        /\ x.at = Last(x.op) - 1 /\ x.at \in Nat
    BY AtFacts, Places DEF Finish
  <1>2. Latest(x.kind) \in Nat
    BY <1>1 DEF Latest, BaseInv, TypeOK, Transactions
  <1>3. Target(t) \in ProjectStages
    BY <1>1, MoveFacts DEF Target, Movers
  <1>4. x.copy.final \in Nat /\ n \in Nat
    BY <1>1, <1>2 DEF Transactions
  <1>5. /\ w \in Transactions /\ SameCall(w, x) /\ w.at = x.at /\ w.made = x.made
        /\ w.copy = [stage |-> Target(t), rev |-> x.copy.rev + 1, final |-> x.copy.final]
    BY <1>3, <1>4, WroteFacts
  <1>6. Continue(t, f) /\ UNCHANGED <<tables, holder>>
    BY DEF Finish
  <1>7. f \in Transactions /\ SameCall(f, w) /\ f.at = w.at /\ f.made = n /\ f.copy = w.copy
    <2> HIDE DEF w, n
    <2> QED
      BY <1>4, <1>5 DEF Transactions, SameCall
  <1> HIDE DEF f, w
  <1> QED
    BY <1>1, <1>2, <1>5, <1>6, <1>7, ContinueFacts DEF SameCall

LEMMA FinishKeepsBase ==
    ASSUME BaseInv, NEW t \in Txns, Finish(t)
    PROVE  BaseInv'
  <1> DEFINE x == txn[t]
             y == txn'[t]
  <1>1. /\ txn' = [txn EXCEPT ![t] = y] /\ UNCHANGED <<tables, holder>>
        /\ x \in Transactions /\ TxnInv(x) /\ x.op \in Makers
        /\ x.at = FirstWrite[x.op] + 1 /\ x.at = Last(x.op) - 1 /\ x.at \in Nat
        /\ y \in Transactions /\ SameCall(y, x) /\ y.at = x.at + 1
        /\ Latest(x.kind) \in Nat /\ y.made = Latest(x.kind) + 1
    BY FinishFacts
  <1> HIDE DEF x, y
  <1>2. /\ x.op \in Writers /\ x.op # "Approve" /\ x.op # "CreateProject" /\ x.op # "idle"
        /\ x.op # "ApproveDesign" /\ FirstWrite[x.op] \in Nat /\ Last(x.op) \in Nat
        /\ FirstWrite[x.op] > 0
    BY <1>1, Lengths DEF Writers, Makers, FirstWrite
  <1>3. y.op = x.op /\ y.arg = x.arg /\ y.kind = x.kind /\ y.type = x.type
    BY <1>1 DEF SameCall
  <1>4. Written(y) /\ Written(x)
    BY <1>1, <1>2, <1>3 DEF Written
  <1>5. TxnInv(y)
    BY <1>1, <1>2, <1>3, <1>4 DEF TxnInv
  <1>6. holder = t
    BY <1>4 DEF BaseInv, x
  <1> QED
    BY <1>1, <1>4, <1>5, <1>6, LocalStep DEF BaseInv, TypeOK, tables

LEMMA UpsertFacts ==
    ASSUME BaseInv, NEW t \in Txns, UpsertProject(t)
    PROVE  LET x == txn[t]
               y == txn'[t]
           IN  /\ txn' = [txn EXCEPT ![t] = y] /\ UNCHANGED tables
               /\ holder = NoTxn /\ holder' = t
               /\ x \in Transactions /\ TxnInv(x) /\ x.op = "CreateProject" /\ x.at = 1
               /\ y \in Transactions /\ SameCall(y, x) /\ y.at = 2 /\ y.made = x.made
               /\ y.copy = [stage |-> "DRAFT", rev |-> row.rev, final |-> 0]
  <1> DEFINE x == txn[t]
             c == [stage |-> "DRAFT", rev |-> row.rev, final |-> 0]
             f == [x EXCEPT !.copy = c]
  <1>1. /\ x \in Transactions /\ TxnInv(x) /\ x.op = "CreateProject" /\ x.at = 1
    BY AtFacts, Places DEF UpsertProject
  <1>2. row.rev \in Nat /\ "DRAFT" \in ProjectStages
    BY DEF BaseInv, TypeOK, ProjectStages, NextStages
  <1>3. c \in Rows
    BY <1>2 DEF Rows
  <1>4. f \in Transactions /\ SameCall(f, x) /\ f.at = x.at /\ f.made = x.made /\ f.copy = c
    <2> HIDE DEF c, x
    <2> QED
      BY <1>1, <1>3 DEF Transactions, Rows, SameCall
  <1>5. Continue(t, f) /\ holder = NoTxn /\ holder' = t /\ UNCHANGED tables
    BY DEF UpsertProject
  <1>6. x.at + 1 = 2
    BY <1>1
  <1> HIDE DEF f
  <1> QED
    BY <1>1, <1>4, <1>5, <1>6, ContinueFacts DEF SameCall

LEMMA UpsertKeepsBase ==
    ASSUME BaseInv, NEW t \in Txns, UpsertProject(t)
    PROVE  BaseInv'
  <1> DEFINE x == txn[t]
             y == txn'[t]
  <1>1. /\ txn' = [txn EXCEPT ![t] = y] /\ UNCHANGED tables
        /\ holder = NoTxn /\ holder' = t
        /\ x \in Transactions /\ TxnInv(x) /\ x.op = "CreateProject" /\ x.at = 1
        /\ y \in Transactions /\ SameCall(y, x) /\ y.at = 2 /\ y.made = x.made
    BY UpsertFacts
  <1> HIDE DEF x, y
  <1>2. /\ x.op \in Writers /\ x.op # "Approve" /\ x.op \notin Makers /\ x.op # "idle"
        /\ x.op # "ApproveDesign" /\ FirstWrite[x.op] = 1 /\ Last(x.op) = 2
    BY <1>1, Lengths DEF Writers, Makers, FirstWrite
  <1>3. y.op = x.op /\ y.arg = x.arg /\ y.kind = x.kind /\ y.type = x.type
    BY <1>1 DEF SameCall
  <1>4. Written(y)
    BY <1>1, <1>2, <1>3 DEF Written
  <1>5. TxnInv(y)
    BY <1>1, <1>2, <1>3, <1>4 DEF TxnInv, Loaded
  <1> QED
    BY <1>1, <1>4, <1>5, LocalStep DEF tables, BaseInv, TypeOK

\* A transaction that has drawn a version number holds the lock on the row.
LEMMA MadeIsWritten ==
    ASSUME NEW x, TxnInv(x), x.made # 0
    PROVE  Written(x)
  <1>1. x.op \in Makers /\ x.at = Last(x.op)
    BY DEF TxnInv
  <1> QED
    BY <1>1, Lengths DEF Written, Writers, Makers, FirstWrite

LEMMA CommitKeepsBase ==
    ASSUME BaseInv, NEW t \in Txns, Commit(t)
    PROVE  BaseInv'
  <1> DEFINE x == txn[t]
  <1>1. x \in Transactions /\ TxnInv(x)
    BY DEF BaseInv, TypeOK
  <1>2. txn' = [txn EXCEPT ![t] = Idle] /\ txn'[t] = Idle
        /\ \A u \in Txns \ {t} : txn'[u] = txn[u]
    BY DEF Commit, BaseInv, TypeOK
  <1>3. /\ artifact' \in [ArtifactKinds -> Seq(Artifacts)]
        /\ \A k \in ArtifactKinds : Latest(k) \in Nat /\ Latest(k)' \in Nat
                                    /\ Latest(k)' >= Latest(k)
        /\ x.made = 0 => artifact' = artifact
    <2>1. x.kind \in ArtifactKinds /\ [design |-> x.arg, good |-> x.good] \in Artifacts
      BY <1>1 DEF Transactions, Artifacts
    <2> DEFINE a == [design |-> x.arg, good |-> x.good]
    <2>2. artifact' = artifact \/ artifact' = [artifact EXCEPT ![x.kind] = Append(@, a)]
      BY DEF Commit
    <2>3. artifact \in [ArtifactKinds -> Seq(Artifacts)]
      BY DEF BaseInv, TypeOK
    <2> HIDE DEF a, x
    <2>4. Append(artifact[x.kind], a) \in Seq(Artifacts)
          /\ Len(Append(artifact[x.kind], a)) = Len(artifact[x.kind]) + 1
      BY <2>1, <2>3 DEF a
    <2>5. artifact' \in [ArtifactKinds -> Seq(Artifacts)]
          /\ \A k \in ArtifactKinds : Len(artifact'[k]) \in {Len(artifact[k]), Len(artifact[k]) + 1}
      BY <2>1, <2>2, <2>3, <2>4
    <2>6. \A k \in ArtifactKinds : Len(artifact[k]) \in Nat
      BY <2>3
    <2> QED
      BY <2>5, <2>6 DEF Latest, Commit, x
  <1>4. /\ approval' \in [ArtifactKinds -> SUBSET ApprovalRows]
        /\ \A k \in ArtifactKinds : IsFiniteSet(approval'[k])
    <2>1. approval' = [j \in ArtifactKinds |-> Committed(approval[j], t)]
      BY DEF Commit, Committed
    <2> QED
      BY <2>1, CommittedRowsOf
  <1>5. row' \in [stage : ProjectStages \cup {"NONE"}, rev : Nat, final : Nat]
    BY <1>1 DEF Commit, BaseInv, TypeOK, Transactions
  <1>6. TypeOK'
    BY <1>2, <1>3, <1>4, <1>5, IdleFacts DEF Commit, BaseInv, TypeOK
  <1>7. \A y : Written(y)' <=> Written(y)
    BY DEF Written
  <1>8. \A u \in Txns : holder' = u <=> Written(txn[u])'
    BY <1>2, <1>7, TxnsAssumption, IdleFacts DEF BaseInv, Commit
  <1>9. ASSUME NEW u \in Txns \ {t} PROVE TxnInv(txn[u])'
    <2> DEFINE z == txn[u]
    <2>1. z \in Transactions /\ TxnInv(z)
      BY DEF BaseInv, TypeOK
    <2>2. txn'[u] = z /\ z' = z
      BY <1>2
    <2>3. z.made = 0 \/ x.made = 0
      BY <1>1, <2>1, MadeIsWritten DEF BaseInv
    <2>4. Latest("VERIFICATION")' \in Nat /\ Latest("VERIFICATION") \in Nat
          /\ Latest("VERIFICATION")' >= Latest("VERIFICATION")
      BY <1>3 DEF ArtifactKinds, ReviewKinds
    <2>5. z.made # 0 => Latest(z.kind)' = Latest(z.kind) /\ UNCHANGED artifact
      <3> SUFFICES ASSUME z.made # 0 PROVE Len(artifact'[z.kind]) = Len(artifact[z.kind])
                                           /\ UNCHANGED artifact
        BY <2>2 DEF Latest
      <3> QED
        BY <1>3, <2>3
    <2> HIDE DEF z
    <2>6. z.op = "ApproveDesign" => z.arg \in 1..Latest("VERIFICATION")'
      BY <2>1, <2>4 DEF TxnInv
    <2>7. z.made # 0 => z.made = Latest(z.kind)' + 1
      BY <2>1, <2>5 DEF TxnInv, Latest
    <2>8. Loaded(z)' <=> Loaded(z)
      BY <2>2 DEF Loaded
    <2> QED
      BY <1>7, <2>1, <2>2, <2>6, <2>7, <2>8 DEF TxnInv
  <1>10. TxnInv(txn[t])'
    <2>1. TxnInv(Idle)'
      BY Lengths DEF Idle, TxnInv, Makers, Writers, Loaded
    <2> QED
      BY <1>2, <2>1
  <1> QED
    BY <1>4, <1>6, <1>8, <1>9, <1>10 DEF BaseInv

LEMMA NextKeepsBase == BaseInv /\ [Next]_vars => BaseInv'
  <1> SUFFICES ASSUME BaseInv, [Next]_vars PROVE BaseInv'
    OBVIOUS
  <1>1. CASE UNCHANGED vars
    BY <1>1 DEF vars, BaseInv, TypeOK, TxnInv, Written, Loaded, Latest
  <1>2. ASSUME NEW t \in Txns, Call(t) PROVE BaseInv'
    BY <1>2, CallKeepsBase
  <1>3. ASSUME NEW t \in Txns, Statement(t) PROVE BaseInv'
    BY <1>3, ReadKeepsBase, InsertKeepsBase, UpdateKeepsBase, SaveKeepsBase, FinishKeepsBase,
       UpsertKeepsBase, CommitKeepsBase DEF Statement
  <1>4. ASSUME NEW t \in Txns, Fail(t) PROVE BaseInv'
    BY <1>4, RollbackKeepsBase DEF Fail
  <1> QED
    BY <1>1, <1>2, <1>3, <1>4 DEF Next

LEMMA BaseHolds == Spec => []BaseInv
  BY InitBaseInv, NextKeepsBase, PTL DEF Spec

\* The tables and the local state of the transactions stay well typed,
\* whatever is interleaved.
THEOREM TypeCorrect == Spec => []TypeOK
  <1>1. BaseInv => TypeOK
    BY DEF BaseInv
  <1> QED
    BY <1>1, BaseHolds, PTL

\* A version number drawn by createArtifactVersion is the next one until its
\* transaction ends, and no other transaction draws it meanwhile: by then the
\* transaction has the lock on the projects row, so that the advisory lock
\* protects nothing that the row lock does not protect already.
THEOREM VersionsNeverCollide == Spec => []NoVersionCollision
  <1>1. BaseInv => NoVersionCollision
    BY MadeIsWritten DEF BaseInv, NoVersionCollision, TxnInv
  <1> QED
    BY <1>1, BaseHolds, PTL

-----------------------------------------------------------------------------
(* Waiting.                                                                *)

\* For any number of connections, and also where a create request is repeated
\* with another project type: whoever is waited for goes on by itself.
THEOREM WaitsAreShort == Spec => []NobodyWaitsForAWaiter
  <1>1. BaseInv => NobodyWaitsForAWaiter
    <2> SUFFICES ASSUME BaseInv, NEW t \in Txns, NEW u \in Txns, NEW w \in Txns, WaitsFor(t, u)
                 PROVE  txn[u].op # "idle" /\ ~WaitsFor(u, w)
      BY DEF NobodyWaitsForAWaiter
    <2> DEFINE y == txn[u]
    <2>1. TxnInv(y) /\ TxnInv(txn[w]) /\ (holder = u <=> Written(y))
          /\ (holder = w <=> Written(txn[w]))
      BY DEF BaseInv
    <2>2. ASSUME NEW s, At(u, s)
          PROVE  /\ y.op \in Operations /\ y.at \in 1..Last(y.op)
                 /\ Program[y.op][y.at] = s
      BY <2>2, AtFacts
    <2>3. CASE holder = u
      <3>1. Written(y) /\ y.op \in Writers
        BY <2>1, <2>3 DEF Written
      <3>2. ~At(u, "sign")
        BY <2>2, <3>1, Places DEF Writers, Makers
      <3>3. u # w => txn[w].made = 0
        BY <2>1, <2>3, MadeIsWritten
      <3>4. u # w => holder # w
        BY <2>3
      <3> QED
        BY <3>1, <3>2, <3>3, <3>4 DEF WaitsFor, Writers, Makers
    <2>4. CASE AwaitsRowOf(t, u)
      <3>1. y.op = "Approve" /\ y.at = 2
        BY <2>4 DEF AwaitsRowOf
      <3> QED
        BY <2>2, <3>1 DEF WaitsFor, Program
    <2>5. CASE txn[u].made # 0
      BY <2>1, <2>3, <2>5, MadeIsWritten
    <2> QED
      BY <2>3, <2>4, <2>5 DEF WaitsFor
  <1> QED
    BY <1>1, BaseHolds, PTL

-----------------------------------------------------------------------------
(* What a transaction knows.  From here on create requests are repeated    *)
(* with one project type only: with two, the second resets the project.    *)

OneType == \A a, b \in ProjectTypes : a = b

\* The stages in which a transaction may leave a project.
Settled ==
    {"NONE", "DRAFT", "ANALYSIS_REVIEW", "STRUCTURE_REVIEW", "RESOURCES_REVIEW",
     "ART_DIRECTION_REVIEW", "GENERATED", "VERIFICATION_REVIEW", "FINAL"}

\* An approval row is of a version there is; while it is not committed, its
\* transaction has nothing left to do but commit.
RowsInv ==
    \A k \in ArtifactKinds : \A r \in approval[k] :
        /\ r.v \in 1..Latest(k)
        /\ r.by # NoTxn => /\ txn[r.by].op = "Approve" /\ txn[r.by].at = 2
                           /\ txn[r.by].kind = k /\ txn[r.by].arg = r.v

\* There is a project from the first create request on, and only one request
\* at a time holds a key.
CreateInv ==
    /\ row.stage = "NONE" <=> created = {}
    /\ row.stage = "NONE" => row = NoRow
    /\ \A t, u \in Txns : txn[t].type = txn[u].type => txn[t].type = "none" \/ t = u

\* A project is verified once, and its design does not change after that.
DesignInv ==
    /\ row.stage \in Settled
    /\ Latest("VERIFICATION") = IF Phase[row.stage] >= 7 THEN 1 ELSE 0
    /\ Phase[row.stage] >= 7 => artifact["VERIFICATION"][1].design = Latest("DESIGN")

\* A row that was read and not written yet is the committed row, or has an
\* older revision.
ReadRow(x) ==
    Loaded(x) /\ ~Written(x) =>
        /\ x.copy.rev <= row.rev
        /\ x.copy.rev = row.rev => x.copy = row

\* A row that was written has a newer revision; what it was written on is still
\* the committed row, and its stage and final design are those of the program.
WrittenRow(x) ==
    Written(x) /\ x.op # "CreateProject" =>
        /\ x.copy.rev > row.rev
        /\ row.stage \in Moves[x.op].from
        /\ Moves[x.op].via \in AllowedTransitions(row.stage)
        /\ x.copy.final = IF x.op = "ApproveDesign" /\ x.at = 11
                          THEN artifact["VERIFICATION"][x.arg].design ELSE row.final
        /\ x.copy.stage = IF x.at > (IF x.op = "ApproveDesign" THEN 9 ELSE FirstWrite[x.op] + 1)
                          THEN Moves[x.op].end ELSE Moves[x.op].via

\* While the row it read is the committed one, what a transaction found at its
\* gate still holds.
Current(x) == Written(x) \/ x.copy.rev = row.rev

GateKind(op) == RequiredApproval[Moves[op].via]
Signed(k) == Latest(k) # 0 /\ Latest(k) \in CommittedApprovals(k)

GateSeen(x) ==
    Loaded(x) /\ Current(x) =>
        /\ x.op \in DOMAIN GateCheck /\ x.at = GateCheck[x.op]
              => x.seen = Latest(GateKind(x.op)) /\ x.seen # 0
        /\ x.op \in DOMAIN GateCheck /\ x.at > GateCheck[x.op] => Signed(GateKind(x.op))
        /\ x.op = "ApproveDesign" /\ x.at > 4
              => artifact["VERIFICATION"][Latest("VERIFICATION")].good
        /\ x.op = "SaveVerification" /\ x.at > 1 => x.arg = Latest("DESIGN")

Knows(x) ==
    /\ x.op = "Approve" => x.arg \in 1..Latest(x.kind)
    /\ x.op = "CreateProject" =>
          /\ created = {}
          /\ Written(x) => x.copy = [stage |-> "DRAFT", rev |-> row.rev, final |-> 0]
    /\ ReadRow(x)
    /\ WrittenRow(x)
    /\ GateSeen(x)

DeepInv ==
    /\ RowsInv
    /\ CreateInv
    /\ DesignInv
    /\ \A t \in Txns : Knows(txn[t])

LEMMA IdleKnows == Knows(Idle)
  BY IdleFacts DEF Knows, Idle, ReadRow, WrittenRow, GateSeen

\* The same after a step, of a transaction that ends with it.
LEMMA IdleKnowsNext == \A t \in Txns : txn'[t] = Idle => Knows(txn[t])'
  <1> SUFFICES ASSUME NEW t \in Txns, txn'[t] = Idle PROVE Knows(txn[t])'
    OBVIOUS
  <1>1. txn'[t].op = "idle"
    BY DEF Idle
  <1> QED
    BY <1>1, Lengths DEF Knows, ReadRow, WrittenRow, GateSeen, Loaded, Written, Writers, Makers

LEMMA InitDeepInv == Init => DeepInv
  <1> SUFFICES ASSUME Init PROVE DeepInv
    OBVIOUS
  <1>1. RowsInv
    BY DEF Init, RowsInv
  <1>2. CreateInv
    BY DEF Init, CreateInv, NoRow, Idle
  <1>3. DesignInv
    BY DEF Init, DesignInv, NoRow, Settled, Phase, Latest, ArtifactKinds, ReviewKinds
  <1>4. \A t \in Txns : Knows(txn[t])
    BY IdleKnows DEF Init
  <1> QED
    BY <1>1, <1>2, <1>3, <1>4 DEF DeepInv

\* What a transaction knows depends on the committed tables only.
LEMMA KnowsIsStable ==
    ASSUME UNCHANGED <<row, artifact, created>>,
           \A k \in ArtifactKinds : CommittedApprovals(k)' = CommittedApprovals(k)
    PROVE  \A x : x.op \in Operations \cup {"idle"} => (Knows(x)' <=> Knows(x))
  <1> TAKE x
  <1> HAVE x.op \in Operations \cup {"idle"}
  <1>1. \A k : Latest(k)' = Latest(k)
    BY DEF Latest
  <1>2. Written(x)' <=> Written(x)
    BY DEF Written
  <1>3. Loaded(x)' <=> Loaded(x)
    BY DEF Loaded
  <1>4. ReadRow(x)' <=> ReadRow(x)
    BY <1>2, <1>3 DEF ReadRow
  <1>5. WrittenRow(x)' <=> WrittenRow(x)
    BY <1>2 DEF WrittenRow
  <1>6. Current(x)' <=> Current(x)
    BY <1>2 DEF Current
  <1>7. x.op \in DOMAIN GateCheck => GateKind(x.op) \in ArtifactKinds
    BY MoveFacts DEF GateKind, GateCheck, Movers, Makers, ArtifactKinds
  <1>8. x.op \in DOMAIN GateCheck => (Signed(GateKind(x.op))' <=> Signed(GateKind(x.op)))
    BY <1>1, <1>7 DEF Signed, GateKind
  <1>9. GateSeen(x)' <=> GateSeen(x)
    BY <1>1, <1>3, <1>6, <1>8 DEF GateSeen, GateKind
  <1> QED
    BY <1>1, <1>2, <1>4, <1>5, <1>9 DEF Knows

\* A step that commits nothing.
LEMMA NothingCommitted ==
    ASSUME BaseInv, DeepInv, NEW t \in Txns, txn' = [txn EXCEPT ![t] = txn'[t]],
           UNCHANGED <<row, artifact, created>>,
           \A k \in ArtifactKinds : CommittedApprovals(k)' = CommittedApprovals(k),
           txn'[t].op \in Operations \cup {"idle"},
           Knows(txn'[t]), RowsInv',
           \/ txn'[t].type \in {"none", txn[t].type}
           \/ \A u \in Txns : txn[u].type # txn'[t].type
    PROVE  DeepInv'
  <1>1. \A u \in Txns \ {t} : txn'[u] = txn[u]
    BY DEF BaseInv, TypeOK
  <1>2. \A u \in Txns : txn'[u].op \in Operations \cup {"idle"}
    BY <1>1 DEF BaseInv, TypeOK, Transactions
  <1>3. ASSUME NEW u \in Txns PROVE Knows(txn[u])'
    <2>1. Knows(txn'[u])
      BY <1>1 DEF DeepInv
    <2> DEFINE x == txn'[u]
    <2>2. x.op \in Operations \cup {"idle"}
      BY <1>2
    <2>3. \A y : y.op \in Operations \cup {"idle"} => (Knows(y)' <=> Knows(y))
      BY KnowsIsStable
    <2> QED
      BY <2>1, <2>2, <2>3
  <1>4. CreateInv'
    BY <1>1 DEF DeepInv, CreateInv
  <1>5. DesignInv'
    BY DEF DeepInv, DesignInv, Latest
  <1> QED
    BY <1>3, <1>4, <1>5 DEF DeepInv

\* Nothing changes for the users of the tables.
SameCommits ==
    /\ UNCHANGED <<row, artifact, created>>
    /\ \A k \in ArtifactKinds : CommittedApprovals(k)' = CommittedApprovals(k)

LEMMA SameTables == UNCHANGED tables => SameCommits
  BY DEF tables, SameCommits, CommittedApprovals, CommittedRows

\* The approval rows of the others, while t has none of its own.
LEMMA RowsOfOthers ==
    ASSUME BaseInv, DeepInv, NEW t \in Txns, txn' = [txn EXCEPT ![t] = txn'[t]],
           UNCHANGED <<artifact, approval>>, ~(txn[t].op = "Approve" /\ txn[t].at = 2)
    PROVE  RowsInv'
  <1> SUFFICES ASSUME NEW k \in ArtifactKinds, NEW r \in approval[k]
               PROVE  /\ r.v \in 1..Latest(k)
                      /\ r.by # NoTxn => /\ txn'[r.by].op = "Approve" /\ txn'[r.by].at = 2
                                         /\ txn'[r.by].kind = k /\ txn'[r.by].arg = r.v
    BY DEF RowsInv, Latest
  <1>1. r.by \in Txns \cup {NoTxn}
    BY DEF BaseInv, TypeOK, ApprovalRows
  <1>2. \A u \in Txns \ {t} : txn'[u] = txn[u]
    BY DEF BaseInv, TypeOK
  <1> QED
    BY <1>1, <1>2 DEF DeepInv, RowsInv

LEMMA RollbackKeepsDeep ==
    ASSUME BaseInv, DeepInv, NEW t \in Txns, Rollback(t)
    PROVE  DeepInv' /\ SameCommits
  <1>1. /\ txn' = [txn EXCEPT ![t] = Idle] /\ txn'[t] = Idle
        /\ \A u \in Txns \ {t} : txn'[u] = txn[u]
        /\ UNCHANGED <<row, artifact, created>>
    BY DEF Rollback, BaseInv, TypeOK
  <1>2. ASSUME NEW k \in ArtifactKinds
        PROVE  /\ \A r \in approval'[k] : \E q \in approval[k] : q.by # t /\ r.v = q.v /\ r.by = q.by
               /\ \A q \in approval[k] : q.by # t =>
                     \E r \in approval'[k] : r.v = q.v /\ r.by = q.by
    BY KeptRows DEF Rollback
  <1>3. \A k \in ArtifactKinds : CommittedApprovals(k)' = CommittedApprovals(k)
    BY <1>2, TxnsAssumption DEF CommittedApprovals, CommittedRows
  <1>4. RowsInv'
    <2> SUFFICES ASSUME NEW k \in ArtifactKinds, NEW r \in approval'[k]
                 PROVE  /\ r.v \in 1..Latest(k)
                        /\ r.by # NoTxn => /\ txn'[r.by].op = "Approve" /\ txn'[r.by].at = 2
                                           /\ txn'[r.by].kind = k /\ txn'[r.by].arg = r.v
      BY <1>1 DEF RowsInv, Latest
    <2>1. PICK q \in approval[k] : q.by # t /\ r.v = q.v /\ r.by = q.by
      BY <1>2
    <2>2. q.by \in Txns \cup {NoTxn}
      BY DEF BaseInv, TypeOK, ApprovalRows
    <2> QED
      BY <1>1, <2>1, <2>2 DEF DeepInv, RowsInv
  <1>5. Knows(txn'[t]) /\ txn'[t].op = "idle" /\ txn'[t].type = "none"
    BY <1>1, IdleKnows DEF Idle
  <1> QED
    BY <1>1, <1>3, <1>4, <1>5, NothingCommitted DEF SameCommits

LEMMA CallKeepsDeep ==
    ASSUME BaseInv, DeepInv, OneType, NEW t \in Txns, Call(t)
    PROVE  DeepInv' /\ SameCommits
  <1> DEFINE y == txn'[t]
  <1>1. /\ txn[t] = Idle
        /\ txn' = [txn EXCEPT ![t] = y] /\ UNCHANGED <<tables, holder>>
        /\ y \in Transactions /\ y.at = 1 /\ y.made = 0
        /\ \/ /\ y.op = "CreateProject" /\ y.type \in ProjectTypes \ created
              /\ \A u \in Txns : txn[u].type # y.type
           \/ /\ y.type = "none"
              /\ \/ y.op = "Approve" /\ y.kind \in ReviewKinds /\ y.arg \in 1..Latest(y.kind)
                 \/ y.op \in Makers /\ y.kind = Moves[y.op].kind /\ y.copy = row /\ CanStart(y.op)
                 \/ /\ y.op = "ApproveDesign" /\ y.kind = "VERIFICATION"
                    /\ y.arg \in 1..Latest("VERIFICATION")
    BY CallFacts
  <1>2. SameCommits
    BY <1>1, SameTables
  <1>3. RowsInv'
    BY <1>1, RowsOfOthers DEF Idle, tables
  <1> HIDE DEF y
  <1>4. y.op \in Operations /\ (y.op \in Writers => FirstWrite[y.op] \in Nat /\ FirstWrite[y.op] >= 1)
        /\ (y.op \in DOMAIN GateCheck => GateCheck[y.op] \in Nat /\ GateCheck[y.op] > 1)
    BY <1>1, Lengths DEF Writers, Makers, FirstWrite, GateCheck
  <1>5. ~Written(y)
    BY <1>1, <1>4 DEF Written
  <1>6. y.op = "CreateProject" => created = {}
    <2> HAVE y.op = "CreateProject"
    <2>1. y.type \in ProjectTypes \ created
      BY <1>1 DEF Makers
    <2> QED
      BY <2>1 DEF OneType, BaseInv, TypeOK
  <1>7. ReadRow(y)
    <2>1. row.rev \in Nat
      BY DEF BaseInv, TypeOK
    <2>2. Loaded(y) => y.copy = row
      BY <1>1 DEF Loaded, Makers
    <2> QED
      BY <2>1, <2>2 DEF ReadRow
  <1>8. GateSeen(y)
    BY <1>1, <1>4 DEF GateSeen, Loaded
  <1>9. y.op = "Approve" => y.arg \in 1..Latest(y.kind)
    BY <1>1 DEF Makers
  <1>10. Knows(y)
    BY <1>5, <1>6, <1>7, <1>8, <1>9 DEF Knows, WrittenRow
  <1> QED
    BY <1>1, <1>2, <1>3, <1>4, <1>10, NothingCommitted DEF y, SameCommits

\* The statements that look at a gate, the verdict and the latest design.
LEMMA GatePlaces ==
    /\ \A op \in DOMAIN GateCheck : /\ Program[op][GateCheck[op] - 1] = "latest"
                                    /\ Program[op][GateCheck[op]] = "approved"
    /\ Program["ApproveDesign"][4] = "verdict"
    /\ Program["SaveVerification"][1] = "design"
  BY DEF GateCheck, Program

\* The gate that a transaction looks at is the one its program asks for, and
\* the version it sees as approved has been.
LEMMA GateFacts ==
    ASSUME BaseInv, NEW t \in Txns, At(t, "latest") \/ At(t, "approved")
    PROVE  /\ txn[t].op \in DOMAIN GateCheck
           /\ GateOf(t) = GateKind(txn[t].op)
           /\ GateOf(t) \in ArtifactKinds
           /\ ApprovedVersion(GateOf(t)) # 0 =>
                 ApprovedVersion(GateOf(t)) \in CommittedApprovals(GateOf(t))
  <1>1. txn[t].op \in DOMAIN GateCheck /\ GateOf(t) = GateKind(txn[t].op)
        /\ GateOf(t) \in ArtifactKinds
    BY GateIsAKind DEF GateKind
  <1>2. approval[GateOf(t)] \subseteq ApprovalRows /\ IsFiniteSet(approval[GateOf(t)])
    BY <1>1 DEF BaseInv, TypeOK
  <1> QED
    BY <1>1, <1>2, ApprovedIsCommitted

LEMMA ReadKeepsDeep ==
    ASSUME BaseInv, DeepInv, NEW t \in Txns,
           \/ Load(t) \/ ReadLatest(t) \/ ReadApproved(t) \/ ReadVerdict(t)
           \/ ReadResources(t) \/ ReadDesign(t)
    PROVE  DeepInv' /\ SameCommits
  <1>1. CASE Rollback(t)
    BY <1>1, RollbackKeepsDeep
  <1>2. CASE ~Rollback(t)
    <2> DEFINE x == txn[t]
               y == txn'[t]
    <2>1. /\ txn' = [txn EXCEPT ![t] = y] /\ UNCHANGED <<tables, holder>>
          /\ y \in Transactions /\ SameCall(y, x) /\ y.at = x.at + 1
          /\ \/ At(t, "load") /\ y.copy = row
             \/ /\ y.copy = x.copy
                /\ \/ /\ At(t, "latest")
                      /\ Latest(GateOf(t)) # 0 /\ y.seen = Latest(GateOf(t))
                   \/ At(t, "approved") /\ ApprovedVersion(GateOf(t)) = x.seen
                   \/ /\ At(t, "verdict")
                      /\ artifact["VERIFICATION"][Latest("VERIFICATION")].good
                   \/ At(t, "complete")
                   \/ At(t, "design") /\ x.arg = Latest("DESIGN")
      BY <1>2, ReadFacts
    <2>2. PICK s \in {"load", "complete", "design", "latest", "approved", "verdict"} :
             /\ At(t, s)
             /\ s # "load" => y.copy = x.copy
             /\ s = "load" => y.copy = row
             /\ s = "latest" => Latest(GateOf(t)) # 0 /\ y.seen = Latest(GateOf(t))
             /\ s = "approved" => ApprovedVersion(GateOf(t)) = x.seen
             /\ s = "verdict" => artifact["VERIFICATION"][Latest("VERIFICATION")].good
             /\ s = "design" => x.arg = Latest("DESIGN")
      BY <2>1
    <2>3. /\ x \in Transactions /\ TxnInv(x) /\ x.op \in Operations /\ x.at \in 1..Last(x.op)
          /\ Last(x.op) \in Nat /\ Program[x.op][x.at] = s
      BY <2>2, AtFacts
    <2>4. /\ s = "latest" => y.seen = Latest(GateKind(x.op)) /\ y.seen # 0
          /\ s = "approved" /\ x.seen # 0 => x.seen \in CommittedApprovals(GateKind(x.op))
      BY <2>2, GateFacts
    <2>5. /\ x.at < Last(x.op)
          /\ x.op \in Makers => x.at < FirstWrite[x.op] /\ FirstWrite[x.op] = Last(x.op) - 2
          /\ x.op \in Writers => x.at # FirstWrite[x.op] /\ FirstWrite[x.op] \in Nat
          /\ x.op \in Makers \/ x.op = "ApproveDesign"
      BY <2>3, ReadPlaces
    <2>6. /\ s = "design" => x.op = "SaveVerification" /\ x.at = 1
          /\ s = "load" <=> x.op = "ApproveDesign" /\ x.at = 1
          /\ s = "latest" => /\ x.op \in DOMAIN GateCheck
                             /\ \/ x.at = GateCheck[x.op] - 1
                                \/ x.op = "ApproveDesign" /\ x.at = 6
          /\ s = "approved" => /\ x.op \in DOMAIN GateCheck
                               /\ \/ x.at = GateCheck[x.op]
                                  \/ x.op = "ApproveDesign" /\ x.at = 7
          /\ s = "verdict" => x.op = "ApproveDesign" /\ x.at \in {4, 8}
          /\ s = "complete" => x.op = "ArtDirect" /\ x.at = 1
      <3> HIDE DEF x
      <3> QED
        BY <2>3, Places
    <2>7. Knows(x)
      BY DEF DeepInv
    <2>8. RowsInv'
      BY <2>1, <2>6, <2>5, RowsOfOthers DEF tables, Makers
    <2>9. SameCommits
      BY <2>1, SameTables
    <2> HIDE DEF x, y
    <2>10. y.op = x.op /\ y.arg = x.arg /\ y.kind = x.kind /\ y.type = x.type
      BY <2>1 DEF SameCall
    <2>11. Written(y) <=> Written(x)
      BY <2>1, <2>3, <2>5, <2>10 DEF Written
    <2>12. /\ "ApproveDesign" \notin Makers /\ "ApproveDesign" \in Writers
           /\ FirstWrite["ApproveDesign"] = 5 /\ GateCheck["ApproveDesign"] = 3
           /\ x.op # "Approve" /\ x.op # "CreateProject"
           /\ x.op \in DOMAIN GateCheck => GateCheck[x.op] \in Nat /\ GateCheck[x.op] > 1
           /\ x.op # "SaveVerification" \/ x.op \notin DOMAIN GateCheck
           /\ Makers \subseteq Writers
      BY <2>5 DEF Makers, Writers, FirstWrite, GateCheck
    <2>13. CASE s = "load"
      <3>1. ~Written(y)
        BY <2>1, <2>6, <2>10, <2>12, <2>13 DEF Written
      <3>2. ReadRow(y)
        BY <2>2, <2>13 DEF ReadRow, BaseInv, TypeOK
      <3>3. GateSeen(y)
        BY <2>1, <2>6, <2>10, <2>12, <2>13 DEF GateSeen
      <3> QED
        BY <3>1, <3>2, <3>3, <2>1, <2>3, <2>8, <2>9, <2>10, <2>12, NothingCommitted
        DEF Knows, WrittenRow, SameCommits, y, x
    <2>14. CASE s # "load"
      <3>1. y.copy = x.copy
        BY <2>2, <2>14
      <3>2. Loaded(x) /\ Loaded(y)
        BY <2>1, <2>3, <2>5, <2>6, <2>10, <2>14 DEF Loaded
      <3>3. ReadRow(y)
        BY <2>7, <2>11, <3>1, <3>2 DEF ReadRow, Knows
      <3>4. WrittenRow(y)
        <4> SUFFICES ASSUME Written(y) PROVE WrittenRow(y)
          BY DEF WrittenRow
        <4>1. Written(x) /\ x.op = "ApproveDesign" /\ x.at \in 6..8
          BY <2>3, <2>5, <2>6, <2>11, <2>12 DEF Written
        <4> QED
          BY <2>1, <2>7, <2>10, <2>12, <3>1, <4>1 DEF WrittenRow, Knows
      <3>5. GateSeen(y)
        <4> SUFFICES ASSUME Current(y) PROVE GateSeen(y)
          BY DEF GateSeen
        <4>1. Current(x)
          BY <2>11, <3>1 DEF Current
        <4>2. /\ x.op \in DOMAIN GateCheck /\ x.at = GateCheck[x.op]
                    => x.seen = Latest(GateKind(x.op)) /\ x.seen # 0
              /\ x.op \in DOMAIN GateCheck /\ x.at > GateCheck[x.op] => Signed(GateKind(x.op))
              /\ x.op = "ApproveDesign" /\ x.at > 4
                    => artifact["VERIFICATION"][Latest("VERIFICATION")].good
              /\ x.op = "SaveVerification" /\ x.at > 1 => x.arg = Latest("DESIGN")
          BY <2>7, <3>2, <4>1 DEF Knows, GateSeen
        <4>3. y.op \in DOMAIN GateCheck /\ y.at = GateCheck[y.op]
                => y.seen = Latest(GateKind(y.op)) /\ y.seen # 0
          <5> HAVE y.op \in DOMAIN GateCheck /\ y.at = GateCheck[y.op]
          <5>1. y.at = GateCheck[x.op] /\ x.op \in DOMAIN GateCheck
            BY <2>10
          <5>2. y.at = x.at + 1
            BY <2>1
          <5>3. x.at \in Int
            BY <2>3
          <5>4. x.at = GateCheck[x.op] - 1
            BY <5>1, <5>2, <5>3
          <5>5. s = "latest"
            BY <2>3, <2>10, <5>4, GatePlaces
          <5> QED
            BY <2>4, <2>10, <5>5
        <4>4. y.op \in DOMAIN GateCheck /\ y.at > GateCheck[y.op] => Signed(GateKind(y.op))
          <5> HAVE y.op \in DOMAIN GateCheck /\ y.at > GateCheck[y.op]
          <5>1. CASE x.at > GateCheck[x.op]
            BY <2>10, <4>2, <5>1
          <5>2. CASE ~(x.at > GateCheck[x.op])
            <6>1. x.at = GateCheck[x.op]
              BY <2>1, <2>3, <2>10, <2>12, <5>2
            <6>2. s = "approved"
              BY <2>3, <2>10, <6>1, GatePlaces
            <6> QED
              BY <2>4, <2>10, <4>2, <6>1, <6>2 DEF Signed
          <5> QED
            BY <5>1, <5>2
        <4>5. y.op = "ApproveDesign" /\ y.at > 4
                 => artifact["VERIFICATION"][Latest("VERIFICATION")].good
          <5> HAVE y.op = "ApproveDesign" /\ y.at > 4
          <5>1. CASE x.at > 4
            BY <2>10, <4>2, <5>1
          <5>2. CASE ~(x.at > 4)
            <6>1. x.at = 4
              BY <2>1, <2>3, <5>2
            <6>2. s = "verdict"
              BY <2>3, <2>10, <6>1, GatePlaces
            <6> QED
              BY <2>2, <6>2
          <5> QED
            BY <5>1, <5>2
        <4>6. y.op = "SaveVerification" /\ y.at > 1 => y.arg = Latest("DESIGN")
          <5> HAVE y.op = "SaveVerification" /\ y.at > 1
          <5>1. CASE x.at > 1
            BY <2>10, <4>2, <5>1
          <5>2. CASE ~(x.at > 1)
            <6>1. x.at = 1
              BY <2>3, <5>2
            <6>2. s = "design"
              BY <2>3, <2>10, <6>1, GatePlaces
            <6> QED
              BY <2>2, <2>10, <6>2
          <5> QED
            BY <5>1, <5>2
        <4> QED
          BY <4>3, <4>4, <4>5, <4>6 DEF GateSeen
      <3> QED
        BY <3>3, <3>4, <3>5, <2>1, <2>3, <2>8, <2>9, <2>10, <2>12, NothingCommitted
        DEF Knows, SameCommits, y, x
    <2> QED
      BY <2>13, <2>14
  <1> QED
    BY <1>1, <1>2

LEMMA InsertKeepsDeep ==
    ASSUME BaseInv, DeepInv, NEW t \in Txns, InsertApproval(t)
    PROVE  DeepInv' /\ SameCommits
  <1> DEFINE x == txn[t]
             y == txn'[t]
             new == [id |-> NextId(x.kind), v |-> x.arg, by |-> t]
  <1>1. /\ x.op = "Approve" /\ x.at = 1
        /\ txn' = [txn EXCEPT ![t] = y] /\ UNCHANGED <<row, artifact, created, holder>>
        /\ y \in Transactions /\ SameCall(y, x) /\ y.at = 2
    BY InsertFacts
  <1>2. x \in Transactions /\ x.arg \in 1..Latest(x.kind)
    BY <1>1 DEF BaseInv, TypeOK, DeepInv, Knows
  <1>3. ASSUME NEW k \in ArtifactKinds, NEW r \in approval'[k]
        PROVE  r \in approval[k] \/ (r = new /\ k = x.kind)
    <2>1. approval \in [ArtifactKinds -> SUBSET ApprovalRows]
      BY DEF BaseInv, TypeOK
    <2>2. \/ approval' = approval
          \/ approval' = [approval EXCEPT ![x.kind] = @ \cup {new}]
      BY DEF InsertApproval
    <2> HIDE DEF new
    <2> QED
      BY <2>1, <2>2
  <1>4. \A k \in ArtifactKinds : approval[k] \subseteq approval'[k]
    <2>1. approval \in [ArtifactKinds -> SUBSET ApprovalRows]
      BY DEF BaseInv, TypeOK
    <2> HIDE DEF new
    <2> QED
      BY <2>1 DEF InsertApproval
  <1>5. new.by = t /\ new.v = x.arg /\ t # NoTxn
    BY TxnsAssumption
  <1>6. \A k \in ArtifactKinds : CommittedApprovals(k)' = CommittedApprovals(k)
    <2> HIDE DEF new
    <2> QED
      BY <1>3, <1>4, <1>5 DEF CommittedApprovals, CommittedRows
  <1>7. y.op = "Approve" /\ y.kind = x.kind /\ y.arg = x.arg /\ y.type = x.type
    BY <1>1 DEF SameCall
  <1>8. RowsInv'
    <2> SUFFICES ASSUME NEW k \in ArtifactKinds, NEW r \in approval'[k]
                 PROVE  /\ r.v \in 1..Latest(k)
                        /\ r.by # NoTxn => /\ txn'[r.by].op = "Approve" /\ txn'[r.by].at = 2
                                           /\ txn'[r.by].kind = k /\ txn'[r.by].arg = r.v
      BY <1>1 DEF RowsInv, Latest
    <2>1. CASE r \in approval[k]
      <3>1. r.by \in Txns \cup {NoTxn}
        BY <2>1 DEF BaseInv, TypeOK, ApprovalRows
      <3>2. \A u \in Txns \ {t} : txn'[u] = txn[u]
        BY <1>1 DEF BaseInv, TypeOK
      <3> QED
        BY <1>1, <2>1, <3>1, <3>2 DEF DeepInv, RowsInv
    <2>2. CASE r = new /\ k = x.kind
      BY <1>1, <1>2, <1>5, <1>7, <2>2
    <2> QED
      BY <1>3, <2>1, <2>2
  <1> HIDE DEF y
  <1>9. ~Loaded(y) /\ ~Written(y) /\ y.op \in Operations
    BY <1>7, Lengths DEF Loaded, Written, Makers, Writers
  <1>10. Knows(y)
    BY <1>2, <1>7, <1>9 DEF Knows, ReadRow, WrittenRow, GateSeen
  <1> QED
    BY <1>1, <1>6, <1>7, <1>8, <1>9, <1>10, NothingCommitted DEF SameCommits, y

\* The first UPDATE of a move: it succeeds only on the row that was read.
LEMMA UpdateKeepsDeep ==
    ASSUME BaseInv, DeepInv, NEW t \in Txns, UpdateStage(t)
    PROVE  DeepInv' /\ SameCommits
  <1>1. CASE Rollback(t)
    BY <1>1, RollbackKeepsDeep
  <1>2. CASE ~Rollback(t)
    <2> DEFINE x == txn[t]
               y == txn'[t]
               m == Moves[x.op]
    <2>1. /\ holder \in {NoTxn, t} /\ (holder = t \/ row.rev = x.copy.rev)
          /\ txn' = [txn EXCEPT ![t] = y] /\ UNCHANGED tables /\ holder' = t
          /\ x \in Transactions /\ TxnInv(x)
          /\ y \in Transactions /\ SameCall(y, x) /\ y.at = x.at + 1 /\ y.made = x.made
          /\ y.copy = [stage |-> Target(t), rev |-> x.copy.rev + 1, final |-> x.copy.final]
          /\ \/ x.op \in Makers /\ x.at = FirstWrite[x.op]
             \/ x.op = "ApproveDesign" /\ x.at \in {5, 9}
      BY <1>2, UpdateFacts
    <2>2. Target(t) = IF x.copy.stage = m.via THEN m.end ELSE m.via
      BY DEF Target
    <2>3. holder = t <=> Written(x)
      BY DEF BaseInv
    <2>4. Knows(x)
      BY DEF DeepInv
    <2>5. SameCommits
      BY <2>1, SameTables
    <2>6. RowsInv'
      BY <2>1, RowsOfOthers DEF tables, Makers
    <2> HIDE DEF x, y, m
    <2>7. y.op = x.op /\ y.arg = x.arg /\ y.kind = x.kind /\ y.type = x.type
      BY <2>1 DEF SameCall
    <2>8. /\ x.op \in Writers /\ x.op \in Movers /\ x.op # "Approve" /\ x.op # "CreateProject"
          /\ "ApproveDesign" \notin Makers /\ x.op \in Operations
          /\ FirstWrite["ApproveDesign"] = 5 /\ GateCheck["ApproveDesign"] = 3
          /\ FirstWrite[x.op] \in Nat
          /\ x.op \in DOMAIN GateCheck => GateCheck[x.op] \in Nat /\ GateCheck[x.op] < FirstWrite[x.op]
          /\ FirstWrite["SaveVerification"] = 2
      BY <2>1, Lengths DEF Writers, Movers, Makers, FirstWrite, GateCheck
    <2>9. x.at \in Nat /\ x.copy.rev \in Nat /\ row.rev \in Nat /\ Loaded(x) /\ Loaded(y)
          /\ x.at >= FirstWrite[x.op]
      <3>1. x.at \in Nat /\ x.copy.rev \in Nat /\ row.rev \in Nat
        BY <2>1 DEF Transactions, BaseInv, TypeOK
      <3>2. Loaded(x) /\ Loaded(y)
        BY <2>1, <2>7, <3>1 DEF Loaded
      <3> QED
        BY <2>1, <2>8, <3>1, <3>2
    <2>10. Written(y)
      BY <2>1, <2>7, <2>8, <2>9 DEF Written
    <2>11. Current(x)
      BY <2>1, <2>3 DEF Current
    <2>12. y.copy.rev = x.copy.rev + 1 /\ y.copy.final = x.copy.final /\ y.copy.stage = Target(t)
      BY <2>1
    <2>13. WrittenRow(y)
      <3>1. CASE ~Written(x)
        <4>1. x.copy = row
          BY <2>1, <2>3, <2>4, <2>9, <3>1 DEF Knows, ReadRow
        <4>2. row.stage \in m.from /\ m.via \in AllowedTransitions(row.stage)
          BY <2>1, <2>9, <3>1, <4>1 DEF TxnInv, m
        <4>3. y.copy.stage = m.via
          BY <2>2, <2>8, <2>12, <4>1, <4>2, MoveFacts DEF m
        <4>4. ~(y.at > (IF y.op = "ApproveDesign" THEN 9 ELSE FirstWrite[y.op] + 1))
              /\ ~(y.op = "ApproveDesign" /\ y.at = 11)
          <5>1. CASE x.op = "ApproveDesign"
            BY <2>1, <2>7, <2>8, <3>1, <5>1 DEF Written
          <5>2. CASE x.op # "ApproveDesign"
            BY <2>1, <2>7, <2>8, <2>9, <5>2
          <5> QED
            BY <5>1, <5>2
        <4> QED
          BY <2>7, <2>9, <2>12, <4>1, <4>2, <4>3, <4>4 DEF WrittenRow, m
      <3>2. CASE Written(x)
        <4>1. x.op = "ApproveDesign" /\ x.at = 9
          BY <2>1, <2>8, <3>2 DEF Written
        <4>2. /\ x.copy.rev > row.rev /\ row.stage \in m.from
              /\ m.via \in AllowedTransitions(row.stage)
              /\ x.copy.final = row.final /\ x.copy.stage = m.via
          BY <2>4, <2>8, <3>2, <4>1 DEF Knows, WrittenRow, m
        <4> QED
          BY <2>1, <2>2, <2>7, <2>9, <2>12, <4>1, <4>2 DEF WrittenRow, m
      <3> QED
        BY <3>1, <3>2
    <2>14. GateSeen(y)
      <3>1. /\ x.op \in DOMAIN GateCheck /\ x.at > GateCheck[x.op] => Signed(GateKind(x.op))
            /\ x.op = "ApproveDesign" /\ x.at > 4
                  => artifact["VERIFICATION"][Latest("VERIFICATION")].good
            /\ x.op = "SaveVerification" /\ x.at > 1 => x.arg = Latest("DESIGN")
        BY <2>4, <2>9, <2>11 DEF Knows, GateSeen
      <3>2. /\ x.op \in DOMAIN GateCheck => x.at > GateCheck[x.op] /\ y.at # GateCheck[x.op]
            /\ x.op = "ApproveDesign" => x.at > 4
            /\ x.op = "SaveVerification" => x.at > 1
        BY <2>1, <2>8, <2>9
      <3> QED
        BY <2>7, <3>1, <3>2 DEF GateSeen
    <2>15. Knows(y)
      BY <2>7, <2>8, <2>10, <2>13, <2>14 DEF Knows, ReadRow
    <2> QED
      BY <2>1, <2>5, <2>6, <2>7, <2>8, <2>15, NothingCommitted DEF SameCommits, x, y
  <1> QED
    BY <1>1, <1>2

LEMMA SaveKeepsDeep ==
    ASSUME BaseInv, DeepInv, NEW t \in Txns, SaveFinal(t)
    PROVE  DeepInv' /\ SameCommits
  <1> DEFINE x == txn[t]
             y == txn'[t]
  <1>1. /\ txn' = [txn EXCEPT ![t] = y] /\ UNCHANGED <<tables, holder>>
        /\ x \in Transactions /\ TxnInv(x) /\ x.op = "ApproveDesign" /\ x.at = 10
        /\ y \in Transactions /\ SameCall(y, x) /\ y.at = 11 /\ y.made = x.made
        /\ y.copy = [stage |-> x.copy.stage, rev |-> x.copy.rev + 1,
                     final |-> artifact["VERIFICATION"][x.arg].design]
    BY SaveFacts
  <1>2. Knows(x)
    BY DEF DeepInv
  <1>3. SameCommits
    BY <1>1, SameTables
  <1>4. RowsInv'
    BY <1>1, RowsOfOthers DEF tables
  <1> HIDE DEF x, y
  <1>5. y.op = x.op /\ y.arg = x.arg /\ y.kind = x.kind /\ y.type = x.type
    BY <1>1 DEF SameCall
  <1>6. /\ x.op \in Writers /\ x.op \in Operations /\ FirstWrite[x.op] = 5 /\ GateCheck[x.op] = 3
        /\ x.op \in DOMAIN GateCheck
    BY <1>1, Lengths DEF Writers, FirstWrite, GateCheck
  <1>7. Written(x) /\ Written(y) /\ Loaded(x)
    BY <1>1, <1>5, <1>6 DEF Written, Loaded
  <1>8. x.copy.rev \in Nat /\ row.rev \in Nat
    BY <1>1 DEF Transactions, BaseInv, TypeOK
  <1>9. WrittenRow(y)
    <2>1. /\ x.copy.rev > row.rev /\ row.stage \in Moves[x.op].from
          /\ Moves[x.op].via \in AllowedTransitions(row.stage)
          /\ x.copy.stage = Moves[x.op].end
      BY <1>1, <1>2, <1>7 DEF Knows, WrittenRow
    <2>2. /\ y.copy.rev = x.copy.rev + 1 /\ y.copy.stage = x.copy.stage
          /\ y.copy.final = artifact["VERIFICATION"][y.arg].design
      BY <1>1, <1>5
    <2> QED
      BY <1>1, <1>5, <1>8, <2>1, <2>2 DEF WrittenRow
  <1>10. GateSeen(y)
    <2>1. Signed(GateKind(x.op)) /\ artifact["VERIFICATION"][Latest("VERIFICATION")].good
      BY <1>1, <1>2, <1>6, <1>7 DEF Knows, GateSeen, Current
    <2> QED
      BY <1>1, <1>5, <1>6, <2>1 DEF GateSeen
  <1>11. Knows(y)
    BY <1>1, <1>5, <1>7, <1>9, <1>10 DEF Knows, ReadRow
  <1> QED
    BY <1>1, <1>3, <1>4, <1>5, <1>6, <1>11, NothingCommitted DEF SameCommits, x, y

LEMMA FinishKeepsDeep ==
    ASSUME BaseInv, DeepInv, NEW t \in Txns, Finish(t)
    PROVE  DeepInv' /\ SameCommits
  <1> DEFINE x == txn[t]
             y == txn'[t]
             m == Moves[x.op]
  <1>1. /\ txn' = [txn EXCEPT ![t] = y] /\ UNCHANGED <<tables, holder>>
        /\ x \in Transactions /\ TxnInv(x) /\ x.op \in Makers
        /\ x.at = FirstWrite[x.op] + 1 /\ x.at \in Nat
        /\ y \in Transactions /\ SameCall(y, x) /\ y.at = x.at + 1
        /\ y.copy = [stage |-> Target(t), rev |-> x.copy.rev + 1, final |-> x.copy.final]
    BY FinishFacts
  <1>2. Target(t) = IF x.copy.stage = m.via THEN m.end ELSE m.via
    BY DEF Target
  <1>3. Knows(x)
    BY DEF DeepInv
  <1>4. SameCommits
    BY <1>1, SameTables
  <1>5. RowsInv'
    BY <1>1, RowsOfOthers DEF tables, Makers
  <1> HIDE DEF x, y, m
  <1>6. y.op = x.op /\ y.arg = x.arg /\ y.kind = x.kind /\ y.type = x.type
    BY <1>1 DEF SameCall
  <1>7. /\ x.op \in Writers /\ x.op \in Operations /\ x.op # "CreateProject" /\ x.op # "Approve"
        /\ x.op # "ApproveDesign" /\ FirstWrite[x.op] \in Nat /\ FirstWrite[x.op] >= 1
        /\ x.op \in DOMAIN GateCheck => GateCheck[x.op] \in Nat /\ GateCheck[x.op] < FirstWrite[x.op]
    BY <1>1, Lengths DEF Writers, Makers, FirstWrite, GateCheck
  <1>8. Written(x) /\ Written(y) /\ Loaded(x)
    BY <1>1, <1>6, <1>7 DEF Written, Loaded
  <1>9. x.copy.rev \in Nat /\ row.rev \in Nat
    BY <1>1 DEF Transactions, BaseInv, TypeOK
  <1>10. WrittenRow(y)
    <2>1. /\ x.copy.rev > row.rev /\ row.stage \in m.from
          /\ m.via \in AllowedTransitions(row.stage)
          /\ x.copy.stage = m.via /\ x.copy.final = row.final
      BY <1>1, <1>3, <1>7, <1>8 DEF Knows, WrittenRow, m
    <2>2. /\ y.copy.rev = x.copy.rev + 1 /\ y.copy.stage = m.end /\ y.copy.final = row.final
      BY <1>1, <1>2, <2>1
    <2>3. y.at > FirstWrite[y.op] + 1
      BY <1>1, <1>6, <1>7
    <2> QED
      BY <1>6, <1>7, <1>9, <2>1, <2>2, <2>3 DEF WrittenRow, m
  <1>11. GateSeen(y)
    <2>1. /\ x.op \in DOMAIN GateCheck => x.at > GateCheck[x.op] /\ y.at # GateCheck[x.op]
          /\ x.at > 1
      BY <1>1, <1>7
    <2>2. /\ x.op \in DOMAIN GateCheck => Signed(GateKind(x.op))
          /\ x.op = "SaveVerification" => x.arg = Latest("DESIGN")
      BY <1>3, <1>8, <2>1 DEF Knows, GateSeen, Current
    <2> QED
      BY <1>6, <1>7, <2>1, <2>2 DEF GateSeen
  <1>12. Knows(y)
    BY <1>6, <1>7, <1>8, <1>10, <1>11 DEF Knows, ReadRow
  <1> QED
    BY <1>1, <1>4, <1>5, <1>6, <1>7, <1>12, NothingCommitted DEF SameCommits, x, y

LEMMA UpsertKeepsDeep ==
    ASSUME BaseInv, DeepInv, NEW t \in Txns, UpsertProject(t)
    PROVE  DeepInv' /\ SameCommits
  <1> DEFINE x == txn[t]
             y == txn'[t]
  <1>1. /\ txn' = [txn EXCEPT ![t] = y] /\ UNCHANGED tables
        /\ x \in Transactions /\ TxnInv(x) /\ x.op = "CreateProject" /\ x.at = 1
        /\ y \in Transactions /\ SameCall(y, x)
        /\ y.copy = [stage |-> "DRAFT", rev |-> row.rev, final |-> 0]
    BY UpsertFacts
  <1>2. Knows(x)
    BY DEF DeepInv
  <1>3. SameCommits
    BY <1>1, SameTables
  <1>4. RowsInv'
    BY <1>1, RowsOfOthers DEF tables
  <1> HIDE DEF x, y
  <1>5. y.op = x.op /\ y.type = x.type
    BY <1>1 DEF SameCall
  <1>6. x.op \in Operations /\ x.op \notin Makers
    BY <1>1, Lengths DEF Writers, Makers
  <1>7. ~Loaded(y)
    BY <1>1, <1>5, <1>6 DEF Loaded
  <1>8. Knows(y)
    BY <1>1, <1>2, <1>5, <1>7 DEF Knows, ReadRow, WrittenRow, GateSeen
  <1> QED
    BY <1>1, <1>3, <1>4, <1>5, <1>6, <1>8, NothingCommitted DEF SameCommits, x, y


-----------------------------------------------------------------------------
(* A commit, which is one step of the contract.                            *)

LEMMA CommitFacts ==
    ASSUME BaseInv, DeepInv, NEW t \in Txns, Commit(t)
    PROVE  LET x == txn[t]
           IN  /\ x \in Transactions /\ TxnInv(x) /\ Knows(x)
               /\ x.op \in Operations /\ x.at = Last(x.op)
               /\ txn' = [txn EXCEPT ![t] = Idle] /\ txn'[t] = Idle
               /\ \A u \in Txns \ {t} : txn'[u] = txn[u]
               /\ x.op \in Writers => Written(x) /\ holder = t /\ row' = x.copy
               /\ x.op = "Approve" => row' = row
               /\ x.op \in Makers =>
                     artifact' = [artifact EXCEPT ![x.kind] =
                                      Append(@, [design |-> x.arg, good |-> x.good])]
               /\ x.op \notin Makers => artifact' = artifact
               /\ x.op = "CreateProject" => created' = created \cup {x.type}
               /\ x.op # "CreateProject" => created' = created
               /\ x.op # "Approve" => approval' = approval
  <1> DEFINE x == txn[t]
  <1>1. /\ x \in Transactions /\ TxnInv(x) /\ x.op \in Operations /\ x.at = Last(x.op)
        /\ Last(x.op) \in Nat
    BY AtFacts, Places DEF Commit
  <1>2. Knows(x)
    BY DEF DeepInv
  <1>3. txn' = [txn EXCEPT ![t] = Idle] /\ txn'[t] = Idle
        /\ \A u \in Txns \ {t} : txn'[u] = txn[u]
    BY DEF Commit, BaseInv, TypeOK
  <1>4. holder = t <=> Written(x)
    BY DEF BaseInv
  <1>5. x.op \in Writers <=> Written(x)
    <2> HIDE DEF x
    <2> QED
      BY <1>1, Lengths DEF Written, Writers, Makers, FirstWrite
  <1>6. x.op \in Writers => Written(x) /\ holder = t /\ row' = x.copy
    BY <1>4, <1>5 DEF Commit
  <1>7. x.op = "Approve" => row' = row
    BY <1>4, <1>5, Lengths DEF Commit, Writers, Makers
  <1>8. /\ x.op \in Makers =>
              artifact' = [artifact EXCEPT ![x.kind] =
                               Append(@, [design |-> x.arg, good |-> x.good])]
        /\ x.op \notin Makers => artifact' = artifact
    BY <1>1 DEF Commit, TxnInv
  <1>9. /\ x.op = "CreateProject" => created' = created \cup {x.type}
        /\ x.op # "CreateProject" => created' = created
    <2>1. x.type # "none" => x.type \in ProjectTypes
      BY <1>1 DEF Transactions
    <2>2. created' = created \cup (ProjectTypes \cap {x.type})
      BY DEF Commit
    <2>3. x.op = "CreateProject" <=> x.type # "none"
      BY <1>1 DEF TxnInv
    <2> HIDE DEF x
    <2> QED
      BY <2>1, <2>2, <2>3, TypesAssumption
  <1>10. x.op # "Approve" => approval' = approval
    <2> HAVE x.op # "Approve"
    <2>1. ASSUME NEW k \in ArtifactKinds PROVE \A r \in approval[k] : r.by # t
      BY TxnsAssumption DEF DeepInv, RowsInv
    <2>2. approval' = [j \in ArtifactKinds |->
              {IF r.by = t THEN [r EXCEPT !.by = NoTxn] ELSE r : r \in approval[j]}]
      BY DEF Commit
    <2>3. \A j \in ArtifactKinds : approval'[j] = approval[j]
      BY <2>1, <2>2
    <2>4. approval \in [ArtifactKinds -> SUBSET ApprovalRows]
      BY DEF BaseInv, TypeOK
    <2> QED
      BY <2>2, <2>3, <2>4
  <1> QED
    BY <1>1, <1>2, <1>3, <1>6, <1>7, <1>8, <1>9, <1>10

\* The rows of the others, when the transaction that commits has none.
LEMMA RowsAfterCommit ==
    ASSUME BaseInv, DeepInv, NEW t \in Txns, Commit(t), txn[t].op # "Approve",
           \A k \in ArtifactKinds : 1..Latest(k) \subseteq 1..Latest(k)'
    PROVE  RowsInv'
  <1>1. approval' = approval /\ \A u \in Txns \ {t} : txn'[u] = txn[u]
    BY CommitFacts
  <1> SUFFICES ASSUME NEW k \in ArtifactKinds, NEW r \in approval[k]
               PROVE  /\ r.v \in 1..Latest(k)'
                      /\ r.by # NoTxn => /\ txn'[r.by].op = "Approve" /\ txn'[r.by].at = 2
                                         /\ txn'[r.by].kind = k /\ txn'[r.by].arg = r.v
    BY <1>1 DEF RowsInv
  <1>2. r.by \in Txns \cup {NoTxn}
    BY DEF BaseInv, TypeOK, ApprovalRows
  <1> QED
    BY <1>1, <1>2 DEF DeepInv, RowsInv

\* Where a move may start from, and where it ends.
LEMMA MovePhases ==
    ASSUME NEW op \in Movers, NEW s \in Settled, s \in Moves[op].from,
           Moves[op].via \in AllowedTransitions(s)
    PROVE  /\ s # "NONE" /\ Moves[op].end \in Settled /\ Moves[op].end # "NONE"
           /\ Moves[op].kind \in ArtifactKinds
           /\ op \in Makers => /\ Phase[s] \in (PhaseOf[Moves[op].kind] - 1)..7
                               /\ Phase[Moves[op].end] = PhaseOf[Moves[op].kind]
           /\ op = "SaveVerification" => Phase[s] = 6 /\ Moves[op].kind = "VERIFICATION"
           /\ op \in Makers \ {"SaveVerification"} =>
                 Phase[s] < 7 /\ Phase[Moves[op].end] < 7 /\ Moves[op].kind # "VERIFICATION"
           /\ op = "CreateDesign" <=> Moves[op].kind = "DESIGN"
           /\ op = "ApproveDesign" => Phase[s] = 7 /\ Phase[Moves[op].end] = 8
           /\ \A j \in ArtifactKinds \ {"DESIGN"} :
                 op \in Makers /\ PhaseOf[j] = PhaseOf[Moves[op].kind] - 1 =>
                    op \in DOMAIN GateCheck /\ j = RequiredApproval[Moves[op].via]
  <1> USE DEF Makers, Moves, Settled, Phase, PhaseOf, AllowedTransitions, NextStages,
          ProjectStages, ArtifactKinds, ReviewKinds, GateCheck, RequiredApproval
  <1>1. CASE op = "StartAnalysis"
    BY <1>1
  <1>2. CASE op = "Structure"
    BY <1>2
  <1>3. CASE op = "ResolveResources"
    BY <1>3
  <1>4. CASE op = "ArtDirect"
    BY <1>4
  <1>5. CASE op = "CreateDesign"
    BY <1>5
  <1>6. CASE op = "SaveVerification"
    BY <1>6
  <1>7. CASE op = "ApproveDesign"
    BY <1>7
  <1> QED
    BY <1>1, <1>2, <1>3, <1>4, <1>5, <1>6, <1>7 DEF Movers


\* A transaction that moves the project commits a newer revision, so whatever
\* the others have read is out of date.
LEMMA OthersAreLate ==
    ASSUME BaseInv, DeepInv, NEW t \in Txns, Commit(t), txn[t].op \in Movers,
           \A k \in ArtifactKinds : 1..Latest(k) \subseteq 1..Latest(k)',
           NEW u \in Txns \ {t}
    PROVE  Knows(txn[u])'
  <1> DEFINE x == txn[t]
             z == txn[u]
  <1>1. /\ x \in Transactions /\ Knows(x) /\ Written(x) /\ row' = x.copy /\ holder = t
        /\ txn'[u] = z /\ x.op \in Writers /\ x.op # "CreateProject" /\ x.op # "Approve"
    BY CommitFacts DEF Movers, Writers, Makers
  <1>2. z \in Transactions /\ Knows(z) /\ TxnInv(z) /\ ~Written(z)
    BY <1>1 DEF DeepInv, BaseInv, TypeOK
  <1>3. x.copy.rev > row.rev /\ row.stage \in Moves[x.op].from /\ row.stage # "NONE"
        /\ row.rev \in Nat /\ x.copy.rev \in Nat
    <2>1. row.stage \in Settled /\ row.rev \in Nat
      BY DEF DeepInv, DesignInv, BaseInv, TypeOK
    <2> QED
      BY <1>1, <2>1, MovePhases DEF Knows, WrittenRow, Transactions
  <1>4. row'.rev > row.rev /\ row'.rev \in Nat
    BY <1>1, <1>3
  <1>5. Loaded(z) => z.copy.rev <= row.rev /\ z.copy.rev \in Nat
    BY <1>2 DEF Knows, ReadRow, Transactions
  <1>6. z.op # "CreateProject"
    BY <1>2, <1>3 DEF Knows, DeepInv, CreateInv
  <1>7. \A k \in ArtifactKinds : z.op = "Approve" /\ z.kind = k => z.arg \in 1..Latest(k)'
    BY <1>2 DEF Knows
  <1>8. z' = z /\ z.kind \in ArtifactKinds
    BY <1>1, <1>2 DEF Transactions
  <1> HIDE DEF x, z
  <1>9. (Written(z)' <=> Written(z)) /\ (Loaded(z)' <=> Loaded(z))
    BY <1>8 DEF Written, Loaded
  <1>10. Loaded(z) => z.copy.rev < row'.rev
    BY <1>3, <1>4, <1>5
  <1>11. ReadRow(z)'
    BY <1>2, <1>4, <1>5, <1>8, <1>9, <1>10 DEF ReadRow
  <1>12. WrittenRow(z)'
    BY <1>2, <1>9 DEF WrittenRow
  <1>13. GateSeen(z)'
    BY <1>2, <1>4, <1>5, <1>8, <1>9, <1>10 DEF GateSeen, Current
  <1>14. (z.op = "Approve" => z.arg \in 1..Latest(z.kind))'
    BY <1>7, <1>8
  <1> QED
    BY <1>2, <1>6, <1>8, <1>11, <1>12, <1>13, <1>14 DEF Knows, z

\* The visible state, as the contract sees it.
Passing == {v \in 1..Latest("VERIFICATION") : artifact["VERIFICATION"][v].good}

LEMMA MakeStep ==
    ASSUME NEW k \in ArtifactKinds, Phase[row.stage] \in (PhaseOf[k] - 1)..7,
           \A j \in ArtifactKinds \ {"DESIGN"} : PhaseOf[j] = PhaseOf[k] - 1 => Signed(j),
           Phase[row'.stage] = PhaseOf[k],
           \A j \in ArtifactKinds : Latest(j)' = IF j = k THEN Latest(j) + 1 ELSE Latest(j),
           \A j \in ArtifactKinds : CommittedApprovals(j)' = CommittedApprovals(j),
           \/ Passing' = Passing
           \/ k = "VERIFICATION" /\ Passing' = Passing \cup {Latest("VERIFICATION")'},
           row'.final = row.final
    PROVE  Contract!ContractNext
  <1>1. Contract!Kinds = ArtifactKinds /\ Contract!MadeIn = PhaseOf
    BY DEF Contract!Kinds, Contract!MadeIn, PhaseOf, ArtifactKinds, ReviewKinds
  <1>2. \A j \in ArtifactKinds : Signed(j) => Contract!SignedOff(j)
    BY DEF Signed, Contract!SignedOff
  <1>3. Contract!Make(k)
    BY <1>1, <1>2 DEF Contract!Make, Passing
  <1> QED
    BY <1>1, <1>3 DEF Contract!ContractNext

\* A move that makes an artifact.
LEMMA MakerCommits ==
    ASSUME BaseInv, DeepInv, NEW t \in Txns, Commit(t), txn[t].op \in Makers
    PROVE  DeepInv' /\ Contract!ContractNext
  <1> DEFINE x == txn[t]
             k == x.kind
             m == Moves[x.op]
             a == [design |-> x.arg, good |-> x.good]
  <1>1. /\ x \in Transactions /\ TxnInv(x) /\ Knows(x) /\ x.at = Last(x.op)
        /\ txn'[t] = Idle /\ Written(x) /\ row' = x.copy
        /\ artifact' = [artifact EXCEPT ![k] = Append(@, a)]
        /\ created' = created /\ approval' = approval
        /\ \A u \in Txns \ {t} : txn'[u] = txn[u]
    BY CommitFacts DEF Writers, Makers
  <1>2. /\ x.op \in Movers /\ x.op # "CreateProject" /\ x.op # "ApproveDesign" /\ x.op # "Approve"
        /\ x.at > FirstWrite[x.op] + 1
        /\ x.op \in DOMAIN GateCheck => x.at > GateCheck[x.op]
        /\ x.op = "SaveVerification" => x.at > 1
    BY <1>1, Lengths DEF Movers, Makers, FirstWrite, GateCheck
  <1>3. k = m.kind
    BY <1>1 DEF TxnInv
  <1>4. /\ row.stage \in m.from /\ m.via \in AllowedTransitions(row.stage)
        /\ row'.stage = m.end /\ row'.final = row.final
    BY <1>1, <1>2 DEF Knows, WrittenRow
  <1>5. row.stage \in Settled
        /\ Latest("VERIFICATION") = IF Phase[row.stage] >= 7 THEN 1 ELSE 0
    BY DEF DeepInv, DesignInv
  <1>6. /\ row.stage # "NONE" /\ m.end \in Settled /\ m.end # "NONE" /\ k \in ArtifactKinds
        /\ Phase[row.stage] \in (PhaseOf[k] - 1)..7 /\ Phase[m.end] = PhaseOf[k]
        /\ x.op = "SaveVerification" => Phase[row.stage] = 6 /\ k = "VERIFICATION"
        /\ x.op # "SaveVerification" => /\ Phase[row.stage] < 7 /\ Phase[m.end] < 7
                                        /\ k # "VERIFICATION"
        /\ \A j \in ArtifactKinds \ {"DESIGN"} : PhaseOf[j] = PhaseOf[k] - 1 =>
              x.op \in DOMAIN GateCheck /\ j = GateKind(x.op)
    BY <1>2, <1>3, <1>4, <1>5, MovePhases DEF GateKind
  <1>7. artifact \in [ArtifactKinds -> Seq(Artifacts)] /\ a \in Artifacts
    BY <1>1 DEF BaseInv, TypeOK, Transactions, Artifacts
  <1>8. /\ \A j \in ArtifactKinds : Latest(j) \in Nat
        /\ \A j \in ArtifactKinds : Latest(j)' = IF j = k THEN Latest(j) + 1 ELSE Latest(j)
        /\ \A j \in ArtifactKinds : \A v \in 1..Latest(j) : artifact'[j][v] = artifact[j][v]
        /\ artifact'[k][Latest(k) + 1] = a
    <2> HIDE DEF a, x
    <2>1. Append(artifact[k], a) \in Seq(Artifacts)
          /\ Len(Append(artifact[k], a)) = Len(artifact[k]) + 1
          /\ Append(artifact[k], a)[Len(artifact[k]) + 1] = a
          /\ \A v \in 1..Len(artifact[k]) : Append(artifact[k], a)[v] = artifact[k][v]
      BY <1>6, <1>7
    <2>2. \A j \in ArtifactKinds :
             artifact'[j] = IF j = k THEN Append(artifact[k], a) ELSE artifact[j]
      BY <1>1, <1>6, <1>7
    <2> HIDE DEF k
    <2>3. \A j \in ArtifactKinds : Len(artifact[j]) \in Nat
      BY <1>7
    <2> QED
      BY <1>6, <2>1, <2>2, <2>3 DEF Latest
  <1>9. \A j \in ArtifactKinds : 1..Latest(j) \subseteq 1..Latest(j)'
    BY <1>8
  <1>10. \A j \in ArtifactKinds : CommittedApprovals(j)' = CommittedApprovals(j)
    BY <1>1 DEF CommittedApprovals, CommittedRows
  <1>11. RowsInv'
    BY <1>2, <1>9, RowsAfterCommit
  <1>12. CreateInv'
    BY <1>1, <1>4, <1>6 DEF DeepInv, CreateInv, Idle
  <1>13. x.op = "SaveVerification" => a.design = Latest("DESIGN")
    BY <1>1, <1>2 DEF Knows, GateSeen, Loaded, Current
  <1>14. DesignInv'
    <2>1. Latest("VERIFICATION")' = IF Phase[m.end] >= 7 THEN 1 ELSE 0
      BY <1>5, <1>6, <1>8 DEF PhaseOf, ArtifactKinds, ReviewKinds
    <2>2. ASSUME Phase[m.end] >= 7
          PROVE  artifact'["VERIFICATION"][1].design = Latest("DESIGN")'
      <3>1. x.op = "SaveVerification" /\ k = "VERIFICATION" /\ Latest("VERIFICATION") = 0
        <4>1. \A n \in Nat : n < 7 => ~(n >= 7)
          OBVIOUS
        <4>2. Phase[m.end] \in Nat
          BY <1>6 DEF PhaseOf, ArtifactKinds, ReviewKinds
        <4>3. x.op = "SaveVerification"
          BY <1>6, <2>2, <4>1, <4>2
        <4> QED
          BY <1>5, <1>6, <4>3
      <3>2. artifact'["VERIFICATION"][1] = a /\ Latest("DESIGN")' = Latest("DESIGN")
        BY <1>8, <3>1 DEF ArtifactKinds
      <3> QED
        BY <1>13, <3>1, <3>2
    <2> QED
      BY <1>4, <1>6, <2>1, <2>2 DEF DesignInv
  <1>15. \A u \in Txns : Knows(txn[u])'
    <2>1. \A u \in Txns \ {t} : Knows(txn[u])'
      BY <1>2, <1>9, OthersAreLate
    <2>2. Knows(txn[t])'
      BY <1>1, IdleKnowsNext
    <2> QED
      BY <2>1, <2>2
  <1>16. \A j \in ArtifactKinds \ {"DESIGN"} : PhaseOf[j] = PhaseOf[k] - 1 => Signed(j)
    BY <1>1, <1>2, <1>6 DEF Knows, GateSeen, Loaded, Current
  <1>17. \/ Passing' = Passing
         \/ k = "VERIFICATION" /\ Passing' = Passing \cup {Latest("VERIFICATION")'}
    <2>1. "VERIFICATION" \in ArtifactKinds
      BY DEF ArtifactKinds, ReviewKinds
    <2>2. CASE k # "VERIFICATION"
      BY <1>8, <2>1, <2>2 DEF Passing
    <2>3. CASE k = "VERIFICATION"
      <3> DEFINE n == Latest("VERIFICATION")
      <3>1. n \in Nat /\ n' = n + 1 /\ artifact'["VERIFICATION"][n + 1] = a
            /\ \A v \in 1..n : artifact'["VERIFICATION"][v] = artifact["VERIFICATION"][v]
        BY <1>8, <2>1, <2>3
      <3>2. Passing = {v \in 1..n : artifact["VERIFICATION"][v].good}
            /\ Passing' = {v \in 1..n' : artifact'["VERIFICATION"][v].good}
        BY DEF Passing
      <3> HIDE DEF n
      <3>3. 1..n' = (1..n) \cup {n + 1} /\ n + 1 \notin 1..n
        BY <3>1
      <3>4. \A v : v \in Passing' <=> (v \in Passing \/ (v = n + 1 /\ a.good))
        BY <3>1, <3>2, <3>3
      <3>5. Passing' = Passing \/ Passing' = Passing \cup {n'}
        BY <3>1, <3>4
      <3> QED
        BY <2>3, <3>5 DEF n
    <2> QED
      BY <2>2, <2>3
  <1>18. Contract!ContractNext
    BY <1>4, <1>6, <1>8, <1>10, <1>16, <1>17, MakeStep
  <1> QED
    BY <1>11, <1>12, <1>14, <1>15, <1>18 DEF DeepInv

\* The approval that closes the project.
LEMMA ApproveDesignCommits ==
    ASSUME BaseInv, DeepInv, NEW t \in Txns, Commit(t), txn[t].op = "ApproveDesign"
    PROVE  DeepInv' /\ Contract!ContractNext
  <1> DEFINE x == txn[t]
             m == Moves["ApproveDesign"]
  <1>1. /\ x \in Transactions /\ TxnInv(x) /\ Knows(x) /\ x.at = 11
        /\ txn'[t] = Idle /\ Written(x) /\ row' = x.copy
        /\ UNCHANGED <<artifact, created, approval>>
        /\ \A u \in Txns \ {t} : txn'[u] = txn[u]
    BY CommitFacts, Lengths DEF Writers, Makers
  <1>2. x.op \in Movers /\ x.op # "CreateProject" /\ Loaded(x) /\ x.op \in DOMAIN GateCheck
        /\ GateCheck[x.op] = 3
    BY <1>1 DEF Movers, Loaded, GateCheck
  <1>3. /\ row.stage \in m.from /\ m.via \in AllowedTransitions(row.stage)
        /\ row'.stage = m.end /\ row'.final = artifact["VERIFICATION"][x.arg].design
    <2>1. x.at > (IF x.op = "ApproveDesign" THEN 9 ELSE FirstWrite[x.op] + 1)
      BY <1>1
    <2> QED
      BY <1>1, <1>2, <2>1 DEF Knows, WrittenRow
  <1>4. /\ row.stage \in Settled
        /\ Latest("VERIFICATION") = IF Phase[row.stage] >= 7 THEN 1 ELSE 0
        /\ Phase[row.stage] >= 7 => artifact["VERIFICATION"][1].design = Latest("DESIGN")
    BY DEF DeepInv, DesignInv
  <1>5. /\ row.stage # "NONE" /\ m.end \in Settled /\ m.end # "NONE"
        /\ Phase[row.stage] = 7 /\ Phase[m.end] = 8
    <2>1. "ApproveDesign" \in Movers
      BY <1>2
    <2> QED
      BY <1>3, <1>4, <2>1, MovePhases
  <1>6. Latest("VERIFICATION") = 1 /\ artifact["VERIFICATION"][1].design = Latest("DESIGN")
    BY <1>4, <1>5
  <1>7. row'.final = Latest("DESIGN")
    BY <1>1, <1>3, <1>6 DEF TxnInv
  <1>8. /\ \A j : Latest(j)' = Latest(j)
        /\ \A j : CommittedApprovals(j)' = CommittedApprovals(j)
        /\ Passing' = Passing
    BY <1>1 DEF Latest, CommittedApprovals, CommittedRows, Passing
  <1>9. \A j \in ArtifactKinds : 1..Latest(j) \subseteq 1..Latest(j)'
    BY <1>8
  <1>10. RowsInv'
    BY <1>9, RowsAfterCommit
  <1>11. CreateInv'
    BY <1>1, <1>3, <1>5 DEF DeepInv, CreateInv, Idle
  <1>12. DesignInv'
    BY <1>1, <1>3, <1>5, <1>6, <1>8 DEF DesignInv
  <1>13. \A u \in Txns : Knows(txn[u])'
    <2>1. \A u \in Txns \ {t} : Knows(txn[u])'
      BY <1>2, <1>9, OthersAreLate
    <2>2. Knows(txn[t])'
      BY <1>1, IdleKnowsNext
    <2> QED
      BY <2>1, <2>2
  <1>14. Signed("VERIFICATION") /\ artifact["VERIFICATION"][1].good
    <2>1. GateKind("ApproveDesign") = "VERIFICATION"
      BY DEF GateKind, Moves, RequiredApproval
    <2>2. x.at > GateCheck[x.op] /\ x.at > 4
      BY <1>1, <1>2
    <2> QED
      BY <1>1, <1>2, <1>6, <2>1, <2>2 DEF Knows, GateSeen, Current
  <1>15. Contract!Close
    <2>1. 1 \in Passing
      BY <1>6, <1>14 DEF Passing
    <2>2. "VERIFICATION" \in ArtifactKinds /\ "DESIGN" \in ArtifactKinds
      BY DEF ArtifactKinds, ReviewKinds
    <2>3. Phase[row.stage] = 7 /\ Phase[row'.stage] = 8
      BY <1>3, <1>5
    <2> QED
      BY <1>6, <1>7, <1>8, <1>14, <2>1, <2>2, <2>3
      DEF Contract!Close, Contract!SignedOff, Signed, Passing
  <1>16. Contract!ContractNext
    BY <1>15 DEF Contract!ContractNext
  <1> QED
    BY <1>10, <1>11, <1>12, <1>13, <1>16 DEF DeepInv

\* The first create request; the others of its type were refused, and a move
\* cannot have begun before there was a project.
LEMMA CreateCommits ==
    ASSUME BaseInv, DeepInv, NEW t \in Txns, Commit(t), txn[t].op = "CreateProject", OneType
    PROVE  DeepInv' /\ Contract!ContractNext
  <1> DEFINE x == txn[t]
  <1>1. /\ x \in Transactions /\ TxnInv(x) /\ Knows(x)
        /\ txn'[t] = Idle /\ Written(x) /\ row' = x.copy /\ holder = t
        /\ UNCHANGED <<artifact, approval>> /\ created' = created \cup {x.type}
        /\ \A u \in Txns \ {t} : txn'[u] = txn[u]
    BY CommitFacts DEF Writers, Makers
  <1>2. created = {} /\ row' = [stage |-> "DRAFT", rev |-> row.rev, final |-> 0]
    BY <1>1 DEF Knows
  <1>3. row = NoRow /\ row.stage = "NONE"
    BY <1>2 DEF DeepInv, CreateInv
  <1>4. row' = [stage |-> "DRAFT", rev |-> 0, final |-> 0]
    BY <1>2, <1>3 DEF NoRow
  <1>5. /\ \A j : Latest(j)' = Latest(j)
        /\ \A j : CommittedApprovals(j)' = CommittedApprovals(j)
        /\ Passing' = Passing
    BY <1>1 DEF Latest, CommittedApprovals, CommittedRows, Passing
  <1>6. RowsInv'
    BY <1>5, RowsAfterCommit
  <1>7. CreateInv'
    BY <1>1, <1>4 DEF DeepInv, CreateInv, Idle
  <1>8. DesignInv'
    BY <1>3, <1>4, <1>5 DEF DeepInv, DesignInv, Settled, Phase
  <1>9. ASSUME NEW u \in Txns \ {t} PROVE Knows(txn[u])'
    <2> DEFINE z == txn[u]
    <2>1. z' = z /\ z \in Transactions /\ TxnInv(z) /\ Knows(z) /\ ~Written(z)
      BY <1>1 DEF BaseInv, TypeOK, DeepInv
    <2>2. z.op # "CreateProject"
      <3>1. x.type # "none" /\ x.type \in ProjectTypes
        BY <1>1 DEF TxnInv, Transactions
      <3>2. z.op = "CreateProject" => z.type # "none" /\ z.type \in ProjectTypes
        BY <2>1 DEF TxnInv, Transactions
      <3>3. x.type # z.type
        BY <3>1 DEF DeepInv, CreateInv
      <3> QED
        BY <3>1, <3>2, <3>3 DEF OneType
    <2>3. ~Loaded(z)
      <3> SUFFICES ASSUME Loaded(z) PROVE FALSE
        OBVIOUS
      <3>1. z.op \in Movers
        BY DEF Loaded, Movers
      <3>2. z.copy.stage \in ProjectStages
        BY <2>1, <3>1, MoveFacts DEF TxnInv
      <3>3. z.copy.rev = 0 /\ z.copy = row
        <4>1. z.copy.rev \in Nat /\ z.copy.rev <= row.rev /\ row.rev = 0
          BY <1>3, <2>1 DEF Knows, ReadRow, Transactions, NoRow
        <4>2. z.copy.rev = row.rev => z.copy = row
          BY <2>1 DEF Knows, ReadRow
        <4> HIDE DEF z
        <4> QED
          BY <4>1, <4>2
      <3> QED
        BY <1>3, <3>2, <3>3 DEF ProjectStages, NextStages
    <2>4. (\A j : Latest(j)' = Latest(j))
      BY <1>5
    <2> HIDE DEF z
    <2>5. (Written(z)' <=> Written(z)) /\ (Loaded(z)' <=> Loaded(z))
      BY <2>1 DEF Written, Loaded
    <2>6. (z.op = "Approve" => z.arg \in 1..Latest(z.kind))'
      BY <1>1, <2>1 DEF Knows, Latest
    <2> QED
      BY <2>1, <2>2, <2>3, <2>5, <2>6 DEF Knows, ReadRow, WrittenRow, GateSeen, z
  <1>10. \A u \in Txns : Knows(txn[u])'
    <2>1. Knows(txn[t])'
      BY <1>1, IdleKnowsNext
    <2> QED
      BY <1>9, <2>1
  <1>11. Contract!Open
    <2>1. Phase[row.stage] = 0 /\ Phase[row'.stage] = 1 /\ row.final = 0 /\ row'.final = 0
      BY <1>3, <1>4 DEF Phase, NoRow
    <2> QED
      BY <1>5, <2>1 DEF Contract!Open, Passing
  <1>12. Contract!ContractNext
    BY <1>11 DEF Contract!ContractNext
  <1> QED
    BY <1>6, <1>7, <1>8, <1>10, <1>12 DEF DeepInv

\* An approval becomes effective.  What the others know of approvals stays
\* true, since approvals are only ever added.
LEMMA ApproveCommits ==
    ASSUME BaseInv, DeepInv, NEW t \in Txns, Commit(t), txn[t].op = "Approve"
    PROVE  DeepInv' /\ (Contract!ContractNext \/ SameCommits)
  <1> DEFINE x == txn[t]
  <1>1. /\ x \in Transactions /\ TxnInv(x) /\ Knows(x)
        /\ txn'[t] = Idle /\ UNCHANGED <<row, artifact, created>>
        /\ \A u \in Txns \ {t} : txn'[u] = txn[u]
    BY CommitFacts, Lengths DEF Writers, Makers
  <1>2. x.kind \in ReviewKinds /\ x.kind \in ArtifactKinds /\ x.arg \in 1..Latest(x.kind)
    BY <1>1 DEF TxnInv, Knows, ArtifactKinds
  <1>3. approval' = [j \in ArtifactKinds |-> Committed(approval[j], t)]
    BY DEF Commit, Committed
  <1>4. ASSUME NEW k \in ArtifactKinds, NEW r \in approval[k], r.by = t
        PROVE  k = x.kind /\ r.v = x.arg
    BY <1>4, TxnsAssumption DEF DeepInv, RowsInv
  <1>5. ASSUME NEW k \in ArtifactKinds
        PROVE  CommittedApprovals(k)' = CommittedApprovals(k)
                                            \cup {r.v : r \in {q \in approval[k] : q.by = t}}
    <2> DEFINE old == approval[k]
               new == Committed(approval[k], t)
    <2>1. approval'[k] = new
      BY <1>3
    <2>2. /\ \A r \in new : \E q \in old :
                r.v = q.v /\ IF q.by = t THEN r.by = NoTxn ELSE r = q
          /\ \A q \in old : \E r \in new :
                r.v = q.v /\ IF q.by = t THEN r.by = NoTxn ELSE r = q
      BY CommittedRowsOf
    <2>3. CommittedApprovals(k) = {r.v : r \in {q \in old : q.by = NoTxn}}
          /\ CommittedApprovals(k)' = {r.v : r \in {q \in new : q.by = NoTxn}}
      BY <2>1 DEF CommittedApprovals, CommittedRows
    <2> HIDE DEF old, new
    <2>4. ASSUME NEW v
          PROVE  v \in {r.v : r \in {q \in new : q.by = NoTxn}} <=>
                    \/ v \in {r.v : r \in {q \in old : q.by = NoTxn}}
                    \/ v \in {r.v : r \in {q \in old : q.by = t}}
      BY <2>2
    <2> QED
      BY <2>3, <2>4 DEF old
  <1>6. \A k \in ArtifactKinds : CommittedApprovals(k) \subseteq CommittedApprovals(k)'
    BY <1>5
  <1>7. RowsInv'
    <2> SUFFICES ASSUME NEW k \in ArtifactKinds, NEW r \in approval'[k]
                 PROVE  /\ r.v \in 1..Latest(k)
                        /\ r.by # NoTxn => /\ txn'[r.by].op = "Approve" /\ txn'[r.by].at = 2
                                           /\ txn'[r.by].kind = k /\ txn'[r.by].arg = r.v
      BY <1>1 DEF RowsInv, Latest
    <2>1. r \in Committed(approval[k], t)
      BY <1>3
    <2>2. PICK q \in approval[k] : r.v = q.v /\ IF q.by = t THEN r.by = NoTxn ELSE r = q
      BY <2>1, CommittedRowsOf
    <2>3. q.by \in Txns \cup {NoTxn}
      BY DEF BaseInv, TypeOK, ApprovalRows
    <2> QED
      BY <1>1, <2>2, <2>3 DEF DeepInv, RowsInv
  <1>8. CreateInv'
    BY <1>1 DEF DeepInv, CreateInv, Idle
  <1>9. DesignInv'
    BY <1>1 DEF DeepInv, DesignInv, Latest
  <1>10. ASSUME NEW u \in Txns \ {t} PROVE Knows(txn[u])'
    <2> DEFINE z == txn[u]
    <2>1. z' = z /\ z \in Transactions /\ Knows(z)
      BY <1>1 DEF BaseInv, TypeOK, DeepInv
    <2>2. \A j : Latest(j)' = Latest(j)
      BY <1>1 DEF Latest
    <2> HIDE DEF z
    <2>3. (Written(z)' <=> Written(z)) /\ (Loaded(z)' <=> Loaded(z))
          /\ (Current(z)' <=> Current(z))
      BY <1>1, <2>1 DEF Written, Loaded, Current
    <2>4. ReadRow(z)' /\ WrittenRow(z)'
      BY <1>1, <2>1, <2>3 DEF Knows, ReadRow, WrittenRow
    <2>5. ASSUME z.op \in DOMAIN GateCheck, Signed(GateKind(z.op))
          PROVE  Signed(GateKind(z.op))'
      <3>1. GateKind(z.op) \in ArtifactKinds
        BY <2>5, MoveFacts DEF GateKind, GateCheck, Movers, Makers, ArtifactKinds
      <3> QED
        BY <1>6, <2>1, <2>2, <2>5, <3>1 DEF Signed, GateKind
    <2>6. GateSeen(z)'
      BY <1>1, <2>1, <2>2, <2>3, <2>5 DEF Knows, GateSeen, GateKind
    <2>7. (z.op = "Approve" => z.arg \in 1..Latest(z.kind))'
      BY <2>1, <2>2 DEF Knows
    <2> QED
      BY <1>1, <2>1, <2>3, <2>4, <2>6, <2>7 DEF Knows, z
  <1>11. \A u \in Txns : Knows(txn[u])'
    <2>1. Knows(txn[t])'
      BY <1>1, IdleKnowsNext
    <2> QED
      BY <1>10, <2>1
  <1>12. SameCommits \/ Contract!ContractNext
    <2> SUFFICES ASSUME NEW k \in ReviewKinds, k = x.kind,
                        NEW v \in 1..Latest(k), v = x.arg
                 PROVE  SameCommits \/ Contract!ContractNext
      BY <1>2
    <2> DEFINE mine == {q \in approval[k] : q.by = t}
    <2>1. \A j \in ArtifactKinds \ {k} : CommittedApprovals(j)' = CommittedApprovals(j)
      BY <1>4, <1>5
    <2>2. CASE mine = {}
      <3>1. CommittedApprovals(k)' = CommittedApprovals(k)
        BY <1>2, <1>5, <2>2
      <3> QED
        BY <1>1, <2>1, <3>1 DEF SameCommits
    <2>3. CASE mine # {}
      <3>1. {r.v : r \in mine} = {v}
        BY <1>2, <1>4, <2>3
      <3>2. CommittedApprovals(k)' = CommittedApprovals(k) \cup {v}
        BY <1>2, <1>5, <3>1
      <3>3. (\A j : Latest(j)' = Latest(j)) /\ Passing' = Passing
        BY <1>1 DEF Latest, Passing
      <3> HIDE DEF x, mine
      <3>4. [j \in ArtifactKinds |-> CommittedApprovals(j)]' =
               [[j \in ArtifactKinds |-> CommittedApprovals(j)] EXCEPT ![k] = @ \cup {v}]
        BY <1>2, <2>1, <3>2
      <3>6. Contract!Sign(k)
        BY <1>1, <1>2, <3>3, <3>4 DEF Contract!Sign, Passing
      <3>5. k \in Contract!Kinds
        BY <1>2 DEF Contract!Kinds, Contract!MadeIn, ReviewKinds
      <3> QED
        BY <3>5, <3>6 DEF Contract!ContractNext
    <2> QED
      BY <2>2, <2>3
  <1> QED
    BY <1>7, <1>8, <1>9, <1>11, <1>12 DEF DeepInv

-----------------------------------------------------------------------------
(* Every step is one of the contract, or one that nobody sees.             *)

LEMMA Invisible ==
    ASSUME SameCommits
    PROVE  UNCHANGED Contract!contractVars
  <1>1. (\A j : Latest(j)' = Latest(j)) /\ Passing' = Passing
    BY DEF SameCommits, Latest, Passing
  <1> QED
    BY <1>1 DEF SameCommits, Contract!contractVars, Passing

LEMMA CommitKeepsContract ==
    ASSUME BaseInv, DeepInv, NEW t \in Txns, Commit(t), OneType
    PROVE  DeepInv' /\ (Contract!ContractNext \/ SameCommits)
  <1>1. txn[t].op \in Makers \cup {"CreateProject", "ApproveDesign", "Approve"}
    BY CommitFacts, Lengths DEF Writers
  <1> QED
    BY <1>1, MakerCommits, ApproveDesignCommits, CreateCommits, ApproveCommits

LEMMA NextKeepsContract ==
    ASSUME OneType, BaseInv, DeepInv, [Next]_vars
    PROVE  DeepInv' /\ [Contract!ContractNext]_(Contract!contractVars)
  <1>1. DeepInv' /\ (Contract!ContractNext \/ SameCommits)
    <2>1. CASE UNCHANGED vars
      <3>1. SameCommits
        BY <2>1, SameTables DEF vars, tables
      <3>2. DeepInv'
        BY <2>1 DEF vars, DeepInv, RowsInv, CreateInv, DesignInv, Knows, ReadRow, WrittenRow,
           GateSeen, Current, Signed, Latest, CommittedApprovals, CommittedRows, Written, Loaded
      <3> QED
        BY <3>1, <3>2
    <2>2. ASSUME NEW t \in Txns, Call(t) \/ Statement(t) \/ Fail(t)
          PROVE  DeepInv' /\ (Contract!ContractNext \/ SameCommits)
      <3>1. CASE Call(t)
        BY <3>1, CallKeepsDeep
      <3>2. CASE Load(t) \/ ReadLatest(t) \/ ReadApproved(t) \/ ReadVerdict(t)
                 \/ ReadResources(t) \/ ReadDesign(t)
        BY <3>2, ReadKeepsDeep
      <3>3. CASE InsertApproval(t)
        BY <3>3, InsertKeepsDeep
      <3>4. CASE UpdateStage(t)
        BY <3>4, UpdateKeepsDeep
      <3>5. CASE SaveFinal(t)
        BY <3>5, SaveKeepsDeep
      <3>6. CASE Finish(t)
        BY <3>6, FinishKeepsDeep
      <3>7. CASE UpsertProject(t)
        BY <3>7, UpsertKeepsDeep
      <3>8. CASE Commit(t)
        BY <3>8, CommitKeepsContract
      <3>9. CASE Fail(t)
        BY <3>9, RollbackKeepsDeep DEF Fail
      <3> QED
        BY <2>2, <3>1, <3>2, <3>3, <3>4, <3>5, <3>6, <3>7, <3>8, <3>9 DEF Statement
    <2> QED
      BY <2>1, <2>2 DEF Next
  <1> QED
    BY <1>1, Invisible

LEMMA InitOfContract == Init => Contract!ContractInit
  <1> SUFFICES ASSUME Init PROVE Contract!ContractInit
    OBVIOUS
  <1>1. row = NoRow /\ artifact = [k \in ArtifactKinds |-> <<>>]
        /\ approval = [k \in ArtifactKinds |-> {}]
    BY DEF Init
  <1>2. Contract!Kinds = ArtifactKinds
    BY DEF Contract!Kinds, Contract!MadeIn, ArtifactKinds, ReviewKinds
  <1>3. Phase[row.stage] = 0 /\ row.final = 0
    BY <1>1 DEF NoRow, Phase
  <1>4. \A k \in ArtifactKinds : Latest(k) = 0 /\ CommittedApprovals(k) = {}
    BY <1>1 DEF Latest, CommittedApprovals, CommittedRows
  <1>5. "VERIFICATION" \in ArtifactKinds
    BY DEF ArtifactKinds, ReviewKinds
  <1>6. Latest("VERIFICATION") = 0
    BY <1>4, <1>5
  <1>7. {v \in 1..Latest("VERIFICATION") : artifact["VERIFICATION"][v].good} = {}
    BY <1>6
  <1> QED
    BY <1>2, <1>3, <1>4, <1>7 DEF Contract!ContractInit

\* Where create requests are repeated with one project type only, every commit
\* is one step of the review contract and nothing else is visible: however the
\* statements of the transactions interleave, wherever they fail, no gate opens
\* that the user has not signed, no version is lost and only a signed,
\* favourable verification of the latest design closes the project.
THEOREM ContractKept ==
    ASSUME OneType
    PROVE  Spec => KeepsContract
  <1>1. Init => DeepInv
    BY InitDeepInv
  <1>2. BaseInv /\ DeepInv /\ [Next]_vars => DeepInv'
    BY NextKeepsContract
  <1>3. Spec => []DeepInv
    BY <1>1, <1>2, BaseHolds, PTL DEF Spec
  <1>4. BaseInv /\ DeepInv /\ [Next]_vars => [Contract!ContractNext]_(Contract!contractVars)
    BY NextKeepsContract
  <1> QED
    BY <1>3, <1>4, BaseHolds, InitOfContract, PTL DEF Spec, KeepsContract, Contract!ContractSpec

-----------------------------------------------------------------------------
(* What the contract comes to.                                             *)

\* The types of what the contract speaks about, which PgWorkflow's give.
ContractTypes ==
    Phase[row.stage] \in 0..8 /\ \A k \in ArtifactKinds : Latest(k) \in Nat

LEMMA TypesOfContract == BaseInv => ContractTypes
  BY DEF BaseInv, TypeOK, ContractTypes, Latest, Phase, ProjectStages, NextStages

\* The kinds and phases of the contract are those of the tables.
LEMMA EarnedMeans ==
    /\ Contract!Kinds = ArtifactKinds /\ Contract!MadeIn = PhaseOf
    /\ \A k \in ArtifactKinds : PhaseOf[k] \in 2..7
    /\ "VERIFICATION" \in ArtifactKinds /\ "DESIGN" \in ArtifactKinds
    /\ PhaseOf["VERIFICATION"] = 7 /\ PhaseOf["DESIGN"] = 6
  BY DEF Contract!Kinds, Contract!MadeIn, PhaseOf, ArtifactKinds, ReviewKinds

\* A phase is climbed from the one before it, whose kind is signed then, or
\* entered again from above, with all kinds below it signed.
LEMMA StepEarnsItsPhase ==
    ASSUME BaseInv, BaseInv', Contract!PhasesAreEarned, Contract!ContractNext
    PROVE  Contract!PhasesAreEarned'
  <1> DEFINE p == Phase[row.stage]
             ver == [k \in ArtifactKinds |-> Latest(k)]
             sig == [k \in ArtifactKinds |-> CommittedApprovals(k)]
             Earned(q, n, g) ==
                \A k \in ArtifactKinds :
                   /\ q >= PhaseOf[k] => n[k] # 0
                   /\ q > PhaseOf[k] /\ k # "DESIGN" => n[k] # 0 /\ n[k] \in g[k]
             Closed(q, n, s, f) == q = 8 => f = n["DESIGN"] /\ n["VERIFICATION"] \in s
  <1>1. p \in 0..8 /\ p' \in 0..8 /\ ver \in [ArtifactKinds -> Nat] /\ ver' \in [ArtifactKinds -> Nat]
    <2>1. ContractTypes /\ ContractTypes'
      BY TypesOfContract, PTL
    <2> QED
      BY <2>1 DEF ContractTypes
  <1>2. Contract!PhasesAreEarned <=> Earned(p, ver, sig) /\ Closed(p, ver, Passing, row.final)
    BY EarnedMeans DEF Contract!PhasesAreEarned, Contract!SignedOff, Passing
  <1>3. Contract!PhasesAreEarned' <=> Earned(p', ver', sig') /\ Closed(p', ver', Passing', row'.final)
    BY EarnedMeans DEF Contract!PhasesAreEarned, Contract!SignedOff, Passing
  <1>5. CASE Contract!Open
    <2>1. p = 0 /\ p' = 1
      BY <1>5 DEF Contract!Open
    <2> HIDE DEF p, ver, sig
    <2> QED
      BY <1>1, <1>3, <2>1, EarnedMeans
  <1>6. CASE Contract!StartOver
    BY <1>6 DEF Contract!StartOver
  <1>7. CASE Contract!Close
    <2>1. /\ p = 7 /\ p' = 8 /\ ver' = ver /\ sig' = sig /\ Passing' = Passing
          /\ row'.final = ver["DESIGN"]
          /\ ver["VERIFICATION"] # 0 /\ ver["VERIFICATION"] \in sig["VERIFICATION"]
          /\ ver["VERIFICATION"] \in Passing
      BY <1>7, EarnedMeans DEF Contract!Close, Contract!SignedOff, Passing
    <2> HIDE DEF p, ver, sig
    <2>2. \A k \in ArtifactKinds : PhaseOf[k] = 7 => k = "VERIFICATION"
      BY DEF PhaseOf, ArtifactKinds, ReviewKinds
    <2>3. \A k \in ArtifactKinds : 7 > PhaseOf[k] \/ k = "VERIFICATION"
      BY <2>2, EarnedMeans
    <2> QED
      BY <1>1, <1>2, <1>3, <2>1, <2>3, EarnedMeans
  <1>8. ASSUME NEW k \in Contract!Kinds, Contract!Make(k) PROVE Contract!PhasesAreEarned'
    <2>1. k \in ArtifactKinds
      BY EarnedMeans
    <2>2. /\ p \in (PhaseOf[k] - 1)..7 /\ p' = PhaseOf[k]
          /\ ver' = [ver EXCEPT ![k] = @ + 1] /\ sig' = sig
          /\ \A j \in ArtifactKinds \ {"DESIGN"} : PhaseOf[j] = PhaseOf[k] - 1 =>
                ver[j] # 0 /\ ver[j] \in sig[j]
      BY <1>8, EarnedMeans DEF Contract!Make, Contract!SignedOff
    <2> HIDE DEF p, ver, sig
    <2>3. \A j \in ArtifactKinds : PhaseOf[j] \in Nat /\ (PhaseOf[j] = PhaseOf[k] => j = k)
      BY <2>1 DEF PhaseOf, ArtifactKinds, ReviewKinds
    <2>4. PhaseOf[k] \in 2..7
      BY <2>1, EarnedMeans
    <2>5. ASSUME NEW j \in ArtifactKinds, j = k
          PROVE  ver'[j] # 0 /\ ~(p' > PhaseOf[j])
      BY <1>1, <2>1, <2>2, <2>4, <2>5
    <2>6. ASSUME NEW j \in ArtifactKinds, j # k, p' >= PhaseOf[j]
          PROVE  /\ ver'[j] = ver[j] /\ ver[j] # 0
                 /\ j # "DESIGN" => ver[j] \in sig[j]
      <3>1. ver'[j] = ver[j]
        BY <1>1, <2>1, <2>2, <2>6
      <3>2. PhaseOf[j] <= PhaseOf[k] - 1
        BY <2>2, <2>3, <2>4, <2>6
      <3>3. p >= PhaseOf[j]
        BY <1>1, <2>2, <2>3, <2>4, <3>2
      <3>4. ver[j] # 0 /\ (p > PhaseOf[j] /\ j # "DESIGN" => ver[j] \in sig[j])
        BY <1>2, <3>3
      <3>5. CASE PhaseOf[j] = PhaseOf[k] - 1
        BY <2>2, <3>1, <3>4, <3>5
      <3>6. CASE PhaseOf[j] # PhaseOf[k] - 1
        <4>1. p > PhaseOf[j]
          BY <1>1, <2>2, <2>3, <2>4, <3>2, <3>6
        <4> QED
          BY <3>1, <3>4, <4>1
      <3> QED
        BY <3>5, <3>6
    <2>7. p' # 8
      BY <2>2, <2>4
    <2>8. Earned(p', ver', sig')
      BY <1>1, <2>2, <2>3, <2>5, <2>6
    <2> QED
      BY <1>3, <2>7, <2>8
  <1>9. ASSUME NEW k \in Contract!Kinds, Contract!Sign(k) PROVE Contract!PhasesAreEarned'
    <2>1. /\ p' = p /\ ver' = ver /\ Passing' = Passing /\ row'.final = row.final
          /\ \E v : sig' = [sig EXCEPT ![k] = @ \cup {v}]
      BY <1>9 DEF Contract!Sign, Passing
    <2>2. \A j \in ArtifactKinds : sig[j] \subseteq sig'[j]
      BY <2>1
    <2> HIDE DEF p, ver, sig
    <2> QED
      BY <1>2, <1>3, <2>1, <2>2
  <1> QED
    BY <1>5, <1>6, <1>7, <1>8, <1>9 DEF Contract!ContractNext

\* What that means to the user, for concurrent transactions as for one after
\* the other: the latest version of every kind behind the phase reached is
\* approved, and a final design is the latest and rests on a favourable
\* verification.
THEOREM PhasesStayEarned ==
    ASSUME OneType
    PROVE  Spec => []Contract!PhasesAreEarned
  <1>1. Init => Contract!PhasesAreEarned
    <2> SUFFICES ASSUME Init PROVE Contract!PhasesAreEarned
      OBVIOUS
    <2>1. Phase[row.stage] = 0
      BY DEF Init, NoRow, Phase
    <2> QED
      BY <2>1, EarnedMeans DEF Contract!PhasesAreEarned
  <1>2. BaseInv /\ BaseInv' /\ Contract!PhasesAreEarned
        /\ [Contract!ContractNext]_(Contract!contractVars) => Contract!PhasesAreEarned'
    <2>1. ASSUME UNCHANGED Contract!contractVars, Contract!PhasesAreEarned
          PROVE  Contract!PhasesAreEarned'
      BY <2>1 DEF Contract!contractVars, Contract!PhasesAreEarned, Contract!SignedOff
    <2> QED
      BY <2>1, StepEarnsItsPhase
  <1>3. Spec => KeepsContract
    BY ContractKept
  <1> QED
    BY <1>1, <1>2, <1>3, BaseHolds, PTL DEF Spec, KeepsContract, Contract!ContractSpec

=============================================================================
