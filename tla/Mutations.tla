------------------------------ MODULE Mutations ------------------------------
(***************************************************************************)
(* How a mutation runs: runIdempotentMutation inside one transaction on a  *)
(* connection of the pool, for one user.  Calls repeat requests, at the    *)
(* same time or after an error; statements fail, COMMIT may succeed        *)
(* without its answer, and the server stops.                               *)
(*                                                                         *)
(* Two mutations are shown in full: createProject, which stores its user   *)
(* over a second connection and sets up the user's institution and base    *)
(* identity when there is none, and activateIdentity.  What the others do  *)
(* between the reservation of the key and COMMIT is in PgWorkflow.         *)
(***************************************************************************)
EXTENDS Naturals, Sequences, FiniteSets

CONSTANTS
    Calls,       \* concurrent calls of mutating tools by one user
    Creates,     \* requests for a project
    Identities,  \* identity versions of the user's institution; each is also
                 \* the request to activate it
    Base,        \* the identity version that createProject makes
    Results,     \* what an action may return
    PoolSize,    \* connections of the pool
    Faults,      \* what may go wrong: "database", "crash"
    None

ASSUME MutationsAssumption ==
    /\ Base \in Identities /\ None \notin Identities \cup Results
    /\ Creates \cap Identities = {}
    /\ PoolSize \in Nat \ {0}
    /\ Faults \subseteq {"database", "crash"}

VARIABLES
    completed,   \* completed[k]: result_json of the COMPLETED row of request k
    user,        \* whether the users row exists
    institution, \* the institution row with the states of its identities
    answers,     \* the answers given so far
    queue,       \* calls waiting for a connection, first come first served
    call         \* call[c]: where call c is, and what it holds

tables == <<completed, user, institution>>
vars == <<completed, user, institution, answers, queue, call>>

Keys == Creates \cup Identities

Institutions ==
    [exists : BOOLEAN, active : Identities \cup {None},
     status : [Identities -> {"none", "DRAFT", "ACTIVE", "ARCHIVED"}]]

\* "reserved" has the key and must store its user, "found" saw no institution.
CallStates ==
    [at : {"idle", "asking", "begun", "reserved", "reading", "found", "activating", "ready"},
     key : Keys, conns : {0, 1, 2}, wrote : BOOLEAN, institution : Institutions]

TypeOK ==
    /\ completed \in [Keys -> Results \cup {None}]
    /\ user \in BOOLEAN
    /\ institution \in Institutions
    /\ answers \subseteq Keys \X Results
    /\ queue \in Seq(Calls)
    /\ call \in [Calls -> CallStates]

-----------------------------------------------------------------------------
(* The pool.                                                               *)

NoInstitution ==
    [exists |-> FALSE, active |-> None, status |-> [v \in Identities |-> "none"]]

IdleCall ==
    [at |-> "idle", key |-> Base, conns |-> 0, wrote |-> FALSE, institution |-> NoInstitution]

InUse == {c \in Calls : call[c].conns > 0}
Free == PoolSize - Cardinality(InUse) - Cardinality({c \in Calls : call[c].conns = 2})

Waits(c) == \E i \in DOMAIN queue : queue[i] = c

\* A connection goes to the call that has waited longest: pool.connect of
\* inTransaction, or pool.query of ensurePersistentActor.
Serve ==
    /\ queue # <<>> /\ Free > 0
    /\ queue' = Tail(queue)
    /\ call' = [call EXCEPT ![Head(queue)].conns = @ + 1,
                            ![Head(queue)].at = IF @ = "asking" THEN "begun" ELSE @]
    /\ UNCHANGED <<tables, answers>>

\* A slip: the client is not released.
EndCallUnreleased(c) == call' = [call EXCEPT ![c] = [IdleCall EXCEPT !.conns = call[c].conns]]

\* COMMIT or ROLLBACK is through and the connection is released; locks and
\* reservation go with it.
EndCall(c) == call' = [call EXCEPT ![c] = IdleCall]

\* A user calls, perhaps with a request made before.
Ask(c, k) ==
    /\ call[c].at = "idle"
    /\ call' = [call EXCEPT ![c].at = "asking", ![c].key = k]
    /\ queue' = Append(queue, c)
    /\ UNCHANGED <<tables, answers>>

-----------------------------------------------------------------------------
(* runIdempotentMutation.                                                  *)

Reserved(c) == call[c].at \in {"reserved", "reading", "found", "activating", "ready"}

\* Two slips: the reservation does not wait for an open one, or the user is not
\* stored first.
ReserveAtOnce(c) ==
    /\ call[c].at = "begun"
    /\ completed[call[c].key] = None
    /\ call' = [call EXCEPT ![c].at = IF call[c].key \in Creates THEN "reserved" ELSE "reading"]
    /\ queue' = IF call[c].key \in Creates THEN Append(queue, c) ELSE queue
    /\ UNCHANGED <<tables, answers>>

ReserveWithoutUser(c) ==
    /\ call[c].at = "begun"
    /\ completed[call[c].key] = None
    /\ \A d \in Calls \ {c} : Reserved(d) => call[d].key # call[c].key
    /\ call' = [call EXCEPT ![c].at = "reading"]
    /\ UNCHANGED <<tables, answers, queue>>

\* INSERT ... ON CONFLICT DO NOTHING finds no row, having waited for an open
\* transaction that inserted the same key.  createProject goes on to ask the
\* pool, not its transaction, to store the user.
Reserve(c) ==
    /\ call[c].at = "begun"
    /\ completed[call[c].key] = None
    /\ \A d \in Calls \ {c} : Reserved(d) => call[d].key # call[c].key
    /\ call' = [call EXCEPT ![c].at = IF call[c].key \in Creates THEN "reserved" ELSE "reading"]
    /\ queue' = IF call[c].key \in Creates THEN Append(queue, c) ELSE queue
    /\ UNCHANGED <<tables, answers>>

\* The row is there.  Only COMPLETED rows are ever committed, so the branches
\* for the other states are not reached.
Replay(c) ==
    /\ call[c].at = "begun"
    /\ completed[call[c].key] # None
    /\ answers' = answers \cup {<<call[c].key, completed[call[c].key]>>}
    /\ EndCall(c)
    /\ UNCHANGED <<tables, queue>>

-----------------------------------------------------------------------------
(* The actions.                                                            *)

\* ensurePersistentActor: a statement of its own, on the second connection.
StoreUser(c) ==
    /\ call[c].at = "reserved" /\ call[c].conns = 2
    /\ user' = TRUE
    /\ call' = [call EXCEPT ![c].at = "reading", ![c].conns = 1]
    /\ UNCHANGED <<completed, institution, answers, queue>>

\* getInstitution and the identity version it names; activateIdentity throws
\* (Fail) when either is missing.
Read(c) ==
    /\ call[c].at = "reading"
    /\ IF call[c].key \in Creates
       THEN call' = [call EXCEPT ![c].at =
                CASE ~institution.exists -> "found"
                  [] institution.exists /\ institution.active = None -> "activating"
                  [] OTHER -> "ready"]
       ELSE /\ institution.exists /\ institution.status[call[c].key] # "none"
            /\ call' = [call EXCEPT ![c].at = "activating"]
    /\ UNCHANGED <<tables, answers, queue>>

\* A slip: getInstitution takes a shared lock, which two calls hold and neither
\* can make exclusive.
RowIsUnread(c) ==
    \A d \in Calls \ {c} : call[d].at \notin {"found", "activating", "ready"}

\* Whether no other open transaction has the row of the institution.
RowIsFree(c) == \A d \in Calls \ {c} : ~call[d].wrote

\* A slip: the version that was active is not archived.
ActivatedBeside(i, v) ==
    [i EXCEPT !.active = v, !.status[v] = "ACTIVE"]

\* The three updates of activateIdentityVersion.
Activated(i, v) ==
    [i EXCEPT !.active = v,
              !.status = [w \in Identities |->
                  IF w = v THEN "ACTIVE" ELSE IF @[w] = "ACTIVE" THEN "ARCHIVED" ELSE @[w]]]

\* saveInstitution, then the base identity, made if it is missing, activated.
\* The upsert waits for the row and overwrites what it finds, the identity
\* included; everything after it happens under its lock.
Bootstrap(c) ==
    /\ call[c].at = "found" /\ RowIsFree(c)
    /\ call' = [call EXCEPT ![c].at = "ready", ![c].wrote = TRUE,
           ![c].institution = Activated([institution EXCEPT !.exists = TRUE, !.active = None], Base)]
    /\ UNCHANGED <<tables, answers, queue>>

\* SELECT ... FOR UPDATE of the institution and what follows it.
Activate(c) ==
    /\ call[c].at = "activating" /\ RowIsFree(c)
    /\ call' = [call EXCEPT ![c].at = "ready", ![c].wrote = TRUE,
           ![c].institution =
               Activated(institution, IF call[c].key \in Creates THEN Base ELSE call[c].key)]
    /\ UNCHANGED <<tables, answers, queue>>

-----------------------------------------------------------------------------
(* The end of the transaction.                                             *)

\* The row of the key is COMPLETED and all becomes visible at once.  The new
\* project refers to the institution, so its insert waits while another open
\* transaction has that row.  The foreign key from the request to its user is
\* checked here.
Publish(c, r) ==
    /\ call[c].at = "ready" /\ user
    /\ call[c].key \in Creates => RowIsFree(c)
    /\ completed' = [completed EXCEPT ![call[c].key] = r]
    /\ institution' = IF call[c].wrote THEN call[c].institution ELSE institution
    /\ EndCall(c)
    /\ UNCHANGED <<user, queue>>

Commit(c, r) ==
    /\ Publish(c, r)
    /\ answers' = answers \cup {<<call[c].key, r>>}

\* COMMIT took effect and its answer is lost: the caller sees an error.
LoseCommit(c, r) ==
    /\ "database" \in Faults
    /\ Publish(c, r)
    /\ UNCHANGED answers

\* activateIdentity finds no such identity version: ROLLBACK.
Throw(c) ==
    /\ call[c].at = "reading" /\ call[c].key \in Identities
    /\ institution.exists => institution.status[call[c].key] = "none"
    /\ EndCall(c)
    /\ UNCHANGED <<tables, answers, queue>>

\* A statement fails: ROLLBACK.
Fail(c) ==
    /\ "database" \in Faults
    /\ call[c].conns > 0 /\ ~Waits(c)
    /\ EndCall(c)
    /\ UNCHANGED <<tables, answers, queue>>

\* The server stops and starts again.
Crash ==
    /\ "crash" \in Faults
    /\ call' = [c \in Calls |-> IdleCall]
    /\ queue' = <<>>
    /\ UNCHANGED <<tables, answers>>

\* Somebody adds an identity version to the institution.
AddIdentity(v) ==
    /\ institution.exists /\ institution.status[v] = "none"
    /\ \A c \in Calls : ~call[c].wrote
    /\ institution' = [institution EXCEPT !.status[v] = "DRAFT"]
    /\ UNCHANGED <<completed, user, answers, queue, call>>

-----------------------------------------------------------------------------

Init ==
    /\ completed = [k \in Keys |-> None]
    /\ user = FALSE
    /\ institution = NoInstitution
    /\ answers = {}
    /\ queue = <<>>
    /\ call = [c \in Calls |-> IdleCall]

Step(c) ==
    \/ Reserve(c) \/ Replay(c) \/ StoreUser(c) \/ Read(c) \/ Bootstrap(c) \/ Activate(c)
    \/ Throw(c)
    \/ \E r \in Results : Commit(c, r)

Next ==
    \/ Serve \/ Crash
    \/ \E c \in Calls :
           \/ Step(c) \/ Fail(c)
           \/ \E k \in Keys : Ask(c, k)
           \/ \E r \in Results : LoseCommit(c, r)
    \/ \E v \in Identities \ {Base} : AddIdentity(v)

Spec == Init /\ [][Next]_vars

\* The pool serves whom it can, the event loop continues every call, and
\* PostgreSQL hands a lock to the longest waiter.
FairSpec == Spec /\ WF_vars(Serve) /\ \A c \in Calls : SF_vars(Step(c))

-----------------------------------------------------------------------------

Once == INSTANCE OncePerRequest WITH result <- completed

\* However calls repeat a request, race each other, fail or lose their answer,
\* it is carried out at most once and every answer is the result of that time.
KeepsOnce == Once!OnceSpec

\* The pointer of the institution and the states of its identity versions agree:
\* exactly the active version is ACTIVE, whoever activates and bootstraps at
\* the same time.
ActiveIdentityIsUnique ==
    \A v \in Identities :
        institution.status[v] = "ACTIVE" <=> institution.exists /\ institution.active = v

\* The foreign key from a request to its user, deferred because the request is
\* inserted first, never makes a COMMIT fail: the user is stored by then.
CommitFindsUser == \A c \in Calls : call[c].at = "ready" => user

\* Every call comes to an end: no two transactions wait for each other's key or
\* row, and none waits for the pool for ever.
EveryCallEnds == \A c \in Calls : call[c].at # "idle" ~> call[c].at = "idle"

\* A mutation runs inside one transaction context.  So the connections of the
\* pool are never all held by mutations that wait for another one.
PoolNeverStarves ==
    Free = 0 => \E c \in InUse : ~Waits(c)

=============================================================================
