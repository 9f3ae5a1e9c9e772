--------------------------- MODULE MutationsProofs ---------------------------
(***************************************************************************)
(* What Mutations guarantees for any number of calls, requests, identity   *)
(* versions and connections, and under every combination of faults.        *)
(***************************************************************************)
EXTENDS Mutations, FiniteSetTheorems, TLAPS

\* A call waits for its first connection with none, or for its second with one,
\* and never twice at once.
QueueInv ==
    /\ \A i, j \in 1..Len(queue) : queue[i] = queue[j] => i = j
    /\ \A i \in 1..Len(queue) :
          \/ call[queue[i]].at = "asking" /\ call[queue[i]].conns = 0
          \/ call[queue[i]].at = "reserved" /\ call[queue[i]].conns = 1

\* A call that waits for its first connection has none, one that has begun has
\* one.
ConnsInv ==
    \A c \in Calls :
        /\ call[c].at \in {"idle", "asking"} => call[c].conns = 0
        /\ call[c].at = "begun" => call[c].conns = 1

\* One open reservation of a request, and none of a completed one.
KeysInv ==
    /\ \A c \in Calls : Reserved(c) => completed[call[c].key] = None
    /\ \A c, d \in Calls :
          c # d /\ Reserved(c) /\ Reserved(d) => call[c].key # call[d].key

\* The user is stored before an institution is, and before a project.
UserInv ==
    /\ institution.exists => user
    /\ \A c \in Calls :
          /\ call[c].at \in {"found", "activating", "ready"} => user
          /\ call[c].at = "reading" /\ call[c].key \in Creates => user

\* The pointer and the states of one copy of the institution agree.
Agrees(i) == \A v \in Identities : i.status[v] = "ACTIVE" <=> i.exists /\ i.active = v

\* One transaction at a time has written the institution; its copy agrees too.
RowInv ==
    /\ Agrees(institution)
    /\ \A c \in Calls :
          /\ call[c].at = "activating" => institution.exists
          /\ call[c].wrote =>
                /\ call[c].at = "ready"
                /\ call[c].institution.exists /\ Agrees(call[c].institution)
    /\ \A c, d \in Calls : c # d => ~(call[c].wrote /\ call[d].wrote)

IInv == TypeOK /\ QueueInv /\ ConnsInv /\ KeysInv /\ UserInv /\ RowInv

-----------------------------------------------------------------------------
(* The data.                                                               *)

\* The call at rest and the institution that is not there are well typed.
LEMMA IdleIsTyped == IdleCall \in CallStates /\ NoInstitution \in Institutions
  <1>1. NoInstitution \in Institutions
    BY DEF NoInstitution, Institutions
  <1>2. Base \in Keys
    BY MutationsAssumption DEF Keys
  <1> QED
    BY <1>1, <1>2 DEF IdleCall, CallStates

\* Activating a version leaves one version active, and the institution there.
LEMMA ActivatedAgrees ==
    ASSUME NEW i \in Institutions, i.exists, NEW v \in Identities
    PROVE  /\ Activated(i, v) \in Institutions
           /\ Activated(i, v).exists
           /\ Agrees(Activated(i, v))
  <1>1. /\ Activated(i, v).exists /\ Activated(i, v).active = v
        /\ Activated(i, v).status = [w \in Identities |->
              IF w = v THEN "ACTIVE"
              ELSE IF i.status[w] = "ACTIVE" THEN "ARCHIVED" ELSE i.status[w]]
        /\ Activated(i, v) \in Institutions
    BY DEF Activated, Institutions
  <1>2. \A w \in Identities : Activated(i, v).status[w] = "ACTIVE" <=> w = v
    BY <1>1 DEF Institutions
  <1> QED
    BY <1>1, <1>2 DEF Agrees

-----------------------------------------------------------------------------

\* Nobody has called and nothing is stored.
LEMMA InitIInv == Init => IInv
  <1> SUFFICES ASSUME Init PROVE IInv
    OBVIOUS
  <1>1. TypeOK
    <2>1. completed \in [Keys -> Results \cup {None}] /\ call \in [Calls -> CallStates]
      BY IdleIsTyped DEF Init
    <2>2. institution \in Institutions
      BY IdleIsTyped DEF Init
    <2>3. answers \subseteq Keys \X Results
      BY DEF Init
    <2>4. user \in BOOLEAN
      BY DEF Init
    <2>5. queue \in Seq(Calls)
      BY DEF Init
    <2> QED
      BY <2>1, <2>2, <2>3, <2>4, <2>5 DEF TypeOK
  <1>2. \A c \in Calls : call[c].at = "idle" /\ call[c].conns = 0 /\ call[c].wrote = FALSE
    BY DEF Init, IdleCall
  <1>3. Agrees(institution) /\ ~institution.exists
    BY DEF Init, NoInstitution, Agrees
  <1>4. QueueInv
    BY DEF Init, QueueInv
  <1> QED
    BY <1>1, <1>2, <1>3, <1>4
    DEF IInv, ConnsInv, KeysInv, UserInv, RowInv, Reserved

\* A connection is handed out: the head of the queue leaves it with one more.
LEMMA ServeKeepsIInv ==
    ASSUME IInv, Serve
    PROVE  IInv'
  <1> DEFINE h == Head(queue)
  <1>1. /\ queue \in Seq(Calls) /\ Len(queue) > 0 /\ h = queue[1] /\ h \in Calls
        /\ queue' \in Seq(Calls) /\ Len(queue') = Len(queue) - 1
        /\ \A i \in 1..Len(queue') : queue'[i] = queue[i + 1] /\ i + 1 \in 1..Len(queue)
    BY DEF Serve, IInv, TypeOK
  <1>2. \/ call[h].at = "asking" /\ call[h].conns = 0
        \/ call[h].at = "reserved" /\ call[h].conns = 1
    BY <1>1 DEF IInv, QueueInv
  <1>3. PICK n \in CallStates :
            /\ call' = [call EXCEPT ![h] = n]
            /\ n.key = call[h].key /\ n.wrote = call[h].wrote
            /\ n.institution = call[h].institution
            /\ \/ call[h].at = "asking" /\ n.at = "begun" /\ n.conns = 1
               \/ call[h].at = "reserved" /\ n.at = "reserved" /\ n.conns = 2
    <2>1. call[h] \in CallStates
      BY <1>1 DEF IInv, TypeOK
    <2>2. CASE call[h].at = "asking" /\ call[h].conns = 0
      <3> DEFINE m == [call[h] EXCEPT !.conns = 1, !.at = "begun"]
      <3>1. call' = [call EXCEPT ![h] = m]
        BY <1>1, <2>1, <2>2 DEF Serve, IInv, TypeOK, CallStates
      <3>2. m \in CallStates /\ m.at = "begun" /\ m.conns = 1
        BY <2>1 DEF CallStates
      <3> QED
        BY <2>1, <2>2, <3>1, <3>2 DEF CallStates
    <2>3. CASE call[h].at = "reserved" /\ call[h].conns = 1
      <3> DEFINE m == [call[h] EXCEPT !.conns = 2, !.at = "reserved"]
      <3>1. call' = [call EXCEPT ![h] = m]
        <4>1. call' = [call EXCEPT ![h] = [call[h] EXCEPT !.conns = call[h].conns + 1,
                           !.at = IF call[h].at = "asking" THEN "begun" ELSE call[h].at]]
          BY <1>1, <2>1 DEF Serve, IInv, TypeOK, CallStates
        <4> QED
          BY <4>1, <2>3
      <3>2. m \in CallStates /\ m.at = "reserved" /\ m.conns = 2
        BY <2>1, <2>3 DEF CallStates
      <3> QED
        BY <2>1, <2>3, <3>1, <3>2 DEF CallStates
    <2> QED
      BY <1>2, <2>2, <2>3
  <1>4. UNCHANGED <<completed, user, institution, answers>>
    BY DEF Serve, tables
  <1>5. /\ call'[h] = n /\ \A c \in Calls \ {h} : call'[c] = call[c]
        /\ call' \in [Calls -> CallStates]
    BY <1>1, <1>3 DEF IInv, TypeOK
  <1> HIDE DEF h
  <1>6. TypeOK'
    BY <1>1, <1>4, <1>5 DEF IInv, TypeOK
  <1>7. QueueInv'
    <2>1. \A i \in 1..Len(queue') : queue'[i] # h /\ queue'[i] \in Calls
      BY <1>1 DEF IInv, QueueInv
    <2>2. \A i \in 1..Len(queue') : call'[queue'[i]] = call[queue[i + 1]]
      BY <2>1, <1>1, <1>5
    <2> QED
      BY <2>2, <1>1 DEF IInv, QueueInv
  <1>8. ConnsInv'
    BY <1>1, <1>3, <1>5 DEF IInv, ConnsInv
  <1>9. KeysInv'
    BY <1>1, <1>3, <1>4, <1>5 DEF IInv, KeysInv, Reserved
  <1>10. UserInv'
    BY <1>1, <1>3, <1>4, <1>5 DEF IInv, UserInv
  <1>11. RowInv'
    BY <1>1, <1>3, <1>4, <1>5 DEF IInv, RowInv
  <1> QED
    BY <1>6, <1>7, <1>8, <1>9, <1>10, <1>11 DEF IInv

-----------------------------------------------------------------------------
(* Steps of one call.                                                      *)

\* A call that does not wait leaves the queue as it is.
LEMMA QueueKept ==
    ASSUME IInv, NEW c \in Calls, UNCHANGED queue,
           \A i \in 1..Len(queue) : queue[i] # c,
           \A d \in Calls \ {c} : call'[d] = call[d]
    PROVE  QueueInv'
  <1>1. \A i \in 1..Len(queue) : queue[i] \in Calls \ {c}
    BY DEF IInv, TypeOK
  <1> QED
    BY <1>1 DEF IInv, QueueInv

\* A call that does not wait yet joins the queue at its end.
LEMMA QueueGrown ==
    ASSUME IInv, NEW c \in Calls, queue' = Append(queue, c),
           \A i \in 1..Len(queue) : queue[i] # c,
           \A d \in Calls \ {c} : call'[d] = call[d],
           \/ call'[c].at = "asking" /\ call'[c].conns = 0
           \/ call'[c].at = "reserved" /\ call'[c].conns = 1
    PROVE  QueueInv' /\ queue' \in Seq(Calls)
  <1>1. /\ queue \in Seq(Calls) /\ Len(queue) \in Nat
        /\ Len(queue') = Len(queue) + 1 /\ queue'[Len(queue) + 1] = c
        /\ \A i \in 1..Len(queue) : queue'[i] = queue[i]
        /\ queue' \in Seq(Calls)
    BY DEF IInv, TypeOK
  <1>2. \A i \in 1..Len(queue) : queue[i] \in Calls \ {c}
    BY <1>1
  <1>3. \A i \in 1..Len(queue') : i = Len(queue) + 1 \/ i \in 1..Len(queue)
    BY <1>1
  <1>4. \A i, j \in 1..Len(queue') : queue'[i] = queue'[j] => i = j
    BY <1>1, <1>2, <1>3 DEF IInv, QueueInv
  <1>5. \A i \in 1..Len(queue') :
            \/ call'[queue'[i]].at = "asking" /\ call'[queue'[i]].conns = 0
            \/ call'[queue'[i]].at = "reserved" /\ call'[queue'[i]].conns = 1
    BY <1>1, <1>2, <1>3 DEF IInv, QueueInv
  <1> QED
    BY <1>1, <1>4, <1>5 DEF QueueInv

\* Only a call that is asking, or has reserved and holds one connection, waits.
LEMMA OnlyTheyWait ==
    ASSUME IInv, NEW c \in Calls,
           ~(call[c].at = "asking" /\ call[c].conns = 0),
           ~(call[c].at = "reserved" /\ call[c].conns = 1)
    PROVE  \A i \in 1..Len(queue) : queue[i] # c
  BY DEF IInv, QueueInv

\* A new call queues for its connection.
LEMMA AskKeepsIInv ==
    ASSUME IInv, NEW c \in Calls, NEW k \in Keys, Ask(c, k)
    PROVE  IInv'
  <1>1. /\ UNCHANGED <<completed, user, institution, answers>>
        /\ call[c].at = "idle" /\ call[c].conns = 0
        /\ call[c].wrote = FALSE
    BY DEF Ask, tables, IInv, ConnsInv, RowInv, TypeOK, CallStates
  <1>2. /\ call'[c].at = "asking" /\ call'[c].conns = 0 /\ call'[c].wrote = FALSE
        /\ \A d \in Calls \ {c} : call'[d] = call[d]
        /\ call' \in [Calls -> CallStates]
    <2> DEFINE n == [call[c] EXCEPT !.at = "asking", !.key = k]
    <2>1. call[c] \in CallStates
      BY DEF IInv, TypeOK
    <2>2. call' = [call EXCEPT ![c] = n]
      BY <2>1 DEF Ask, IInv, TypeOK, CallStates
    <2>3. n \in CallStates /\ n.at = "asking" /\ n.conns = 0 /\ n.wrote = FALSE
      BY <1>1, <2>1 DEF CallStates
    <2> QED
      BY <2>2, <2>3 DEF IInv, TypeOK
  <1>3. QueueInv' /\ queue' \in Seq(Calls)
    <2>1. \A i \in 1..Len(queue) : queue[i] # c
      BY <1>1, OnlyTheyWait
    <2>2. queue' = Append(queue, c)
      BY DEF Ask
    <2> QED
      BY <1>2, <2>1, <2>2, QueueGrown
  <1>4. TypeOK'
    BY <1>1, <1>2, <1>3 DEF IInv, TypeOK
  <1>5. ConnsInv' /\ UserInv'
    BY <1>1, <1>2 DEF IInv, ConnsInv, UserInv
  <1>6. KeysInv'
    BY <1>1, <1>2 DEF IInv, KeysInv, Reserved
  <1>7. RowInv'
    BY <1>1, <1>2 DEF IInv, RowInv
  <1> QED
    BY <1>3, <1>4, <1>5, <1>6, <1>7 DEF IInv

\* The key is reserved by one call only, which goes on to its user or its read.
LEMMA ReserveKeepsIInv ==
    ASSUME IInv, NEW c \in Calls, Reserve(c)
    PROVE  IInv'
  <1>1. /\ UNCHANGED <<completed, user, institution, answers>>
        /\ call[c].at = "begun" /\ call[c].conns = 1
        /\ call[c].wrote = FALSE
        /\ completed[call[c].key] = None
        /\ \A d \in Calls \ {c} : Reserved(d) => call[d].key # call[c].key
    BY DEF Reserve, tables, IInv, ConnsInv, RowInv, TypeOK, CallStates
  <1>2. /\ call'[c].at = IF call[c].key \in Creates THEN "reserved" ELSE "reading"
        /\ call'[c].conns = 1 /\ call'[c].wrote = FALSE /\ call'[c].key = call[c].key
        /\ \A d \in Calls \ {c} : call'[d] = call[d]
        /\ call' \in [Calls -> CallStates]
    BY <1>1 DEF Reserve, IInv, TypeOK, CallStates
  <1>3. \A i \in 1..Len(queue) : queue[i] # c
    BY <1>1, OnlyTheyWait
  <1>4. QueueInv' /\ queue' \in Seq(Calls)
    <2>1. CASE call[c].key \in Creates
      <3>1. queue' = Append(queue, c)
        BY <2>1 DEF Reserve
      <3>2. call'[c].at = "reserved" /\ call'[c].conns = 1
        BY <2>1, <1>2
      <3> QED
        BY <1>2, <1>3, <3>1, <3>2, QueueGrown
    <2>2. CASE call[c].key \notin Creates
      <3>1. UNCHANGED queue
        BY <2>2 DEF Reserve
      <3> QED
        BY <1>2, <1>3, <3>1, QueueKept DEF IInv, TypeOK
    <2> QED
      BY <2>1, <2>2
  <1>5. TypeOK'
    BY <1>1, <1>2, <1>4 DEF IInv, TypeOK
  <1>6. ConnsInv' /\ UserInv'
    BY <1>1, <1>2 DEF IInv, ConnsInv, UserInv
  <1>7. KeysInv'
    BY <1>1, <1>2 DEF IInv, KeysInv, Reserved
  <1>8. RowInv'
    BY <1>1, <1>2 DEF IInv, RowInv
  <1> QED
    BY <1>4, <1>5, <1>6, <1>7, <1>8 DEF IInv

\* A call that ends without a trace in the tables gives up what it held.
LEMMA EndKeepsIInv ==
    ASSUME IInv, NEW c \in Calls, Replay(c) \/ Throw(c) \/ Fail(c)
    PROVE  IInv'
  <1>1. /\ UNCHANGED <<completed, user, institution, queue>>
        /\ EndCall(c)
    BY DEF Replay, Throw, Fail, tables
  <1>2. /\ call'[c].at = "idle" /\ call'[c].conns = 0 /\ call'[c].wrote = FALSE
        /\ \A d \in Calls \ {c} : call'[d] = call[d]
        /\ call' \in [Calls -> CallStates]
    BY <1>1, IdleIsTyped DEF EndCall, IdleCall, IInv, TypeOK
  <1>3. \A i \in 1..Len(queue) : queue[i] # c
    <2>1. CASE Replay(c) \/ Throw(c)
      BY <2>1, OnlyTheyWait DEF Replay, Throw
    <2>2. CASE Fail(c)
      BY <2>2 DEF Fail, Waits, IInv, TypeOK
    <2> QED
      BY <2>1, <2>2
  <1>4. answers' \subseteq Keys \X Results
    <2>1. CASE Replay(c)
      <3>1. call[c].key \in Keys
        BY DEF IInv, TypeOK, CallStates
      <3>2. completed[call[c].key] \in Results
        BY <2>1, <3>1 DEF Replay, IInv, TypeOK
      <3> QED
        BY <2>1, <3>1, <3>2 DEF Replay, IInv, TypeOK
    <2>2. CASE Throw(c) \/ Fail(c)
      BY <2>2 DEF Throw, Fail, IInv, TypeOK
    <2> QED
      BY <2>1, <2>2
  <1>5. TypeOK'
    BY <1>1, <1>2, <1>4 DEF IInv, TypeOK
  <1>6. QueueInv'
    BY <1>1, <1>2, <1>3, QueueKept
  <1>7. ConnsInv' /\ UserInv'
    BY <1>1, <1>2 DEF IInv, ConnsInv, UserInv
  <1>8. KeysInv'
    BY <1>1, <1>2 DEF IInv, KeysInv, Reserved
  <1>9. RowInv'
    BY <1>1, <1>2 DEF IInv, RowInv
  <1> QED
    BY <1>5, <1>6, <1>7, <1>8, <1>9 DEF IInv

\* The user is stored and the second connection given back, or the institution
\* is read.
LEMMA ReadKeepsIInv ==
    ASSUME IInv, NEW c \in Calls, StoreUser(c) \/ Read(c)
    PROVE  IInv'
  <1>1. /\ UNCHANGED <<completed, institution, answers, queue>>
        /\ user => user'
        /\ user' \in BOOLEAN
    BY DEF StoreUser, Read, tables, IInv, TypeOK
  <1>2. \A d \in Calls \ {c} : call'[d] = call[d]
    BY DEF StoreUser, Read, IInv, TypeOK
  <1>3. call[c].wrote = FALSE /\ Reserved(c) /\ call[c] \in CallStates
    BY DEF StoreUser, Read, Reserved, IInv, RowInv, TypeOK, CallStates
  <1>4. /\ call' \in [Calls -> CallStates]
        /\ call'[c].key = call[c].key /\ call'[c].wrote = FALSE
        /\ call'[c].at \in {"reading", "found", "activating", "ready"} /\ user'
        /\ call'[c].at = "activating" => institution.exists
    <2>1. CASE StoreUser(c)
      BY <2>1, <1>3 DEF StoreUser, IInv, TypeOK, CallStates
    <2>2. CASE Read(c) /\ call[c].key \in Creates
      <3>1. PICK a \in {"found", "activating", "ready"} :
                /\ call' = [call EXCEPT ![c].at = a]
                /\ a = "activating" => institution.exists
        BY <2>2 DEF Read
      <3>2. user /\ user' = user
        BY <2>2 DEF Read, IInv, UserInv, tables
      <3> QED
        BY <1>3, <3>1, <3>2 DEF IInv, TypeOK, CallStates
    <2>3. CASE Read(c) /\ call[c].key \notin Creates
      <3>1. user /\ user' = user /\ institution.exists
        BY <2>3 DEF Read, IInv, UserInv, tables
      <3>2. call' = [call EXCEPT ![c].at = "activating"]
        BY <2>3 DEF Read
      <3> QED
        BY <1>3, <3>1, <3>2 DEF IInv, TypeOK, CallStates
    <2> QED
      BY <2>1, <2>2, <2>3
  <1>5. \A i \in 1..Len(queue) : queue[i] # c
    <2>1. ~(call[c].at = "asking" /\ call[c].conns = 0)
      BY DEF StoreUser, Read
    <2>2. ~(call[c].at = "reserved" /\ call[c].conns = 1)
      BY DEF StoreUser, Read
    <2> QED
      BY <2>1, <2>2, OnlyTheyWait
  <1>6. TypeOK'
    BY <1>1, <1>4 DEF IInv, TypeOK
  <1>7. QueueInv'
    BY <1>1, <1>2, <1>5, QueueKept
  <1>8. ConnsInv' /\ UserInv'
    BY <1>1, <1>2, <1>4 DEF IInv, ConnsInv, UserInv
  <1>9. KeysInv'
    BY <1>1, <1>2, <1>3, <1>4 DEF IInv, KeysInv, Reserved
  <1>10. RowInv'
    BY <1>1, <1>2, <1>4 DEF IInv, RowInv
  <1> QED
    BY <1>6, <1>7, <1>8, <1>9, <1>10 DEF IInv

\* The row of the institution is written by one transaction at a time, from
\* what is committed.
LEMMA WriteKeepsIInv ==
    ASSUME IInv, NEW c \in Calls, Bootstrap(c) \/ Activate(c)
    PROVE  IInv'
  <1>1. /\ UNCHANGED <<completed, user, institution, answers, queue>>
        /\ RowIsFree(c) /\ call[c].at \in {"found", "activating"}
        /\ user /\ call[c] \in CallStates
    BY DEF Bootstrap, Activate, tables, IInv, UserInv, TypeOK
  <1>2. PICK i \in Institutions :
            /\ i.exists /\ Agrees(i)
            /\ call' = [call EXCEPT ![c].at = "ready", ![c].wrote = TRUE,
                                    ![c].institution = i]
    <2>1. CASE Bootstrap(c)
      <3> DEFINE j == [institution EXCEPT !.exists = TRUE, !.active = None]
      <3>1. j \in Institutions /\ j.exists
        BY DEF IInv, TypeOK, Institutions
      <3> HIDE DEF j
      <3>2. /\ Activated(j, Base) \in Institutions
            /\ Activated(j, Base).exists /\ Agrees(Activated(j, Base))
        BY <3>1, MutationsAssumption, ActivatedAgrees
      <3> QED
        BY <2>1, <3>2 DEF Bootstrap, j
    <2>2. CASE Activate(c)
      <3> DEFINE v == IF call[c].key \in Creates THEN Base ELSE call[c].key
      <3>1. v \in Identities
        BY <1>1, MutationsAssumption DEF CallStates, Keys
      <3>2. institution \in Institutions /\ institution.exists
        BY <2>2 DEF Activate, IInv, TypeOK, RowInv
      <3>3. /\ Activated(institution, v) \in Institutions
            /\ Activated(institution, v).exists /\ Agrees(Activated(institution, v))
        BY <3>1, <3>2, ActivatedAgrees
      <3> QED
        BY <2>2, <3>3 DEF Activate
    <2> QED
      BY <2>1, <2>2
  <1>3. /\ call'[c].at = "ready" /\ call'[c].wrote = TRUE /\ call'[c].key = call[c].key
        /\ call'[c].institution = i
        /\ \A d \in Calls \ {c} : call'[d] = call[d]
        /\ call' \in [Calls -> CallStates]
    BY <1>1, <1>2 DEF IInv, TypeOK, CallStates
  <1>4. \A k \in 1..Len(queue) : queue[k] # c
    BY <1>1, OnlyTheyWait
  <1>5. TypeOK'
    BY <1>1, <1>3 DEF IInv, TypeOK
  <1>6. QueueInv'
    BY <1>1, <1>3, <1>4, QueueKept
  <1>7. ConnsInv' /\ UserInv'
    BY <1>1, <1>3 DEF IInv, ConnsInv, UserInv
  <1>8. KeysInv'
    BY <1>1, <1>3 DEF IInv, KeysInv, Reserved
  <1>9. RowInv'
    BY <1>1, <1>2, <1>3 DEF IInv, RowInv, RowIsFree
  <1> QED
    BY <1>5, <1>6, <1>7, <1>8, <1>9 DEF IInv

\* What one transaction wrote becomes visible and is consistent.
LEMMA PublishKeepsIInv ==
    ASSUME IInv, NEW c \in Calls, NEW r \in Results, Commit(c, r) \/ LoseCommit(c, r)
    PROVE  IInv'
  <1>1. /\ UNCHANGED <<user, queue>> /\ EndCall(c) /\ user
        /\ call[c].at = "ready" /\ call[c] \in CallStates
        /\ completed' = [completed EXCEPT ![call[c].key] = r]
        /\ institution' = IF call[c].wrote THEN call[c].institution ELSE institution
    BY DEF Commit, LoseCommit, Publish, IInv, TypeOK
  <1>2. /\ call'[c].at = "idle" /\ call'[c].conns = 0 /\ call'[c].wrote = FALSE
        /\ \A d \in Calls \ {c} : call'[d] = call[d]
        /\ call' \in [Calls -> CallStates]
    BY <1>1, IdleIsTyped DEF EndCall, IdleCall, IInv, TypeOK
  <1>3. /\ institution' \in Institutions /\ Agrees(institution')
        /\ institution.exists => institution'.exists
    BY <1>1 DEF IInv, TypeOK, RowInv, CallStates
  <1>4. \A i \in 1..Len(queue) : queue[i] # c
    BY <1>1, OnlyTheyWait
  <1>5. call[c].key \in Keys
    BY <1>1 DEF CallStates
  <1>6. TypeOK'
    <2>1. answers' \subseteq Keys \X Results
      BY <1>5 DEF Commit, LoseCommit, IInv, TypeOK
    <2>2. completed' \in [Keys -> Results \cup {None}]
      BY <1>1, <1>5 DEF IInv, TypeOK
    <2> QED
      BY <2>1, <2>2, <1>1, <1>2, <1>3 DEF IInv, TypeOK
  <1>7. QueueInv'
    BY <1>1, <1>2, <1>4, QueueKept
  <1>8. ConnsInv' /\ UserInv'
    BY <1>1, <1>2 DEF IInv, ConnsInv, UserInv
  <1>9. KeysInv'
    <2>1. \A d \in Calls \ {c} : Reserved(d) => call[d].key # call[c].key
      BY <1>1 DEF IInv, KeysInv, Reserved
    <2>2. \A d \in Calls \ {c} : call[d].key \in Keys
      BY DEF IInv, TypeOK, CallStates
    <2> QED
      BY <2>1, <2>2, <1>1, <1>2 DEF IInv, TypeOK, KeysInv, Reserved
  <1>10. RowInv'
    <2>1. Agrees(institution)'
      BY <1>3 DEF Agrees
    <2> QED
      BY <2>1, <1>2, <1>3 DEF IInv, RowInv
  <1> QED
    BY <1>6, <1>7, <1>8, <1>9, <1>10 DEF IInv

\* A restart and a new identity version disturb nothing.
LEMMA OutsideKeepsIInv ==
    ASSUME IInv, Crash \/ \E v \in Identities \ {Base} : AddIdentity(v)
    PROVE  IInv'
  <1>1. CASE Crash
    <2>1. /\ UNCHANGED <<completed, user, institution, answers>> /\ queue' = <<>>
          /\ \A c \in Calls : /\ call'[c].at = "idle" /\ call'[c].conns = 0
                              /\ call'[c].wrote = FALSE
          /\ call' \in [Calls -> CallStates]
      BY <1>1, IdleIsTyped DEF Crash, IdleCall, tables
    <2>2. queue' \in Seq(Calls) /\ Len(queue') = 0
      BY <2>1
    <2>3. TypeOK'
      BY <2>1, <2>2 DEF IInv, TypeOK
    <2> QED
      BY <2>1, <2>2, <2>3
      DEF IInv, QueueInv, ConnsInv, KeysInv, UserInv, RowInv, Reserved
  <1>2. ASSUME NEW v \in Identities, AddIdentity(v) PROVE IInv'
    <2>1. /\ UNCHANGED <<completed, user, answers, queue, call>>
          /\ institution' = [institution EXCEPT !.status[v] = "DRAFT"]
          /\ institution.exists /\ institution.status[v] = "none"
      BY <1>2 DEF AddIdentity
    <2>2. /\ institution' \in Institutions /\ institution'.exists
          /\ institution'.active = institution.active
          /\ institution'.status[v] = "DRAFT"
          /\ \A w \in Identities \ {v} : institution'.status[w] = institution.status[w]
      BY <2>1 DEF IInv, TypeOK, Institutions
    <2>3. Agrees(institution)'
      BY <2>1, <2>2 DEF IInv, RowInv, Agrees
    <2>4. TypeOK'
      BY <2>1, <2>2 DEF IInv, TypeOK
    <2>5. RowInv'
      BY <2>1, <2>2, <2>3 DEF IInv, RowInv
    <2> QED
      BY <2>1, <2>2, <2>4, <2>5 DEF IInv, QueueInv, ConnsInv, KeysInv, UserInv, Reserved
  <1> QED
    BY <1>1, <1>2

\* Every step keeps the invariant.
LEMMA NextKeepsIInv == IInv /\ [Next]_vars => IInv'
  <1> SUFFICES ASSUME IInv, [Next]_vars PROVE IInv'
    OBVIOUS
  <1>1. CASE Serve
    BY <1>1, ServeKeepsIInv
  <1>2. CASE Crash \/ \E v \in Identities \ {Base} : AddIdentity(v)
    BY <1>2, OutsideKeepsIInv
  <1>3. ASSUME NEW c \in Calls, NEW k \in Keys, Ask(c, k) PROVE IInv'
    BY <1>3, AskKeepsIInv
  <1>4. ASSUME NEW c \in Calls, Reserve(c) PROVE IInv'
    BY <1>4, ReserveKeepsIInv
  <1>5. ASSUME NEW c \in Calls, Replay(c) \/ Throw(c) \/ Fail(c) PROVE IInv'
    BY <1>5, EndKeepsIInv
  <1>6. ASSUME NEW c \in Calls, StoreUser(c) \/ Read(c) PROVE IInv'
    BY <1>6, ReadKeepsIInv
  <1>7. ASSUME NEW c \in Calls, Bootstrap(c) \/ Activate(c) PROVE IInv'
    BY <1>7, WriteKeepsIInv
  <1>8. ASSUME NEW c \in Calls, NEW r \in Results, Commit(c, r) \/ LoseCommit(c, r)
        PROVE  IInv'
    BY <1>8, PublishKeepsIInv
  <1>9. CASE UNCHANGED vars
    BY <1>9 DEF vars, tables, IInv, TypeOK, QueueInv, ConnsInv, KeysInv, UserInv, RowInv,
       Reserved
  <1> QED
    BY <1>1, <1>2, <1>3, <1>4, <1>5, <1>6, <1>7, <1>8, <1>9 DEF Next, Step

\* The invariant holds in every reachable state.
LEMMA InvariantHolds == Spec => []IInv
  BY InitIInv, NextKeepsIInv, PTL DEF Spec

-----------------------------------------------------------------------------

\* The tables, the queue and the calls always hold what they may.
THEOREM TypesHold == Spec => []TypeOK
  <1>1. IInv => TypeOK
    BY DEF IInv
  <1> QED
    BY <1>1, InvariantHolds, PTL

\* An institution has one active identity version, and its pointer names it.
THEOREM ActiveIdentityStaysUnique == Spec => []ActiveIdentityIsUnique
  <1>1. IInv => ActiveIdentityIsUnique
    BY DEF IInv, RowInv, Agrees, ActiveIdentityIsUnique
  <1> QED
    BY <1>1, InvariantHolds, PTL

\* The deferred foreign key of a request never fails its COMMIT.
THEOREM UsersAreStoredFirst == Spec => []CommitFindsUser
  <1>1. IInv => CommitFindsUser
    BY DEF IInv, UserInv, CommitFindsUser
  <1> QED
    BY <1>1, InvariantHolds, PTL

\* A request is carried out at most once and every answer is its result.
THEOREM RequestsRunOnce == Spec => KeepsOnce
  <1>1. Init => Once!OnceInit
    BY DEF Init, Once!OnceInit
  <1>2. IInv /\ [Next]_vars => [Once!OnceNext]_Once!onceVars
    <2> SUFFICES ASSUME IInv, [Next]_vars PROVE [Once!OnceNext]_Once!onceVars
      OBVIOUS
    <2>1. ASSUME NEW c \in Calls, Replay(c) PROVE Once!OnceNext
      <3>1. call[c].key \in Keys
        BY DEF IInv, TypeOK, CallStates
      <3> QED
        BY <2>1, <3>1 DEF Replay, tables, Once!OnceNext, Once!Answer
    <2>2. ASSUME NEW c \in Calls, NEW r \in Results, Commit(c, r) \/ LoseCommit(c, r)
          PROVE  Once!OnceNext
      <3>1. call[c].key \in Keys /\ completed[call[c].key] = None
        BY <2>2 DEF Commit, LoseCommit, Publish, IInv, TypeOK, CallStates, KeysInv, Reserved
      <3>2. Once!Perform(call[c].key, r)
        BY <2>2, <3>1 DEF Commit, LoseCommit, Publish, Once!Perform
      <3> QED
        BY <3>1, <3>2 DEF Once!OnceNext
    <2>3. ASSUME NEW c \in Calls,
                 \/ Reserve(c) \/ StoreUser(c) \/ Read(c) \/ Bootstrap(c) \/ Activate(c)
                 \/ Throw(c) \/ Fail(c) \/ \E k \in Keys : Ask(c, k)
          PROVE  UNCHANGED <<completed, answers>>
      BY <2>3 DEF Reserve, StoreUser, Read, Bootstrap, Activate, Throw, Fail, Ask, tables
    <2>4. CASE Serve \/ Crash \/ UNCHANGED vars
               \/ \E v \in Identities \ {Base} : AddIdentity(v)
      BY <2>4 DEF Serve, Crash, AddIdentity, vars, tables, Once!onceVars
    <2> QED
      BY <2>1, <2>2, <2>3, <2>4 DEF Next, Step, Once!onceVars
  <1> QED
    BY <1>1, <1>2, InvariantHolds, PTL DEF Spec, KeepsOnce, Once!OnceSpec

\* The pool never starves while it is larger than the number of calls that run
\* at once: a call that waits holds one connection at most.
THEOREM LargePoolNeverStarves ==
    ASSUME IsFiniteSet(Calls), Cardinality(Calls) < PoolSize
    PROVE  Spec => []PoolNeverStarves
  <1>1. IInv => PoolNeverStarves
    <2> SUFFICES ASSUME IInv, Free = 0, \A c \in InUse : Waits(c) PROVE FALSE
      BY DEF PoolNeverStarves
    <2>1. \A c \in InUse : call[c].conns = 1
      BY DEF InUse, Waits, IInv, TypeOK, QueueInv
    <2>2. {c \in Calls : call[c].conns = 2} = {}
      BY <2>1 DEF InUse
    <2>3. Cardinality({c \in Calls : call[c].conns = 2}) = 0
      BY <2>2, FS_EmptySet
    <2>4. InUse \subseteq Calls
      BY DEF InUse
    <2>5. /\ IsFiniteSet(InUse) /\ Cardinality(InUse) <= Cardinality(Calls)
          /\ Cardinality(InUse) \in Nat /\ Cardinality(Calls) \in Nat
      BY <2>4, FS_Subset, FS_CardinalityType
    <2> QED
      BY <2>3, <2>5, MutationsAssumption DEF Free
  <1> QED
    BY <1>1, InvariantHolds, PTL

=============================================================================
