--------------------------- MODULE GatewayProofs ---------------------------
(***************************************************************************)
(* The properties of Gateway, for any requests, tokens, keys and limits.   *)
(***************************************************************************)
EXTENDS Gateway, TLAPS

USE FirstKeyAssumption, TtlAssumption, LimitsAssumption, MaxTimeAssumption

-----------------------------------------------------------------------------
(* Type correctness.                                                       *)

Waiting == [pc : {"fetching", "fetched", "judging"}, token : Tokens, asked : 0..MaxTime,
            keys : SUBSET Keys]

\* A request that waits or is judged carries a token, a time and keys; only
\* such a request does.
LEMMA WaitingRequest ==
    ASSUME NEW r \in Requests, r.pc \in {"fetching", "fetched", "judging"}
    PROVE  r \in Waiting
  BY DEF Requests, Waiting

\* With another place to wait at, or with other keys, it is such a request.
LEMMA WaitingOn ==
    ASSUME NEW r \in Waiting, NEW pc \in {"fetching", "fetched", "judging"},
           NEW K \in SUBSET Keys
    PROVE  /\ [r EXCEPT !.pc = pc] \in Requests
           /\ [r EXCEPT !.pc = pc, !.keys = K] \in Requests
  BY DEF Requests, Waiting

\* The initial states have the types.
LEMMA TypeInit == Init => TypeOK
  <1> SUFFICES ASSUME Init PROVE TypeOK
    OBVIOUS
  <1>1. /\ clock \in 0..MaxTime /\ minute \in 0..clock
        /\ limit \in Limits /\ passed \in [Users -> Nat]
    BY DEF Init
  <1>2. serving \in BOOLEAN
    BY DEF Init
  <1>3. since \in [Keys -> 0..Never] /\ until \in [Keys -> 0..Never]
    BY DEF Init, Never
  <1>4. cache \in [expiresAt : Nat, keys : SUBSET Keys]
    BY DEF Init, Empty
  <1>5. bucket \in [Users -> [minute : -1..minute, count : Nat]]
    BY DEF Init, NoBucket
  <1>6. call \in [Calls -> Requests]
    BY DEF Init, Idle, Requests
  <1> QED
    BY <1>1, <1>4, <1>5, <1>6, <1>3, <1>2 DEF TypeOK

\* Every step keeps the types.
LEMMA TypeNext == TypeOK /\ [Next]_vars => TypeOK'
  <1> SUFFICES ASSUME TypeOK, [Next]_vars PROVE TypeOK'
    OBVIOUS
  <1> USE DEF TypeOK
  <1>1. CASE Boot
    BY <1>1 DEF Boot, issuer, limiter
  <1>2. CASE Restart
    <2>1. cache' \in [expiresAt : Nat, keys : SUBSET Keys]
      BY <1>2 DEF Restart, Empty
    <2>2. bucket' \in [Users -> [minute : -1..minute', count : Nat]]
      BY <1>2 DEF Restart, NoBucket
    <2>3. call' \in [Calls -> Requests] /\ passed' \in [Users -> Nat]
      BY <1>2 DEF Restart, Idle, Requests
    <2> QED
      BY <1>2, <2>1, <2>2, <2>3 DEF Restart, issuer
  <1>3. CASE Tick
    BY <1>3 DEF Tick, issuer
  <1>4. ASSUME NEW k \in Keys, Publish(k) PROVE TypeOK'
    BY <1>4 DEF Publish, limiter, Never
  <1>5. ASSUME NEW k \in Keys, Withdraw(k) PROVE TypeOK'
    BY <1>5 DEF Withdraw, limiter, Never
  <1>6. ASSUME NEW c \in Calls, NEW t \in Tokens, Arrive(c, t) PROVE TypeOK'
    BY <1>6 DEF Arrive, Await, limiter, issuer, Requests
  <1>7. ASSUME NEW c \in Calls, IssuerAnswers(c) PROVE TypeOK'
    <2>1. call[c] \in Waiting
      BY <1>7, WaitingRequest DEF IssuerAnswers, At
    <2>2. Published \in SUBSET Keys
      BY DEF Published
    <2>3. [call[c] EXCEPT !.pc = "fetched", !.keys = Published] \in Requests
      BY <2>1, <2>2, WaitingOn
    <2> QED
      BY <1>7, <2>3 DEF IssuerAnswers, limiter, issuer
  <1>8. ASSUME NEW c \in Calls, KeysArrive(c) PROVE TypeOK'
    <2>1. call[c] \in Waiting
      BY <1>8, WaitingRequest DEF KeysArrive, At
    <2>2. [call[c] EXCEPT !.pc = "judging"] \in Requests
      BY <2>1, WaitingOn
    <2>3. call' \in [Calls -> Requests]
      BY <1>8, <2>2 DEF KeysArrive, Go
    <2>4. cache' \in [expiresAt : Nat, keys : SUBSET Keys]
      BY <1>8, <2>1 DEF KeysArrive, Waiting
    <2> QED
      BY <1>8, <2>3, <2>4 DEF KeysArrive, limiter, issuer
  <1>9. ASSUME NEW c \in Calls, FetchFails(c) PROVE TypeOK'
    BY <1>9 DEF FetchFails, Answer, Idle, Requests, limiter, issuer
  <1>10. ASSUME NEW c \in Calls, Judge(c) PROVE TypeOK'
    <2>1. CASE Reject(c) \/ Limit(c)
      BY <2>1 DEF Reject, Limit, Answer, Idle, Requests, limiter, issuer
    <2>2. CASE Admit(c)
      <3>1. call[c].token \in Tokens /\ call[c].token.sub \in Users
        BY <2>2, WaitingRequest DEF Admit, At, Waiting, Users
      <3>2. call' \in [Calls -> Requests]
        BY <2>2, <3>1 DEF Admit, Requests
      <3>3. bucket' \in [Users -> [minute : -1..minute, count : Nat]]
        BY <2>2, <3>1 DEF Admit
      <3>4. passed' \in [Users -> Nat]
        BY <2>2, <3>1 DEF Admit
      <3> QED
        BY <2>2, <3>2, <3>3, <3>4 DEF Admit, issuer
    <2> QED
      BY <1>10, <2>1, <2>2 DEF Judge
  <1>11. ASSUME NEW c \in Calls, NEW tool \in Tools, Dispatch(c, tool) PROVE TypeOK'
    BY <1>11 DEF Dispatch, Answer, Idle, Requests, limiter, issuer
  <1>12. ASSUME NEW c \in Calls, ToolEnds(c) PROVE TypeOK'
    BY <1>12 DEF ToolEnds, Answer, Idle, Requests, limiter, issuer
  <1>13. CASE UNCHANGED vars
    BY <1>13 DEF vars
  <1> QED
    BY <1>1, <1>2, <1>3, <1>4, <1>5, <1>6, <1>7, <1>8, <1>9, <1>10, <1>11, <1>12, <1>13
    DEF Next

\* The variables keep their types, whatever the requests, tokens and limits.
THEOREM TypeCorrect == Spec => []TypeOK
  <1> QED
    BY TypeInit, TypeNext, PTL DEF Spec

-----------------------------------------------------------------------------
(* The keys.                                                               *)

\* The keys K were published at some time from a on.
FetchedFrom(K, a) ==
    /\ \A k \in K : since[k] <= clock /\ until[k] >= a
    /\ \A k \in Keys : since[k] < a /\ until[k] = Never => k \in K

\* The keys K are no older than a Ttl before a.
ServeFor(K, a) ==
    /\ \A k \in K : since[k] <= clock /\ until[k] > a - Ttl
    /\ \A k \in Keys : since[k] <= a - Ttl /\ until[k] = Never => k \in K

Dates == \A k \in Keys : /\ since[k] = Never \/ since[k] <= clock
                         /\ until[k] = Never \/ until[k] <= clock

CacheOK ==
    /\ cache.expiresAt - Ttl <= clock
    /\ CacheIsFresh => FetchedFrom(cache.keys, cache.expiresAt - Ttl)

CallsOK ==
    \A c \in Calls :
        /\ call[c].pc \in {"fetching", "fetched", "judging"} => call[c].asked <= clock
        /\ At(c, "fetched") => FetchedFrom(call[c].keys, call[c].asked)
        /\ At(c, "judging") => ServeFor(call[c].keys, call[c].asked)

KeyInv == TypeOK /\ Dates /\ CacheOK /\ CallsOK

\* A set of keys outlives the passing of time and what the issuer does.
LEMMA KeysStand ==
    ASSUME TypeOK, Dates,
           Tick \/ \E k \in Keys : Publish(k) \/ Withdraw(k),
           NEW K \in SUBSET Keys, NEW a \in Int, a <= clock
    PROVE  /\ FetchedFrom(K, a) => FetchedFrom(K, a)'
           /\ ServeFor(K, a) => ServeFor(K, a)'
  <1>1. CASE Tick
    BY <1>1 DEF Tick, TypeOK, FetchedFrom, ServeFor, issuer, Never
  <1>2. ASSUME NEW k \in Keys, Publish(k)
        PROVE  /\ FetchedFrom(K, a) => FetchedFrom(K, a)'
               /\ ServeFor(K, a) => ServeFor(K, a)'
    BY <1>2 DEF Publish, TypeOK, FetchedFrom, ServeFor, Never
  <1>3. ASSUME NEW k \in Keys, Withdraw(k)
        PROVE  /\ FetchedFrom(K, a) => FetchedFrom(K, a)'
               /\ ServeFor(K, a) => ServeFor(K, a)'
    BY <1>3 DEF Withdraw, TypeOK, FetchedFrom, ServeFor, Never
  <1> QED
    BY <1>1, <1>2, <1>3

\* A first verdict on keys: those of an answer serve from when it was asked for,
\* and those of a cache that is still fresh serve now.
LEMMA FetchedServe ==
    ASSUME TypeOK, NEW K \in SUBSET Keys, NEW a \in Int, NEW b \in Int,
           FetchedFrom(K, a), a > b - Ttl
    PROVE  ServeFor(K, b)
  BY DEF FetchedFrom, ServeFor, TypeOK

\* Before anything is fetched there is nothing to know of the keys.
LEMMA KeyInit == Init => KeyInv
  <1> SUFFICES ASSUME Init PROVE KeyInv
    OBVIOUS
  <1>1. TypeOK
    BY TypeInit
  <1>2. Dates
    BY DEF Init, Dates, Never
  <1>3. CacheOK
    BY DEF Init, CacheOK, CacheIsFresh, Empty
  <1>4. CallsOK
    BY DEF Init, CallsOK, At, Idle
  <1> QED
    BY <1>1, <1>2, <1>3, <1>4 DEF KeyInv

\* Every step keeps what is known of the cached keys and of those that wait.
LEMMA KeyNext == KeyInv /\ [Next]_vars => KeyInv'
  <1> SUFFICES ASSUME KeyInv, [Next]_vars PROVE KeyInv'
    OBVIOUS
  <1> USE DEF KeyInv
  <1>1. TypeOK'
    BY TypeNext
  <1>2. CASE Tick \/ \E k \in Keys : Publish(k) \/ Withdraw(k)
    <2>1. clock' \in {clock, clock + 1} /\ cache' = cache /\ call' = call
      BY <1>2 DEF Tick, Publish, Withdraw, TypeOK
    <2>2. Dates'
      BY <1>2, <1>1 DEF Dates, Tick, Publish, Withdraw, TypeOK, Never, issuer
    <2>3. CacheOK'
      <3>1. cache.expiresAt - Ttl \in Int /\ cache.expiresAt - Ttl <= clock /\ cache.keys \in SUBSET Keys
        BY DEF CacheOK, TypeOK
      <3>2. CacheIsFresh' => CacheIsFresh
        BY <2>1 DEF CacheIsFresh, TypeOK
      <3> QED
        BY <1>2, <2>1, <3>1, <3>2, KeysStand DEF CacheOK, TypeOK
    <2>4. CallsOK'
      <3> SUFFICES ASSUME NEW c \in Calls
                   PROVE  /\ call[c].pc \in {"fetching", "fetched", "judging"} => call[c].asked <= clock'
                          /\ At(c, "fetched") => FetchedFrom(call[c].keys, call[c].asked)'
                          /\ At(c, "judging") => ServeFor(call[c].keys, call[c].asked)'
        BY <2>1 DEF CallsOK, At
      <3>1. CASE call[c].pc \in {"fetching", "fetched", "judging"}
        <4>1. call[c] \in Waiting
          BY <3>1, WaitingRequest DEF TypeOK
        <4>2. call[c].asked \in Int /\ call[c].asked <= clock /\ call[c].keys \in SUBSET Keys
          BY <3>1, <4>1 DEF Waiting, CallsOK
        <4>3. /\ FetchedFrom(call[c].keys, call[c].asked) => FetchedFrom(call[c].keys, call[c].asked)'
              /\ ServeFor(call[c].keys, call[c].asked) => ServeFor(call[c].keys, call[c].asked)'
          BY <1>2, <2>1, <4>2, KeysStand
        <4> QED
          BY <2>1, <4>2, <4>3 DEF CallsOK, At, TypeOK
      <3>2. CASE call[c].pc \notin {"fetching", "fetched", "judging"}
        BY <3>2 DEF At
      <3> QED
        BY <3>1, <3>2
    <2> QED
      BY <1>1, <2>2, <2>3, <2>4
  <1>3. CASE UNCHANGED <<clock, issuer>>
    <2>1. Dates'
      BY <1>3 DEF Dates, issuer, Never
    <2>2. ASSUME UNCHANGED cache PROVE CacheOK'
      BY <1>3, <2>2 DEF CacheOK, CacheIsFresh, FetchedFrom, issuer
    <2>3. ASSUME NEW c \in Calls, call'[c] = call[c]
          PROVE  /\ call'[c].pc \in {"fetching", "fetched", "judging"} => call'[c].asked <= clock'
                 /\ At(c, "fetched")' => FetchedFrom(call[c].keys, call[c].asked)'
                 /\ At(c, "judging")' => ServeFor(call[c].keys, call[c].asked)'
      BY <1>3, <2>3 DEF CallsOK, At, FetchedFrom, ServeFor, issuer
    <2>4. ASSUME UNCHANGED <<cache, call>> PROVE KeyInv'
      BY <1>1, <2>1, <2>2, <2>3, <2>4 DEF CallsOK
    <2>5. ASSUME NEW c \in Calls, UNCHANGED cache, call'[c].pc \in {"idle", "running", "admitted"},
                 \A d \in Calls \ {c} : call'[d] = call[d]
          PROVE  KeyInv'
      <3>1. CallsOK'
        BY <2>3, <2>5 DEF CallsOK, At
      <3> QED
        BY <1>1, <2>1, <2>2, <2>5, <3>1
    <2>6. ASSUME Boot \/ UNCHANGED vars PROVE KeyInv'
      BY <2>4, <2>6 DEF Boot, vars
    <2>7. ASSUME Restart PROVE KeyInv'
      <3>1. CacheOK'
        BY <1>1, <2>7 DEF Restart, CacheOK, CacheIsFresh, Empty, TypeOK
      <3>2. CallsOK'
        BY <2>7 DEF Restart, CallsOK, At, Idle
      <3> QED
        BY <1>1, <2>1, <3>1, <3>2
    <2>8. ASSUME NEW c \in Calls, NEW t \in Tokens, Arrive(c, t) PROVE KeyInv'
      <3>1. ASSUME NEW d \in Calls \ {c} PROVE call'[d] = call[d]
        BY <2>8 DEF Arrive, Await, TypeOK
      <3>2. CASE CacheIsFresh
        <4>1. call'[c] = [pc |-> "judging", token |-> t, asked |-> clock, keys |-> cache.keys]
          BY <2>8, <3>2 DEF Arrive, Await, TypeOK
        <4>2. ServeFor(cache.keys, clock)
          BY <3>2, FetchedServe DEF CacheOK, CacheIsFresh, TypeOK
        <4>3. At(c, "judging")' => ServeFor(call[c].keys, call[c].asked)'
          BY <1>3, <4>1, <4>2 DEF ServeFor, issuer
        <4>4. CallsOK'
          BY <1>1, <1>3, <2>3, <3>1, <4>1, <4>3 DEF CallsOK, At, TypeOK
        <4> QED
          BY <1>1, <2>1, <2>2, <2>8, <4>4 DEF Arrive
      <3>3. CASE ~CacheIsFresh
        <4>1. call'[c] = [pc |-> "fetching", token |-> t, asked |-> clock, keys |-> {}]
          BY <2>8, <3>3 DEF Arrive, Await, TypeOK
        <4>2. CallsOK'
          BY <1>1, <1>3, <2>3, <3>1, <4>1 DEF CallsOK, At, TypeOK
        <4> QED
          BY <1>1, <2>1, <2>2, <2>8, <4>2 DEF Arrive
      <3> QED
        BY <3>2, <3>3
    <2>9. ASSUME NEW c \in Calls, IssuerAnswers(c) PROVE KeyInv'
      <3>1. ASSUME NEW d \in Calls \ {c} PROVE call'[d] = call[d]
        BY <2>9 DEF IssuerAnswers, TypeOK
      <3>2. call[c] \in Waiting
        BY <2>9, WaitingRequest DEF IssuerAnswers, At, TypeOK
      <3>3. call'[c].pc = "fetched" /\ call'[c].keys = Published /\ call'[c].asked = call[c].asked
        BY <2>9, <3>2 DEF IssuerAnswers, TypeOK, Waiting
      <3>4. call[c].asked \in 0..MaxTime /\ call[c].asked <= clock
        BY <2>9, <3>2 DEF Waiting, CallsOK, IssuerAnswers, At
      <3>5. FetchedFrom(Published, call[c].asked)
        BY <3>4 DEF FetchedFrom, Published, Dates, Never, TypeOK
      <3>6. FetchedFrom(call[c].keys, call[c].asked)'
        BY <1>3, <3>3, <3>5 DEF FetchedFrom, issuer
      <3>7. CallsOK'
        BY <1>3, <2>3, <3>1, <3>3, <3>4, <3>6 DEF CallsOK, At
      <3> QED
        BY <1>1, <2>1, <2>2, <2>9, <3>7 DEF IssuerAnswers
    <2>10. ASSUME NEW c \in Calls, KeysArrive(c) PROVE KeyInv'
      <3>1. ASSUME NEW d \in Calls \ {c} PROVE call'[d] = call[d]
        BY <2>10 DEF KeysArrive, Go, TypeOK
      <3>2. call[c] \in Waiting
        BY <2>10, WaitingRequest DEF KeysArrive, At, TypeOK
      <3>3. call'[c].pc = "judging" /\ call'[c].keys = call[c].keys /\ call'[c].asked = call[c].asked
        BY <2>10, <3>2 DEF KeysArrive, Go, TypeOK, Waiting
      <3>4. /\ call[c].asked \in 0..MaxTime /\ call[c].asked <= clock
            /\ call[c].keys \in SUBSET Keys
            /\ FetchedFrom(call[c].keys, call[c].asked)
        BY <2>10, <3>2 DEF Waiting, CallsOK, KeysArrive, At
      <3>5. ServeFor(call[c].keys, call[c].asked)
        BY <3>4, FetchedServe
      <3>6. ServeFor(call[c].keys, call[c].asked)'
        BY <1>3, <3>3, <3>5 DEF ServeFor, issuer
      <3>7. CallsOK'
        BY <1>3, <2>3, <3>1, <3>3, <3>4, <3>6 DEF CallsOK, At
      <3>8. cache' = [expiresAt |-> call[c].asked + Ttl, keys |-> call[c].keys]
        BY <2>10 DEF KeysArrive
      <3>9. cache'.expiresAt - Ttl = call[c].asked /\ cache'.keys = call[c].keys
        BY <3>4, <3>8
      <3>10. FetchedFrom(cache.keys, cache.expiresAt - Ttl)'
        BY <1>3, <3>4, <3>9 DEF FetchedFrom, issuer
      <3>11. CacheOK'
        BY <1>3, <3>4, <3>9, <3>10 DEF CacheOK
      <3> QED
        BY <1>1, <2>1, <3>7, <3>11
    <2>11. ASSUME NEW c \in Calls, FetchFails(c) PROVE KeyInv'
      BY <2>5, <2>11 DEF FetchFails, Answer, Idle, TypeOK
    <2>12. ASSUME NEW c \in Calls, Judge(c) PROVE KeyInv'
      BY <2>5, <2>12 DEF Judge, Reject, Limit, Admit, Answer, Idle, TypeOK
    <2>13. ASSUME NEW c \in Calls, NEW tool \in Tools, Dispatch(c, tool) PROVE KeyInv'
      BY <2>5, <2>13 DEF Dispatch, Answer, Idle, TypeOK
    <2>14. ASSUME NEW c \in Calls, ToolEnds(c) PROVE KeyInv'
      BY <2>5, <2>14 DEF ToolEnds, Answer, Idle, TypeOK
    <2> QED
      BY <2>6, <2>7, <2>8, <2>9, <2>10, <2>11, <2>12, <2>13, <2>14, <1>2 DEF Next
  <1> QED
    BY <1>2, <1>3 DEF Next, vars, Boot, Restart, Arrive, IssuerAnswers, KeysArrive, FetchFails,
                      Judge, Reject, Limit, Admit, Dispatch, ToolEnds, issuer

\* The keys are current, for any number of requests whose fetches overlap.
THEOREM KeyInvariant == Spec => []KeyInv
  <1> QED
    BY KeyInit, KeyNext, PTL DEF Spec

\* A key that has been published for a Ttl is known to every request that is
\* judged.
THEOREM RotationCorrect == Spec => []RotatedKeysAreKnown
  <1>1. KeyInv => RotatedKeysAreKnown
    BY DEF KeyInv, CallsOK, RotatedKeysAreKnown, ServeFor
  <1> QED
    BY <1>1, KeyInvariant, PTL

-----------------------------------------------------------------------------
(* Admission.                                                              *)

\* Only Admit lets a request that is judged get past.
LEMMA OnlyAdmit ==
    ASSUME TypeOK, [Next]_vars, NEW c \in Calls, At(c, "judging"), call'[c].pc = "admitted"
    PROVE  Admit(c)
  <1>1. CASE UNCHANGED vars
    BY <1>1 DEF vars, At
  <1>2. CASE Boot \/ Tick \/ \E k \in Keys : Publish(k) \/ Withdraw(k)
    BY <1>2 DEF Boot, Tick, Publish, Withdraw, At
  <1>3. CASE Restart
    BY <1>3 DEF Restart, Idle
  <1>4. ASSUME NEW d \in Calls, d # c,
               \/ \E t \in Tokens : Arrive(d, t)
               \/ IssuerAnswers(d) \/ KeysArrive(d) \/ FetchFails(d) \/ Judge(d)
               \/ \E tool \in Tools : Dispatch(d, tool)
               \/ ToolEnds(d)
        PROVE  call'[c] = call[c]
    BY <1>4 DEF Arrive, Await, IssuerAnswers, KeysArrive, Go, FetchFails, Answer, Judge, Reject,
                Limit, Admit, Dispatch, ToolEnds, TypeOK
  <1>5. CASE \/ \E t \in Tokens : Arrive(c, t)
             \/ IssuerAnswers(c) \/ KeysArrive(c) \/ FetchFails(c)
             \/ \E tool \in Tools : Dispatch(c, tool)
             \/ ToolEnds(c)
    BY <1>5 DEF Arrive, IssuerAnswers, KeysArrive, FetchFails, Dispatch, ToolEnds, At
  <1>6. CASE Judge(c)
    BY <1>6 DEF Judge, Reject, Limit, Answer, Idle, TypeOK
  <1> QED
    BY <1>1, <1>2, <1>3, <1>4, <1>5, <1>6 DEF Next, At

\* A request that gets past the checks has a valid token under a key that the
\* issuer published less than a Ttl before the request asked for keys.
THEOREM AdmissionCorrect == Spec => AdmittedOnGoodToken
  <1> DEFINE Good ==
        \A c \in Calls : At(c, "judging") /\ call'[c].pc = "admitted" =>
          LET t == call[c].token
          IN  /\ t.sound /\ t.nbf <= clock /\ clock < t.exp
              /\ since[t.kid] <= clock /\ until[t.kid] > call[c].asked - Ttl
  <1>1. KeyInv /\ [Next]_vars => Good
    <2> SUFFICES ASSUME KeyInv, [Next]_vars, NEW c \in Calls,
                        At(c, "judging"), call'[c].pc = "admitted"
                 PROVE  LET t == call[c].token
                        IN  /\ t.sound /\ t.nbf <= clock /\ clock < t.exp
                            /\ since[t.kid] <= clock /\ until[t.kid] > call[c].asked - Ttl
      OBVIOUS
    <2>1. Acceptable(call[c].token, call[c].keys)
      BY OnlyAdmit DEF KeyInv, Admit
    <2>2. ServeFor(call[c].keys, call[c].asked)
      BY DEF KeyInv, CallsOK
    <2> QED
      BY <2>1, <2>2 DEF Acceptable, ServeFor
  <1>2. [][Good]_vars => AdmittedOnGoodToken
    BY PTL DEF AdmittedOnGoodToken
  <1> QED
    BY <1>1, <1>2, KeyInvariant, PTL DEF Spec

-----------------------------------------------------------------------------
(* The rate limit.                                                         *)

\* The bucket of a user counts those of its requests that passed in this minute.
Counted ==
    \A u \in Users : passed[u] = IF bucket[u].minute = minute THEN bucket[u].count ELSE 0

LimitInv == TypeOK /\ Counted

\* Every step keeps bucket and history in agreement.
LEMMA LimitNext == LimitInv /\ [Next]_vars => LimitInv'
  <1> SUFFICES ASSUME LimitInv, [Next]_vars PROVE LimitInv'
    OBVIOUS
  <1> USE DEF LimitInv
  <1>1. TypeOK'
    BY TypeNext
  <1>2. CASE UNCHANGED <<minute, limiter>>
    BY <1>1, <1>2 DEF Counted, limiter, TypeOK
  <1>3. CASE Restart
    <2>1. minute' >= 0 /\ bucket' = [u \in Users |-> NoBucket] /\ passed' = [u \in Users |-> 0]
      BY <1>1, <1>3 DEF Restart, TypeOK
    <2> QED
      BY <1>1, <2>1 DEF Counted, NoBucket
  <1>4. CASE Tick /\ minute' = minute + 1 /\ passed' = [u \in Users |-> 0]
    <2>1. ASSUME NEW u \in Users PROVE bucket'[u].minute # minute'
      BY <1>4 DEF Tick, TypeOK
    <2> QED
      BY <1>1, <1>4, <2>1 DEF Counted
  <1>5. ASSUME NEW c \in Calls, Admit(c) PROVE LimitInv'
    <2> DEFINE u == call[c].token.sub
               n == IF NewMinute(u) THEN 1 ELSE bucket[u].count + 1
    <2>1. u \in Users
      BY <1>5, WaitingRequest DEF Admit, At, Waiting, Users, TypeOK
    <2>2. n \in Nat /\ n = passed[u] + 1
      BY <2>1 DEF Counted, NewMinute, TypeOK
    <2>3. /\ bucket' = [bucket EXCEPT ![u] = [minute |-> minute, count |-> n]]
          /\ passed' = [passed EXCEPT ![u] = passed[u] + 1] /\ minute' = minute
      BY <1>5, <2>1 DEF Admit, TypeOK
    <2> HIDE DEF u, n
    <2>4. Counted'
      BY <2>1, <2>2, <2>3 DEF Counted, TypeOK
    <2> QED
      BY <1>1, <2>4
  <1> QED
    BY <1>2, <1>3, <1>4, <1>5
    DEF Next, vars, Boot, Tick, Publish, Withdraw, Arrive, IssuerAnswers, KeysArrive, FetchFails,
        Judge, Reject, Limit, Dispatch, ToolEnds, limiter

\* A request that is judged is turned away by Reject, by Limit or by a restart.
LEMMA OnlyRejectOrLimit ==
    ASSUME TypeOK, [Next]_vars, NEW c \in Calls, At(c, "judging"), call'[c].pc = "idle"
    PROVE  Restart \/ Reject(c) \/ Limit(c)
  <1>1. CASE UNCHANGED vars
    BY <1>1 DEF vars, At
  <1>2. CASE Boot \/ Tick \/ \E k \in Keys : Publish(k) \/ Withdraw(k)
    BY <1>2 DEF Boot, Tick, Publish, Withdraw, At
  <1>3. ASSUME NEW d \in Calls, d # c,
               \/ \E t \in Tokens : Arrive(d, t)
               \/ IssuerAnswers(d) \/ KeysArrive(d) \/ FetchFails(d) \/ Judge(d)
               \/ \E tool \in Tools : Dispatch(d, tool)
               \/ ToolEnds(d)
        PROVE  call'[c] = call[c]
    BY <1>3 DEF Arrive, Await, IssuerAnswers, KeysArrive, Go, FetchFails, Answer, Judge, Reject,
                Limit, Admit, Dispatch, ToolEnds, TypeOK
  <1>4. CASE \/ \E t \in Tokens : Arrive(c, t)
             \/ IssuerAnswers(c) \/ KeysArrive(c) \/ FetchFails(c)
             \/ \E tool \in Tools : Dispatch(c, tool)
             \/ ToolEnds(c)
    BY <1>4 DEF Arrive, IssuerAnswers, KeysArrive, FetchFails, Dispatch, ToolEnds, At
  <1>5. CASE Admit(c)
    BY <1>5 DEF Admit, TypeOK
  <1> QED
    BY <1>1, <1>2, <1>3, <1>4, <1>5 DEF Next, At, Judge

\* A request is let through while fewer than the limit have passed in its minute,
\* or as the first of it, and turned away only after that.
THEOREM LimitCorrect == Spec => LimitIsExact
  <1> DEFINE Exact ==
        \A c \in Calls : At(c, "judging") =>
          LET n == passed[call[c].token.sub]
          IN  /\ call'[c].pc = "admitted" => n = 0 \/ n < limit
              /\ call'[c].pc = "idle" /\ serving' /\ Acceptable(call[c].token, call[c].keys)
                     => n >= limit
  <1>1. Init => LimitInv
    <2>1. Init => Counted
      BY DEF Init, Counted, NoBucket
    <2> QED
      BY <2>1, TypeInit DEF LimitInv
  <1>2. LimitInv /\ [Next]_vars => Exact
    <2> SUFFICES ASSUME LimitInv, [Next]_vars, NEW c \in Calls, At(c, "judging")
                 PROVE  LET n == passed[call[c].token.sub]
                        IN  /\ call'[c].pc = "admitted" => n = 0 \/ n < limit
                            /\ call'[c].pc = "idle" /\ serving'
                                  /\ Acceptable(call[c].token, call[c].keys) => n >= limit
      OBVIOUS
    <2> DEFINE u == call[c].token.sub
    <2>1. u \in Users
      BY WaitingRequest DEF LimitInv, At, Waiting, Users, TypeOK
    <2>2. passed[u] = IF bucket[u].minute = minute THEN bucket[u].count ELSE 0
      BY <2>1 DEF LimitInv, Counted
    <2>3. limit \in Nat /\ bucket[u].count \in Nat
      BY <2>1 DEF LimitInv, TypeOK
    <2>4. ASSUME call'[c].pc = "admitted" PROVE passed[u] = 0 \/ passed[u] < limit
      <3>1. Allowed(u)
        BY <2>4, OnlyAdmit DEF LimitInv, Admit
      <3> QED
        BY <2>2, <3>1 DEF Allowed, NewMinute
    <2>5. ASSUME call'[c].pc = "idle", serving', Acceptable(call[c].token, call[c].keys)
          PROVE  passed[u] >= limit
      <3>1. ~Allowed(u)
        BY <2>5, OnlyRejectOrLimit DEF LimitInv, Restart, Reject, Limit
      <3> QED
        BY <2>2, <2>3, <3>1 DEF Allowed, NewMinute
    <2> QED
      BY <2>4, <2>5
  <1>3. [][Exact]_vars => LimitIsExact
    BY PTL DEF LimitIsExact
  <1> QED
    BY <1>1, <1>2, <1>3, LimitNext, PTL DEF Spec
=============================================================================
