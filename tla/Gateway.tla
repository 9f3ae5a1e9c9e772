------------------------------ MODULE Gateway ------------------------------
(***************************************************************************)
(* What stands between an HTTP request and a tool: the bearer token and    *)
(* the key set it is verified with (Rs256JwksTokenVerifier), the rate      *)
(* limit of a user (MinuteRateLimiter), the scope of the tool.             *)
(*                                                                         *)
(* Requests run side by side on one event loop.  Before it is judged, a    *)
(* request waits only for the key set, which it fetches when the cached    *)
(* one has expired: any number of requests may fetch at once, and the      *)
(* answers return in any order and after any time.  From the answer to the *)
(* rate limit there is no further wait: Reject, Limit or Admit is one step.*)
(*                                                                         *)
(* A token is its claims; sound says that the checks pass which depend on  *)
(* neither time nor keys (signature, issuer, audience, subject).  Requests *)
(* without a bearer token, or with one that is refused before the key set  *)
(* is asked for (three parts, algorithm, key id), change nothing and are   *)
(* left out, as are the paths that need no token.                          *)
(* The clock does not run backwards, and the minute of the rate limit may  *)
(* or may not change when the clock advances.                              *)
(***************************************************************************)
EXTENDS Integers

CONSTANTS
    Calls,    \* the requests under way at the same time
    Tokens,   \* the access tokens that requests carry
    Keys,     \* the ids of the issuer's signing keys, each published once
    FirstKey, \* the one that is published at the start
    Ttl,      \* cacheTtlMs
    Limits,   \* the rate limits a server may be configured with
    Tools,    \* the tools that requests call
    MaxTime   \* bound: the clock stops here

ASSUME TokensAssumption ==
    \A t \in Tokens :
        t.kid \in Keys /\ t.nbf \in Int /\ t.exp \in Int /\ t.sound \in BOOLEAN
ASSUME FirstKeyAssumption == FirstKey \in Keys
ASSUME TtlAssumption == Ttl \in Nat \ {0}
ASSUME LimitsAssumption == Limits \subseteq Nat
ASSUME MaxTimeAssumption == MaxTime \in Nat

VARIABLES
    clock,    \* Date.now()
    minute,   \* Math.floor(Date.now() / 60000)
    since,    \* since[k]: when the issuer published key k, Never if not yet
    until,    \* until[k]: when it withdrew the key, Never if not yet
    serving,  \* whether the process has started up
    limit,    \* the configured rate limit
    cache,    \* the cached key set and its expiry, Empty if there is none
    bucket,   \* bucket[u]: the minute user u was last counted in, and the count
    call,     \* call[c]: the request c is on, and how far it is
    passed    \* history: passed[u] requests of u were admitted in this minute

vars == <<clock, minute, since, until, serving, limit, cache, bucket, call, passed>>
issuer == <<since, until>>
limiter == <<bucket, passed>>

Users == {t.sub : t \in Tokens}
Never == MaxTime + 1
Published == {k \in Keys : since[k] # Never /\ until[k] = Never}

Empty == [expiresAt |-> 0, keys |-> {}]
NoBucket == [minute |-> -1, count |-> 0]
Idle == [pc |-> "idle"]

\* A request before its verdict and after it: keys are those it is judged by,
\* asked is when it asked for them.
Requests ==
    [pc : {"fetching", "fetched", "judging"}, token : Tokens, asked : 0..MaxTime,
     keys : SUBSET Keys]
      \cup [pc : {"admitted"}, token : Tokens]
      \cup [pc : {"idle", "running"}]

TypeOK ==
    /\ clock \in 0..MaxTime /\ minute \in 0..clock
    /\ since \in [Keys -> 0..Never] /\ until \in [Keys -> 0..Never]
    /\ serving \in BOOLEAN /\ limit \in Limits
    /\ cache \in [expiresAt : Nat, keys : SUBSET Keys]
    /\ bucket \in [Users -> [minute : -1..minute, count : Nat]]
    /\ passed \in [Users -> Nat]
    /\ call \in [Calls -> Requests]

Init ==
    /\ clock = 0 /\ minute = 0
    /\ since = [k \in Keys |-> IF k = FirstKey THEN 0 ELSE Never]
    /\ until = [k \in Keys |-> Never]
    /\ serving = FALSE /\ limit \in Limits
    /\ cache = Empty
    /\ bucket = [u \in Users |-> NoBucket]
    /\ call = [c \in Calls |-> Idle]
    /\ passed = [u \in Users |-> 0]

-----------------------------------------------------------------------------
(* Start of the process: the key set's address is configured, or is taken  *)
(* from a discovery document that names the expected issuer and offers     *)
(* PKCE with S256.  Otherwise the process ends and is started again.       *)

Discoveries == [answered : BOOLEAN, issuer : BOOLEAN, jwksUri : BOOLEAN, s256 : BOOLEAN]

Boot ==
    /\ ~serving
    /\ \E configured \in BOOLEAN, d \in Discoveries :
          configured \/ (d.answered /\ d.issuer /\ d.jwksUri /\ d.s256)
    /\ serving' = TRUE
    /\ UNCHANGED <<clock, minute, issuer, limit, cache, limiter, call>>

\* The process stops, and with it the cache, the buckets and every request.
Restart ==
    /\ serving
    /\ serving' = FALSE
    /\ cache' = Empty
    /\ bucket' = [u \in Users |-> NoBucket]
    /\ passed' = [u \in Users |-> 0]
    /\ call' = [c \in Calls |-> Idle]
    /\ UNCHANGED <<clock, minute, issuer, limit>>

-----------------------------------------------------------------------------
(* The key set.                                                            *)

\* A slip: the keys serve one more instant.
CacheIsFreshToTheEnd == cache.expiresAt >= clock

\* keys: whether the cached key set still serves.
CacheIsFresh == cache.expiresAt > clock

At(c, pc) == call[c].pc = pc

Go(c, pc) == call' = [call EXCEPT ![c].pc = pc]

Answer(c) == call' = [call EXCEPT ![c] = Idle]

Await(c, pc, t, keys) ==
    call' = [call EXCEPT ![c] = [pc |-> pc, token |-> t, asked |-> clock, keys |-> keys]]

\* A request arrives and takes the cached keys, or asks the issuer for its keys.
Arrive(c, t) ==
    /\ serving /\ At(c, "idle")
    /\ \/ CacheIsFresh /\ Await(c, "judging", t, cache.keys)
       \/ ~CacheIsFresh /\ Await(c, "fetching", t, {})
    /\ UNCHANGED <<clock, minute, issuer, serving, limit, cache, limiter>>

\* The issuer answers with the keys it publishes at that moment.
IssuerAnswers(c) ==
    /\ At(c, "fetching")
    /\ call' = [call EXCEPT ![c].pc = "fetched", ![c].keys = Published]
    /\ UNCHANGED <<clock, minute, issuer, serving, limit, cache, limiter>>

\* A slip: the expiry counts from the answer.
KeysArriveForATtl(c) ==
    /\ At(c, "fetched")
    /\ cache' = [expiresAt |-> clock + Ttl, keys |-> call[c].keys]
    /\ Go(c, "judging")
    /\ UNCHANGED <<clock, minute, issuer, serving, limit, limiter>>

\* The answer reaches the server.  It replaces the cached keys, those of a
\* later answer included; their expiry counts from when they were asked for.
KeysArrive(c) ==
    /\ At(c, "fetched")
    /\ cache' = [expiresAt |-> call[c].asked + Ttl, keys |-> call[c].keys]
    /\ Go(c, "judging")
    /\ UNCHANGED <<clock, minute, issuer, serving, limit, limiter>>

\* No answer, an error status or not a key set: the cache is left as it is.
FetchFails(c) ==
    /\ At(c, "fetching") \/ At(c, "fetched")
    /\ Answer(c)
    /\ UNCHANGED <<clock, minute, issuer, serving, limit, cache, limiter>>

-----------------------------------------------------------------------------
(* Verdict and rate limit.                                                 *)

\* The checks of verify after the keys, repeated by authenticateProductionBearer.
Acceptable(t, keys) ==
    t.kid \in keys /\ t.sound /\ clock < t.exp /\ t.nbf <= clock

Reject(c) ==
    /\ At(c, "judging") /\ ~Acceptable(call[c].token, call[c].keys)
    /\ Answer(c)
    /\ UNCHANGED <<clock, minute, issuer, serving, limit, cache, limiter>>

\* MinuteRateLimiter.allow: a minute that has no bucket yet opens one with this
\* request in it, whatever the limit.
NewMinute(u) == bucket[u].minute # minute

\* A slip: the limit is compared with the requests before this one.
AllowedOneMore(u) == NewMinute(u) \/ bucket[u].count <= limit

Allowed(u) == NewMinute(u) \/ bucket[u].count < limit

Limit(c) ==
    /\ At(c, "judging") /\ Acceptable(call[c].token, call[c].keys)
    /\ ~Allowed(call[c].token.sub)
    /\ Answer(c)
    /\ UNCHANGED <<clock, minute, issuer, serving, limit, cache, limiter>>

\* A slip: the count goes to the next minute.
AdmitToNextMinute(c) ==
    LET u == call[c].token.sub
    IN  /\ At(c, "judging") /\ Acceptable(call[c].token, call[c].keys)
        /\ Allowed(u)
        /\ bucket' = [bucket EXCEPT ![u] = [minute |-> minute + 1, count |-> 1]]
        /\ passed' = [passed EXCEPT ![u] = @ + 1]
        /\ call' = [call EXCEPT ![c] = [pc |-> "admitted", token |-> @.token]]
        /\ UNCHANGED <<clock, minute, issuer, serving, limit, cache>>

Admit(c) ==
    LET u == call[c].token.sub
    IN  /\ At(c, "judging") /\ Acceptable(call[c].token, call[c].keys)
        /\ Allowed(u)
        /\ bucket' = [bucket EXCEPT ![u] =
              [minute |-> minute, count |-> IF NewMinute(u) THEN 1 ELSE @.count + 1]]
        /\ passed' = [passed EXCEPT ![u] = @ + 1]
        /\ call' = [call EXCEPT ![c] = [pc |-> "admitted", token |-> @.token]]
        /\ UNCHANGED <<clock, minute, issuer, serving, limit, cache>>

-----------------------------------------------------------------------------
(* The tool.                                                               *)

\* parseScopes and VISUAL4D_TOOL_SCOPES.
Granted(t) == t.scopes \cap {"read", "render", "write", "approve", "identity"}

RequiredScope(tool) ==
    CASE tool = "generation.render_preview" -> "render"
      [] tool \in {"approvals.approve_stage", "approvals.issue_grant"} -> "approve"
      [] tool = "identity.activate_version" -> "identity"
      [] OTHER -> "write"

Dispatch(c, tool) ==
    /\ At(c, "admitted")
    /\ \/ /\ RequiredScope(tool) \in Granted(call[c].token)
          /\ call' = [call EXCEPT ![c] = [pc |-> "running"]]
       \/ /\ RequiredScope(tool) \notin Granted(call[c].token)
          /\ Answer(c)
    /\ UNCHANGED <<clock, minute, issuer, serving, limit, cache, limiter>>

\* execute returns or throws: either way the answer is 200.
ToolEnds(c) ==
    /\ At(c, "running")
    /\ Answer(c)
    /\ UNCHANGED <<clock, minute, issuer, serving, limit, cache, limiter>>

-----------------------------------------------------------------------------
(* Time and the issuer.                                                    *)

Tick ==
    /\ clock < MaxTime
    /\ clock' = clock + 1
    /\ \/ UNCHANGED <<minute, passed>>
       \/ /\ minute' = minute + 1
          /\ passed' = [u \in Users |-> 0]
    /\ UNCHANGED <<issuer, serving, limit, cache, bucket, call>>

\* The issuer may publish a key beside the old one or withdraw one, but never
\* all of them.
Publish(k) ==
    /\ since[k] = Never
    /\ since' = [since EXCEPT ![k] = clock]
    /\ UNCHANGED <<clock, minute, until, serving, limit, cache, limiter, call>>

Withdraw(k) ==
    /\ k \in Published /\ Published # {k}
    /\ until' = [until EXCEPT ![k] = clock]
    /\ UNCHANGED <<clock, minute, since, serving, limit, cache, limiter, call>>

Judge(c) == Reject(c) \/ Limit(c) \/ Admit(c)

Next ==
    \/ Boot \/ Restart \/ Tick
    \/ \E k \in Keys : Publish(k) \/ Withdraw(k)
    \/ \E c \in Calls :
          \/ \E t \in Tokens : Arrive(c, t)
          \/ IssuerAnswers(c) \/ KeysArrive(c) \/ FetchFails(c) \/ Judge(c)
          \/ \E tool \in Tools : Dispatch(c, tool)
          \/ ToolEnds(c)

Spec == Init /\ [][Next]_vars

-----------------------------------------------------------------------------
(* Properties.                                                             *)

\* A request that gets past the server's checks has at that time, however long
\* it waited for the keys, a token that is valid and signed with a key that the
\* issuer still published less than a Ttl before the request asked for keys: a
\* withdrawn key is forgotten after one Ttl, answers out of order included.
AdmittedOnGoodToken ==
    [][\A c \in Calls : At(c, "judging") /\ call'[c].pc = "admitted" =>
          LET t == call[c].token
          IN  /\ t.sound /\ t.nbf <= clock /\ clock < t.exp
              /\ since[t.kid] <= clock /\ until[t.kid] > call[c].asked - Ttl]_vars

\* No request is judged without a key that has been published for a Ttl when
\* it asks for keys: a rotated key is known after one Ttl at the latest, also
\* when an early answer replaces that of a later fetch.
RotatedKeysAreKnown ==
    \A c \in Calls, k \in Keys :
        At(c, "judging") /\ since[k] <= call[c].asked - Ttl /\ until[k] = Never
            => k \in call[c].keys

\* The limit is exact, for all requests of a user together and whatever minute
\* they arrived in: a request is admitted only while fewer than limit of them
\* passed in this minute, or as the first of the minute, and one with a good
\* token is turned away only after limit of them did.
LimitIsExact ==
    [][\A c \in Calls : At(c, "judging") =>
          LET n == passed[call[c].token.sub]
          IN  /\ call'[c].pc = "admitted" => n = 0 \/ n < limit
              /\ call'[c].pc = "idle" /\ serving' /\ Acceptable(call[c].token, call[c].keys)
                     => n >= limit]_vars

=============================================================================
