----------------------------- MODULE OAuthBroker -----------------------------
(***************************************************************************)
(* OAuthBroker stands between a client and the upstream identity provider: *)
(* /oauth/authorize sends the browser upstream under a fresh state and     *)
(* PKCE pair, /oauth/callback turns the upstream code into a downstream    *)
(* code, and /oauth/token exchanges that code once.  The two maps of       *)
(* pending transactions live in the memory of the process.  The handlers   *)
(* run on one event loop: authorize and callback without a pause, token    *)
(* with one while it reads the body and one while it waits for the         *)
(* upstream answer, and every request first drops what has expired.        *)
(*                                                                         *)
(* Requests that fail a check of their parameters before the maps are      *)
(* looked at change nothing and are left out, as are /oauth/register and   *)
(* the refresh of a token, which only pass a request on.                   *)
(***************************************************************************)
EXTENDS Naturals, Sequences

CONSTANTS
    Flows,      \* authorizations that clients start: the client, its redirect
                \* URI, state, code challenge, scopes and resource
    Requests,   \* concurrent requests to /oauth/token
    Ttl,        \* transactionTtlMs
    MaxStates,  \* bound: upstream states and codes drawn by randomBytes
    MaxNow      \* bound: the clock

ASSUME BrokerAssumption == Ttl \in Nat /\ MaxStates \in Nat /\ MaxNow \in Nat

VARIABLES
    now,            \* Date.now()
    begun,          \* the redirects sent upstream: state s is for flow begun[s].flow
    authorizations, \* pendingAuthorizations
    codes,          \* the downstream codes sent out: code c is for state codes[c]
    tokens,         \* pendingTokens
    request,        \* request[r]: where the token request r is
    exchanged,      \* the upstream states sent to the upstream token endpoint
    delivered       \* the answers: the flow a client asked for, the state redeemed

vars == <<now, begun, authorizations, codes, tokens, request, exchanged, delivered>>

States == 1..MaxStates
Codes == 1..MaxStates

\* An entry of pendingAuthorizations under its state, and one of pendingTokens
\* under its code; both carry the time of the authorize request.
Authorizations == [state : States, flow : Flows, createdAt : Nat]
Tokens == [code : Codes, state : States, flow : Flows, createdAt : Nat]

\* A token request presents a code and, with its redirect URI and code
\* verifier, claims to be of a flow; state is what it was given for the code.
TokenRequests ==
    [at : {"idle"}]
    \cup [at : {"reading"}, code : Codes, flow : Flows, arrived : Nat]
    \cup [at : {"forwarding"}, flow : Flows, arrived : Nat, state : States]

Idle == [at |-> "idle"]

TypeOK ==
    /\ now \in Nat
    /\ begun \in Seq([flow : Flows, createdAt : Nat])
    /\ authorizations \subseteq Authorizations
    /\ codes \in Seq(States)
    /\ tokens \subseteq Tokens
    /\ request \in [Requests -> TokenRequests]
    /\ exchanged \in Seq(States)
    /\ delivered \subseteq [flow : Flows, state : States]

-----------------------------------------------------------------------------

\* cleanup, which handle calls first whatever the path.
Fresh(pending) == {e \in pending : e.createdAt + Ttl >= now}

\* Any other request that reaches handle.
CleanUp ==
    /\ authorizations' = Fresh(authorizations)
    /\ tokens' = Fresh(tokens)
    /\ UNCHANGED <<now, begun, codes, request, exchanged, delivered>>

\* authorize: a new state for every request, also for one that is repeated.
Authorize(f) ==
    /\ Len(begun) < MaxStates
    /\ begun' = Append(begun, [flow |-> f, createdAt |-> now])
    /\ authorizations' = Fresh(authorizations)
           \cup {[state |-> Len(begun) + 1, flow |-> f, createdAt |-> now]}
    /\ tokens' = Fresh(tokens)
    /\ UNCHANGED <<now, codes, request, exchanged, delivered>>

\* Two slips: the pending token does not keep the time of the authorize
\* request, or its time starts again with the callback.
CallbackUndated(s) ==
    LET found == {a \in Fresh(authorizations) : a.state = s}
    IN  /\ s \in 1..Len(begun)
        /\ found = {} \/ Len(codes) < MaxStates
        /\ authorizations' = Fresh(authorizations) \ found
        /\ tokens' = Fresh(tokens) \cup
               {[code |-> Len(codes) + 1, state |-> s, flow |-> a.flow] : a \in found}
        /\ codes' = IF found = {} THEN codes ELSE Append(codes, s)
        /\ UNCHANGED <<now, begun, request, exchanged, delivered>>

CallbackRestamped(s) ==
    LET found == {a \in Fresh(authorizations) : a.state = s}
    IN  /\ s \in 1..Len(begun)
        /\ found = {} \/ Len(codes) < MaxStates
        /\ authorizations' = Fresh(authorizations) \ found
        /\ tokens' = Fresh(tokens) \cup
               {[code |-> Len(codes) + 1, state |-> s, flow |-> a.flow,
                 createdAt |-> now] : a \in found}
        /\ codes' = IF found = {} THEN codes ELSE Append(codes, s)
        /\ UNCHANGED <<now, begun, request, exchanged, delivered>>

\* callback with a code, which the browser may send again and again: the
\* pending authorization becomes a pending token under a new code; without one
\* it is OAUTH_TRANSACTION_NOT_FOUND_OR_EXPIRED.
Callback(s) ==
    LET found == {a \in Fresh(authorizations) : a.state = s}
    IN  /\ s \in 1..Len(begun)
        /\ found = {} \/ Len(codes) < MaxStates
        /\ authorizations' = Fresh(authorizations) \ found
        /\ tokens' = Fresh(tokens) \cup
               {[code |-> Len(codes) + 1, state |-> s, flow |-> a.flow,
                 createdAt |-> a.createdAt] : a \in found}
        /\ codes' = IF found = {} THEN codes ELSE Append(codes, s)
        /\ UNCHANGED <<now, begun, request, exchanged, delivered>>

\* callback with an upstream error, or with neither error nor code: the
\* transaction is over.
Refused(s) ==
    /\ s \in 1..Len(begun)
    /\ authorizations' = {a \in Fresh(authorizations) : a.state # s}
    /\ tokens' = Fresh(tokens)
    /\ UNCHANGED <<now, begun, codes, request, exchanged, delivered>>

\* A request to /oauth/token arrives; reading its body takes a while.
TokenArrives(r, c, f) ==
    /\ request[r] = Idle
    /\ c \in 1..Len(codes)
    /\ request' = [request EXCEPT ![r] =
           [at |-> "reading", code |-> c, flow |-> f, arrived |-> now]]
    /\ authorizations' = Fresh(authorizations)
    /\ tokens' = Fresh(tokens)
    /\ UNCHANGED <<now, begun, codes, exchanged, delivered>>

\* Two slips: the code is not taken out of the map, and the parameters of the
\* request are not compared with those of the transaction.
TokenReadKeepingCode(r) ==
    /\ request[r].at = "reading"
    /\ LET found == {t \in tokens : t.code = request[r].code /\ t.flow = request[r].flow}
       IN  IF found = {}
           THEN /\ request' = [request EXCEPT ![r] = Idle]
                /\ UNCHANGED exchanged
           ELSE \E t \in found :
                /\ request' = [request EXCEPT ![r] =
                       [at |-> "forwarding", flow |-> request[r].flow,
                        arrived |-> request[r].arrived, state |-> t.state]]
                /\ exchanged' = Append(exchanged, t.state)
    /\ UNCHANGED <<now, begun, authorizations, codes, tokens, delivered>>

TokenReadForAnyFlow(r) ==
    /\ request[r].at = "reading"
    /\ LET found == {t \in tokens : t.code = request[r].code}
       IN  IF found = {}
           THEN /\ request' = [request EXCEPT ![r] = Idle]
                /\ UNCHANGED <<tokens, exchanged>>
           ELSE \E t \in found :
                /\ tokens' = tokens \ {t}
                /\ request' = [request EXCEPT ![r] =
                       [at |-> "forwarding", flow |-> request[r].flow,
                        arrived |-> request[r].arrived, state |-> t.state]]
                /\ exchanged' = Append(exchanged, t.state)
    /\ UNCHANGED <<now, begun, authorizations, codes, delivered>>

\* The body is there: the code must still be pending, and the request be of
\* the flow the code was issued for.  The expiry is not looked at again.  Then
\* the code is spent, before the upstream token endpoint is asked.
TokenRead(r) ==
    /\ request[r].at = "reading"
    /\ LET found == {t \in tokens : t.code = request[r].code /\ t.flow = request[r].flow}
       IN  IF found = {}
           THEN /\ request' = [request EXCEPT ![r] = Idle]
                /\ UNCHANGED <<tokens, exchanged>>
           ELSE \E t \in found :
                /\ tokens' = tokens \ {t}
                /\ request' = [request EXCEPT ![r] =
                       [at |-> "forwarding", flow |-> request[r].flow,
                        arrived |-> request[r].arrived, state |-> t.state]]
                /\ exchanged' = Append(exchanged, t.state)
    /\ UNCHANGED <<now, begun, authorizations, codes, delivered>>

\* The upstream endpoint answers with tokens, which are passed on ...
UpstreamGrants(r) ==
    /\ request[r].at = "forwarding"
    /\ delivered' = delivered \cup
           {[flow |-> request[r].flow, state |-> request[r].state]}
    /\ request' = [request EXCEPT ![r] = Idle]
    /\ UNCHANGED <<now, begun, authorizations, codes, tokens, exchanged>>

\* ... or with an error, or not at all, and the code is lost.
UpstreamFails(r) ==
    /\ request[r].at = "forwarding"
    /\ request' = [request EXCEPT ![r] = Idle]
    /\ UNCHANGED <<now, begun, authorizations, codes, tokens, exchanged, delivered>>

Tick ==
    /\ now < MaxNow
    /\ now' = now + 1
    /\ UNCHANGED <<begun, authorizations, codes, tokens, request, exchanged, delivered>>

\* The process stops and starts again: both maps and all requests are gone.
Restart ==
    /\ authorizations' = {}
    /\ tokens' = {}
    /\ request' = [r \in Requests |-> Idle]
    /\ UNCHANGED <<now, begun, codes, exchanged, delivered>>

-----------------------------------------------------------------------------

Init ==
    /\ now = 0
    /\ begun = <<>>
    /\ authorizations = {}
    /\ codes = <<>>
    /\ tokens = {}
    /\ request = [r \in Requests |-> Idle]
    /\ exchanged = <<>>
    /\ delivered = {}

Next ==
    \/ CleanUp \/ Tick \/ Restart
    \/ \E f \in Flows : Authorize(f)
    \/ \E s \in States : Callback(s) \/ Refused(s)
    \/ \E r \in Requests, c \in Codes, f \in Flows : TokenArrives(r, c, f)
    \/ \E r \in Requests : TokenRead(r) \/ UpstreamGrants(r) \/ UpstreamFails(r)

Spec == Init /\ [][Next]_vars

-----------------------------------------------------------------------------

\* A consent of the user upstream is redeemed at most once, through whatever
\* repeated callbacks and concurrent token requests: no state is sent to the
\* upstream token endpoint twice.
ExchangedOnce ==
    \A i, j \in 1..Len(exchanged) : exchanged[i] = exchanged[j] => i = j

\* Tokens only reach the client that began the flow the user consented to: the
\* flow whose code verifier, redirect URI and client id the request presented
\* is the one whose authorize request sent the browser upstream.
TokensReachTheirFlow ==
    \A d \in delivered : begun[d.state].flow = d.flow

\* No exchange is for a transaction that had expired when the token request
\* arrived, its time counted from the authorize request.
NoExpiredExchange ==
    \A r \in Requests :
        request[r].at = "forwarding" =>
            begun[request[r].state].createdAt + Ttl >= request[r].arrived

=============================================================================
