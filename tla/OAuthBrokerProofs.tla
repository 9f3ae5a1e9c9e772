-------------------------- MODULE OAuthBrokerProofs --------------------------
(***************************************************************************)
(* What OAuthBroker guarantees for any number of flows, states and token   *)
(* requests and any time to live.                                          *)
(***************************************************************************)
EXTENDS OAuthBroker, TLAPS

\* A pending entry tells the flow and the time of the authorize request that
\* drew its state.
Drawn(e) ==
    /\ e.state \in 1..Len(begun)
    /\ begun[e.state].flow = e.flow /\ begun[e.state].createdAt = e.createdAt

\* A state passes through three places, and is in one of them at a time: it is
\* pending, then a code was sent out for it, then it was exchanged.
PlacesInv ==
    /\ \A a \in authorizations :
           Drawn(a) /\ \A c \in 1..Len(codes) : codes[c] # a.state
    /\ \A t \in tokens :
           /\ Drawn(t)
           /\ t.code \in 1..Len(codes) /\ codes[t.code] = t.state
           /\ \A i \in 1..Len(exchanged) : exchanged[i] # t.state
    /\ \A c \in 1..Len(codes) : codes[c] \in 1..Len(begun)
    /\ \A c, d \in 1..Len(codes) : codes[c] = codes[d] => c = d
    /\ \A i \in 1..Len(exchanged) : \E c \in 1..Len(codes) : codes[c] = exchanged[i]

\* What a token request knows.  One that is reading its body found every
\* pending token fresh when it arrived, and no token comes up later under the
\* code it presents.
RequestsInv ==
    /\ \A r \in Requests :
           request[r].at = "reading" =>
               /\ request[r].code \in 1..Len(codes)
               /\ \A t \in tokens :
                      t.code = request[r].code => t.createdAt + Ttl >= request[r].arrived
    /\ \A r \in Requests :
           request[r].at = "forwarding" =>
               /\ request[r].state \in 1..Len(begun)
               /\ begun[request[r].state].flow = request[r].flow
    /\ \A d \in delivered : d.state \in 1..Len(begun)

IInv ==
    /\ TypeOK
    /\ PlacesInv /\ RequestsInv
    /\ ExchangedOnce /\ TokensReachTheirFlow /\ NoExpiredExchange

\* Before the first request nothing is pending.
LEMMA InitIInv == Init => IInv
  BY DEF Init, IInv, TypeOK, PlacesInv, RequestsInv, ExchangedOnce, TokensReachTheirFlow,
     NoExpiredExchange, Idle, TokenRequests

\* Appending to a sequence adds one element at its end and keeps the others.
LEMMA AppendAdds ==
    ASSUME NEW S, NEW s \in Seq(S), NEW e \in S
    PROVE  /\ Append(s, e) \in Seq(S)
           /\ Len(Append(s, e)) = Len(s) + 1 /\ Len(s) \in Nat
           /\ Append(s, e)[Len(s) + 1] = e
           /\ \A i \in 1..Len(s) : Append(s, e)[i] = s[i]
  OBVIOUS

-----------------------------------------------------------------------------

\* Dropping pending entries keeps the invariant.
LEMMA DropKeepsIInv ==
    ASSUME IInv,
           authorizations' \subseteq authorizations, tokens' \subseteq tokens,
           now' \in Nat,
           \/ request' = request
           \/ request' = [r \in Requests |-> Idle],
           UNCHANGED <<begun, codes, exchanged, delivered>>
    PROVE  IInv'
  <1>1. request' \in [Requests -> TokenRequests]
    BY DEF IInv, TypeOK, Idle, TokenRequests
  <1>2. TypeOK'
    BY <1>1 DEF IInv, TypeOK
  <1>3. PlacesInv'
    BY DEF IInv, PlacesInv, Drawn
  <1>4. RequestsInv'
    BY DEF IInv, RequestsInv, Idle
  <1>5. ExchangedOnce' /\ TokensReachTheirFlow' /\ NoExpiredExchange'
    BY DEF IInv, ExchangedOnce, TokensReachTheirFlow, NoExpiredExchange, Idle
  <1> QED
    BY <1>2, <1>3, <1>4, <1>5 DEF IInv

\* authorize draws a state that no code was sent out for.
LEMMA AuthorizeKeepsIInv ==
    ASSUME IInv, NEW f \in Flows, Authorize(f)
    PROVE  IInv'
  <1> DEFINE new == [flow |-> f, createdAt |-> now]
             a == [state |-> Len(begun) + 1, flow |-> f, createdAt |-> now]
  <1>1. /\ begun' \in Seq([flow : Flows, createdAt : Nat])
        /\ Len(begun') = Len(begun) + 1 /\ Len(begun) \in Nat
        /\ begun'[Len(begun) + 1] = new
        /\ \A s \in 1..Len(begun) : begun'[s] = begun[s]
    <2>1. new \in [flow : Flows, createdAt : Nat] /\ begun \in Seq([flow : Flows, createdAt : Nat])
      BY DEF IInv, TypeOK
    <2>2. begun' = Append(begun, new)
      BY DEF Authorize
    <2> HIDE DEF new
    <2> QED
      BY <2>1, <2>2, AppendAdds
  <1>2. /\ authorizations' \subseteq authorizations \cup {a} /\ tokens' \subseteq tokens
        /\ UNCHANGED <<now, codes, request, exchanged, delivered>>
    BY DEF Authorize, Fresh
  <1>3. a \in Authorizations
    BY <1>1, BrokerAssumption DEF Authorizations, States, Authorize, IInv, TypeOK
  <1>4. TypeOK'
    BY <1>1, <1>2, <1>3 DEF IInv, TypeOK
  <1>5. \A c \in 1..Len(codes) : codes[c] # a.state
    BY <1>1 DEF IInv, PlacesInv
  <1>6. /\ a.state \in 1..Len(begun') /\ begun'[a.state].flow = a.flow
        /\ begun'[a.state].createdAt = a.createdAt
    BY <1>1
  <1> HIDE DEF a, new
  <1>7. 1..Len(begun) \subseteq 1..Len(begun')
    BY <1>1
  <1>8. PlacesInv'
    <2>1. ASSUME NEW e, Drawn(e)
          PROVE  Drawn(e)'
      BY <1>1, <1>7, <2>1 DEF Drawn
    <2>0. PICK x \in Authorizations : x = a
      BY <1>3
    <2>2. Drawn(x)' /\ \A c \in 1..Len(codes) : codes[c] # x.state
      BY <1>5, <1>6, <2>0 DEF Drawn
    <2>3. ASSUME NEW b \in authorizations'
          PROVE  Drawn(b)' /\ \A c \in 1..Len(codes') : codes'[c] # b.state
      <3>1. CASE b = x
        BY <1>2, <2>2, <3>1
      <3>2. CASE b \in authorizations
        BY <1>2, <2>1, <3>2 DEF IInv, PlacesInv
      <3> QED
        BY <1>2, <2>0, <3>1, <3>2
    <2>4. ASSUME NEW t \in tokens'
          PROVE  /\ Drawn(t)'
                 /\ t.code \in 1..Len(codes') /\ codes'[t.code] = t.state
                 /\ \A i \in 1..Len(exchanged') : exchanged'[i] # t.state
      BY <1>2, <2>1 DEF IInv, PlacesInv
    <2>5. /\ \A c \in 1..Len(codes') : codes'[c] \in 1..Len(begun')
          /\ \A c, d \in 1..Len(codes') : codes'[c] = codes'[d] => c = d
          /\ \A i \in 1..Len(exchanged') : \E c \in 1..Len(codes') : codes'[c] = exchanged'[i]
      BY <1>2, <1>7 DEF IInv, PlacesInv
    <2> QED
      BY <2>3, <2>4, <2>5 DEF PlacesInv
  <1>9. RequestsInv'
    BY <1>1, <1>2, <1>7 DEF IInv, RequestsInv
  <1>10. ExchangedOnce' /\ TokensReachTheirFlow' /\ NoExpiredExchange'
    BY <1>1, <1>2 DEF IInv, ExchangedOnce, TokensReachTheirFlow, NoExpiredExchange, RequestsInv
  <1> QED
    BY <1>4, <1>8, <1>9, <1>10 DEF IInv

\* callback takes a state out of the pending authorizations and sends out its
\* only code.
LEMMA CallbackKeepsIInv ==
    ASSUME IInv, NEW s \in States, Callback(s)
    PROVE  IInv'
  <1> DEFINE found == {a \in Fresh(authorizations) : a.state = s}
  <1>1. CASE found = {}
    <2>1. /\ authorizations' \subseteq authorizations /\ tokens' \subseteq tokens
          /\ UNCHANGED <<now, begun, codes, request, exchanged, delivered>>
      BY <1>1 DEF Callback, Fresh
    <2>2. now' \in Nat
      BY <2>1 DEF IInv, TypeOK
    <2> QED
      BY <2>1, <2>2, DropKeepsIInv
  <1>2. CASE found # {}
    <2>1. PICK a \in found : TRUE
      BY <1>2
    <2>2. a \in authorizations /\ a.state = s /\ Drawn(a) /\ a \in Authorizations
      BY <2>1 DEF Fresh, IInv, PlacesInv, TypeOK
    <2> DEFINE t == [code |-> Len(codes) + 1, state |-> s, flow |-> a.flow,
                     createdAt |-> a.createdAt]
    <2>3. \A b \in found : b.flow = a.flow /\ b.createdAt = a.createdAt
      BY <2>2 DEF Fresh, IInv, PlacesInv, Drawn
    <2>4. /\ authorizations' \subseteq authorizations
          /\ \A b \in authorizations' : b.state # s
          /\ tokens' \subseteq tokens \cup {t}
          /\ UNCHANGED <<now, begun, request, exchanged, delivered>>
      BY <2>3 DEF Callback, Fresh
    <2>5. codes' = Append(codes, s) /\ Len(codes) < MaxStates
      BY <1>2 DEF Callback
    <2>6. /\ codes' \in Seq(States) /\ Len(codes') = Len(codes) + 1 /\ Len(codes) \in Nat
          /\ codes'[Len(codes) + 1] = s
          /\ \A c \in 1..Len(codes) : codes'[c] = codes[c]
      BY <2>5, AppendAdds DEF IInv, TypeOK
    <2>7. t \in Tokens
      BY <2>2, <2>5, <2>6, BrokerAssumption DEF Tokens, Authorizations, Codes
    <2>8. TypeOK'
      BY <2>4, <2>6, <2>7 DEF IInv, TypeOK
    <2>9. /\ t.code = Len(codes) + 1 /\ t.state = s
          /\ t.flow = a.flow /\ t.createdAt = a.createdAt
      OBVIOUS
    <2> HIDE DEF t, found
    <2>10. \A c \in 1..Len(codes) : codes[c] # s
      BY <2>2 DEF IInv, PlacesInv
    <2>11. \A i \in 1..Len(exchanged) : exchanged[i] # s
      BY <2>10 DEF IInv, PlacesInv
    <2>12. 1..Len(codes') = (1..Len(codes)) \cup {Len(codes) + 1}
      BY <2>6
    <2>13. s \in 1..Len(begun) /\ begun[s].flow = a.flow /\ begun[s].createdAt = a.createdAt
      BY <2>2 DEF Drawn
    <2>14. PlacesInv'
      <3>1. ASSUME NEW b \in authorizations'
            PROVE  Drawn(b)' /\ \A c \in 1..Len(codes') : codes'[c] # b.state
        BY <2>4, <2>6, <2>12 DEF IInv, PlacesInv, Drawn
      <3>2. ASSUME NEW u \in tokens'
            PROVE  /\ Drawn(u)'
                   /\ u.code \in 1..Len(codes') /\ codes'[u.code] = u.state
                   /\ \A i \in 1..Len(exchanged') : exchanged'[i] # u.state
        <4>1. CASE u = t
          BY <4>1, <2>4, <2>6, <2>9, <2>11, <2>12, <2>13 DEF Drawn
        <4>2. CASE u \in tokens
          BY <4>2, <2>4, <2>6, <2>12 DEF IInv, PlacesInv, Drawn
        <4> QED
          BY <4>1, <4>2, <2>4
      <3>3. \A c \in 1..Len(codes') : codes'[c] \in 1..Len(begun')
        BY <2>4, <2>6, <2>12, <2>13 DEF IInv, PlacesInv
      <3>4. \A c, d \in 1..Len(codes') : codes'[c] = codes'[d] => c = d
        BY <2>6, <2>10, <2>12 DEF IInv, PlacesInv
      <3>5. \A i \in 1..Len(exchanged') : \E c \in 1..Len(codes') : codes'[c] = exchanged'[i]
        BY <2>4, <2>6, <2>12 DEF IInv, PlacesInv
      <3> QED
        BY <3>1, <3>2, <3>3, <3>4, <3>5 DEF PlacesInv
    <2>15. RequestsInv'
      <3>1. ASSUME NEW r \in Requests, request[r].at = "reading"
            PROVE  /\ request[r].code \in 1..Len(codes')
                   /\ \A u \in tokens' :
                          u.code = request[r].code => u.createdAt + Ttl >= request[r].arrived
        BY <3>1, <2>4, <2>6, <2>9, <2>12 DEF IInv, RequestsInv
      <3> QED
        BY <3>1, <2>4 DEF IInv, RequestsInv
    <2>16. ExchangedOnce' /\ TokensReachTheirFlow' /\ NoExpiredExchange'
      BY <2>4 DEF IInv, ExchangedOnce, TokensReachTheirFlow, NoExpiredExchange
    <2> QED
      BY <2>8, <2>14, <2>15, <2>16 DEF IInv
  <1> QED
    BY <1>1, <1>2

\* A token request that arrives finds every pending token fresh.
LEMMA TokenArrivesKeepsIInv ==
    ASSUME IInv, NEW r \in Requests, NEW c \in Codes, NEW f \in Flows,
           TokenArrives(r, c, f)
    PROVE  IInv'
  <1>1. /\ request' = [request EXCEPT ![r] =
               [at |-> "reading", code |-> c, flow |-> f, arrived |-> now]]
        /\ authorizations' \subseteq authorizations
        /\ tokens' \subseteq tokens /\ \A t \in tokens' : t.createdAt + Ttl >= now
        /\ UNCHANGED <<now, begun, codes, exchanged, delivered>>
        /\ c \in 1..Len(codes)
    BY DEF TokenArrives, Fresh
  <1>2. TypeOK'
    <2>1. [at |-> "reading", code |-> c, flow |-> f, arrived |-> now] \in TokenRequests
      BY DEF TokenRequests, IInv, TypeOK
    <2> QED
      BY <1>1, <2>1 DEF IInv, TypeOK
  <1>3. /\ request'[r] = [at |-> "reading", code |-> c, flow |-> f, arrived |-> now]
        /\ \A q \in Requests \ {r} : request'[q] = request[q]
    BY <1>1 DEF IInv, TypeOK
  <1>4. PlacesInv'
    BY <1>1 DEF IInv, PlacesInv, Drawn
  <1>5. RequestsInv'
    BY <1>1, <1>3 DEF IInv, RequestsInv
  <1>6. ExchangedOnce' /\ TokensReachTheirFlow' /\ NoExpiredExchange'
    BY <1>1, <1>3 DEF IInv, ExchangedOnce, TokensReachTheirFlow, NoExpiredExchange
  <1> QED
    BY <1>2, <1>4, <1>5, <1>6 DEF IInv

\* token spends the code of a state that was not exchanged before; another
\* pending token is of another state, as every state has one code.
LEMMA TokenReadKeepsIInv ==
    ASSUME IInv, NEW r \in Requests, TokenRead(r)
    PROVE  IInv'
  <1>1. CASE request' = [request EXCEPT ![r] = Idle] /\ UNCHANGED <<tokens, exchanged>>
    <2>1. UNCHANGED <<now, begun, authorizations, codes, tokens, exchanged, delivered>>
      BY <1>1 DEF TokenRead
    <2>2. request'[r] = Idle /\ \A q \in Requests \ {r} : request'[q] = request[q]
      BY <1>1 DEF IInv, TypeOK
    <2>3. TypeOK'
      BY <1>1, <2>1 DEF IInv, TypeOK, Idle, TokenRequests
    <2>4. PlacesInv' /\ ExchangedOnce' /\ TokensReachTheirFlow'
      BY <2>1 DEF IInv, PlacesInv, Drawn, ExchangedOnce, TokensReachTheirFlow
    <2>5. RequestsInv' /\ NoExpiredExchange'
      BY <2>1, <2>2 DEF IInv, RequestsInv, NoExpiredExchange, Idle
    <2> QED
      BY <2>3, <2>4, <2>5 DEF IInv
  <1>2. ASSUME NEW t \in tokens,
               t.code = request[r].code, t.flow = request[r].flow,
               tokens' = tokens \ {t},
               request' = [request EXCEPT ![r] =
                   [at |-> "forwarding", flow |-> request[r].flow,
                    arrived |-> request[r].arrived, state |-> t.state]],
               exchanged' = Append(exchanged, t.state)
        PROVE  IInv'
    <2> DEFINE new == [at |-> "forwarding", flow |-> request[r].flow,
                       arrived |-> request[r].arrived, state |-> t.state]
    <2>1. UNCHANGED <<now, begun, authorizations, codes, delivered>> /\ request[r].at = "reading"
      BY DEF TokenRead
    <2>2. t \in Tokens /\ t.state \in States
      BY DEF IInv, TypeOK, Tokens
    <2>3. request[r].flow \in Flows /\ request[r].arrived \in Nat
      BY <2>1 DEF IInv, TypeOK, TokenRequests
    <2>4. new \in TokenRequests
      BY <2>2, <2>3 DEF TokenRequests
    <2>5. /\ request'[r].at = "forwarding" /\ request'[r].flow = request[r].flow
          /\ request'[r].arrived = request[r].arrived /\ request'[r].state = t.state
          /\ \A q \in Requests \ {r} : request'[q] = request[q]
          /\ request' \in [Requests -> TokenRequests]
      BY <1>2, <2>4 DEF IInv, TypeOK
    <2>6. /\ exchanged' \in Seq(States)
          /\ Len(exchanged') = Len(exchanged) + 1 /\ Len(exchanged) \in Nat
          /\ exchanged'[Len(exchanged) + 1] = t.state
          /\ \A i \in 1..Len(exchanged) : exchanged'[i] = exchanged[i]
      BY <1>2, <2>2, AppendAdds DEF IInv, TypeOK
    <2>7. 1..Len(exchanged') = (1..Len(exchanged)) \cup {Len(exchanged) + 1}
      BY <2>6
    <2>8. TypeOK'
      BY <1>2, <2>1, <2>5, <2>6 DEF IInv, TypeOK
    <2>9. /\ Drawn(t) /\ t.code \in 1..Len(codes) /\ codes[t.code] = t.state
          /\ \A i \in 1..Len(exchanged) : exchanged[i] # t.state
      BY DEF IInv, PlacesInv
    <2>10. \A u \in tokens' : u.state # t.state
      <3> SUFFICES ASSUME NEW u \in tokens, u # t PROVE u.state # t.state
        BY <1>2
      <3>1. SUFFICES ASSUME u.state = t.state PROVE FALSE
        OBVIOUS
      <3>2. u.code = t.code
        BY <3>1, <2>9 DEF IInv, PlacesInv
      <3>3. u.flow = t.flow /\ u.createdAt = t.createdAt
        BY <3>1, <2>9 DEF IInv, PlacesInv, Drawn
      <3>4. u \in Tokens /\ t \in Tokens
        BY DEF IInv, TypeOK
      <3> QED
        BY <3>1, <3>2, <3>3, <3>4 DEF Tokens
    <2>11. ExchangedOnce'
      BY <2>6, <2>7, <2>9 DEF IInv, ExchangedOnce
    <2>12. PlacesInv'
      <3>1. ASSUME NEW u \in tokens'
            PROVE  /\ Drawn(u)'
                   /\ u.code \in 1..Len(codes') /\ codes'[u.code] = u.state
                   /\ \A i \in 1..Len(exchanged') : exchanged'[i] # u.state
        BY <1>2, <2>1, <2>6, <2>7, <2>10 DEF IInv, PlacesInv, Drawn
      <3>2. \A i \in 1..Len(exchanged') : \E c \in 1..Len(codes') : codes'[c] = exchanged'[i]
        BY <2>1, <2>6, <2>7, <2>9 DEF IInv, PlacesInv
      <3> QED
        BY <3>1, <3>2, <2>1 DEF IInv, PlacesInv, Drawn
    <2>13. RequestsInv'
      <3>1. /\ t.state \in 1..Len(begun)
            /\ begun[t.state].flow = request[r].flow
        BY <1>2, <2>9 DEF Drawn
      <3> QED
        BY <1>2, <2>1, <2>5, <3>1 DEF IInv, RequestsInv
    <2>14. NoExpiredExchange'
      <3>1. begun[t.state].createdAt + Ttl >= request[r].arrived
        BY <1>2, <2>1, <2>9 DEF IInv, RequestsInv, Drawn
      <3> QED
        BY <2>1, <2>5, <3>1 DEF IInv, NoExpiredExchange
    <2>15. TokensReachTheirFlow'
      BY <2>1 DEF IInv, TokensReachTheirFlow
    <2> QED
      BY <2>8, <2>11, <2>12, <2>13, <2>14, <2>15 DEF IInv
  <1> QED
    BY <1>1, <1>2 DEF TokenRead

\* The upstream answer goes to the request that presented the flow's verifier.
LEMMA UpstreamKeepsIInv ==
    ASSUME IInv, NEW r \in Requests, UpstreamGrants(r) \/ UpstreamFails(r)
    PROVE  IInv'
  <1> DEFINE d == [flow |-> request[r].flow, state |-> request[r].state]
  <1>1. /\ UNCHANGED <<now, begun, authorizations, codes, tokens, exchanged>>
        /\ request' = [request EXCEPT ![r] = Idle] /\ request[r].at = "forwarding"
        /\ delivered' \subseteq delivered \cup {d}
    BY DEF UpstreamGrants, UpstreamFails
  <1>2. d \in [flow : Flows, state : States]
    BY <1>1 DEF IInv, TypeOK, TokenRequests
  <1>3. /\ d.state \in 1..Len(begun) /\ begun[d.state].flow = d.flow
    BY <1>1 DEF IInv, RequestsInv
  <1>4. request'[r] = Idle /\ \A q \in Requests \ {r} : request'[q] = request[q]
    BY <1>1 DEF IInv, TypeOK
  <1> HIDE DEF d
  <1>5. TypeOK'
    BY <1>1, <1>2 DEF IInv, TypeOK, Idle, TokenRequests
  <1>6. PlacesInv' /\ ExchangedOnce'
    BY <1>1 DEF IInv, PlacesInv, Drawn, ExchangedOnce
  <1>7. RequestsInv' /\ NoExpiredExchange'
    BY <1>1, <1>3, <1>4 DEF IInv, RequestsInv, NoExpiredExchange, Idle
  <1>8. TokensReachTheirFlow'
    BY <1>1, <1>3 DEF IInv, TokensReachTheirFlow
  <1> QED
    BY <1>5, <1>6, <1>7, <1>8 DEF IInv

\* Every step keeps the invariant.
LEMMA NextKeepsIInv == IInv /\ [Next]_vars => IInv'
  <1> SUFFICES ASSUME IInv, [Next]_vars PROVE IInv'
    OBVIOUS
  <1>1. CASE CleanUp \/ Tick \/ Restart \/ \E s \in States : Refused(s)
    <2>1. /\ authorizations' \subseteq authorizations /\ tokens' \subseteq tokens
          /\ now' \in Nat
          /\ request' = request \/ request' = [r \in Requests |-> Idle]
          /\ UNCHANGED <<begun, codes, exchanged, delivered>>
      BY <1>1 DEF CleanUp, Tick, Restart, Refused, Fresh, IInv, TypeOK
    <2> QED
      BY <2>1, DropKeepsIInv
  <1>2. ASSUME NEW f \in Flows, Authorize(f) PROVE IInv'
    BY <1>2, AuthorizeKeepsIInv
  <1>3. ASSUME NEW s \in States, Callback(s) PROVE IInv'
    BY <1>3, CallbackKeepsIInv
  <1>4. ASSUME NEW r \in Requests, NEW c \in Codes, NEW f \in Flows, TokenArrives(r, c, f)
        PROVE  IInv'
    BY <1>4, TokenArrivesKeepsIInv
  <1>5. ASSUME NEW r \in Requests, TokenRead(r) PROVE IInv'
    BY <1>5, TokenReadKeepsIInv
  <1>6. ASSUME NEW r \in Requests, UpstreamGrants(r) \/ UpstreamFails(r) PROVE IInv'
    BY <1>6, UpstreamKeepsIInv
  <1>7. CASE UNCHANGED vars
    <2>1. /\ authorizations' \subseteq authorizations /\ tokens' \subseteq tokens
          /\ now' \in Nat /\ request' = request
          /\ UNCHANGED <<begun, codes, exchanged, delivered>>
      BY <1>7 DEF vars, IInv, TypeOK
    <2> QED
      BY <2>1, DropKeepsIInv
  <1> QED
    BY <1>1, <1>2, <1>3, <1>4, <1>5, <1>6, <1>7 DEF Next

\* The invariant holds in every reachable state.
LEMMA InvariantHolds == Spec => []IInv
  BY InitIInv, NextKeepsIInv, PTL DEF Spec

-----------------------------------------------------------------------------

\* What is pending, sent out and delivered keeps its type.
THEOREM TypeCorrect == Spec => []TypeOK
  <1>1. IInv => TypeOK
    BY DEF IInv
  <1> QED
    BY <1>1, InvariantHolds, PTL

\* No consent is redeemed twice, whatever callbacks are repeated and however
\* many token requests present the same code.
THEOREM ConsentIsRedeemedOnce == Spec => []ExchangedOnce
  <1>1. IInv => ExchangedOnce
    BY DEF IInv
  <1> QED
    BY <1>1, InvariantHolds, PTL

\* Tokens reach the flow the user consented to and no other.
THEOREM TokensGoHome == Spec => []TokensReachTheirFlow
  <1>1. IInv => TokensReachTheirFlow
    BY DEF IInv
  <1> QED
    BY <1>1, InvariantHolds, PTL

\* A token request is only served from a transaction that was alive when it
\* arrived, for every time to live.
THEOREM ExchangesAreFresh == Spec => []NoExpiredExchange
  <1>1. IInv => NoExpiredExchange
    BY DEF IInv
  <1> QED
    BY <1>1, InvariantHolds, PTL

=============================================================================
