------------------------ MODULE GraphTransportProofs ------------------------
(***************************************************************************)
(* Theorems about TokenCache and GraphTransport for any callers, tenants   *)
(* and secrets, any margin below the lifetime of a token, any page cap and *)
(* any number of retries.                                                  *)
(***************************************************************************)
EXTENDS GraphTransport, TLAPS

-----------------------------------------------------------------------------
(* Types of the token cache.                                               *)

LEMMA OpenType ==
  ASSUME TokenTypeOK, NEW c \in Callers, NEW t \in Tenants, NEW cached \in BOOLEAN,
         Open(c, t, cached)
  PROVE  TokenTypeOK' /\ session'[c] # None /\ pc'[c] = "open"
<1>1. [tenant |-> t, secret |-> stored, cached |-> cached] \in Session
  BY DEF TokenTypeOK, Open, Session
<1>2. QED
  BY <1>1, NoneAssumption DEF TokenTypeOK, Open, caches

LEMMA ShutType ==
  ASSUME TokenTypeOK, NEW c \in Callers, Shut(c)
  PROVE  TokenTypeOK'
BY DEF TokenTypeOK, Shut, caches

LEMMA HitType ==
  ASSUME TokenTypeOK, NEW c \in Callers, Hit(c)
  PROVE  TokenTypeOK' /\ token'[c] \in Token /\ token'[c] > Margin
<1>1. session[c] \in Session /\ session[c].tenant \in Tenants
  BY DEF TokenTypeOK, Hit, Session
<1>2. tokenCache[session[c].tenant] \in Token /\ tokenCache[session[c].tenant] > Margin
  BY <1>1 DEF TokenTypeOK, Hit, Reuses, IsFresh
<1>3. QED
  BY <1>2 DEF TokenTypeOK, Hit, caches

LEMMA MissType ==
  ASSUME TokenTypeOK, NEW c \in Callers, Miss(c)
  PROVE  TokenTypeOK'
<1> DEFINE t == session[c].tenant
           new == [secret |-> session[c].secret, state |-> "discovering"]
<1>1. session[c] \in Session /\ t \in Tenants /\ new \in Client
  BY DEF TokenTypeOK, Miss, Session, Client
<1>2. issuerClients' \in [Tenants -> Client \cup {None}]
  BY <1>1 DEF TokenTypeOK, Miss
<1>3. client' \in [Callers -> Secrets \cup {None}]
  BY <1>1 DEF TokenTypeOK, Miss, Client
<1>4. /\ pc' \in [Callers -> {"idle", "open", "discovery", "grant"}]
      /\ \A d \in Callers : (pc'[d] = "idle") <=> (pc[d] = "idle")
  BY DEF TokenTypeOK, Miss
<1>5. QED
  BY <1>2, <1>3, <1>4 DEF TokenTypeOK, Miss

LEMMA DiscoveryType ==
  ASSUME TokenTypeOK, NEW t \in Tenants, DiscoverySucceeds(t) \/ DiscoveryFails(t)
  PROVE  TokenTypeOK'
<1>1. issuerClients[t] \in Client
  BY DEF TokenTypeOK, DiscoverySucceeds, DiscoveryFails, IsDiscovering
<1>2. issuerClients' \in [Tenants -> Client \cup {None}]
  BY <1>1 DEF TokenTypeOK, DiscoverySucceeds, DiscoveryFails, Client
<1>3. client' \in [Callers -> Secrets \cup {None}]
  BY <1>1 DEF TokenTypeOK, DiscoverySucceeds, DiscoveryFails, Client
<1>4. /\ pc' \in [Callers -> {"idle", "open", "discovery", "grant"}]
      /\ \A d \in Callers : (pc'[d] = "idle") <=> (pc[d] = "idle")
  BY DEF TokenTypeOK, DiscoverySucceeds, DiscoveryFails, Waiting
<1>5. QED
  BY <1>2, <1>3, <1>4 DEF TokenTypeOK, DiscoverySucceeds, DiscoveryFails

LEMMA GrantType ==
  ASSUME TokenTypeOK, NEW c \in Callers, GrantSucceeds(c) \/ GrantFails(c)
  PROVE  TokenTypeOK'
<1>1. session[c] \in Session /\ session[c].tenant \in Tenants
  BY DEF TokenTypeOK, GrantSucceeds, GrantFails, Session
<1>2. Lifetime \in Token /\ 0 \in Token
  BY TokenAssumption DEF Token
<1>3. tokenCache' \in [Tenants -> Token \cup {None}] /\ token' \in [Callers -> Token \cup {None}]
  BY <1>1, <1>2 DEF TokenTypeOK, GrantSucceeds, GrantFails, caches
<1>4. QED
  BY <1>3 DEF TokenTypeOK, GrantSucceeds, GrantFails, caches

LEMMA OlderType ==
  ASSUME NEW tok \in Token \cup {None}
  PROVE  /\ Older(tok) \in Token \cup {None}
         /\ tok \in Token => Older(tok) \in Token
         /\ tok \in Token /\ tok > 0 => Older(tok) = tok - 1
BY TokenAssumption DEF Older, Token

LEMMA AgeType ==
  ASSUME TokenTypeOK, Age
  PROVE  TokenTypeOK'
BY OlderType DEF TokenTypeOK, Age

LEMMA OperatorType ==
  ASSUME TokenTypeOK, (\E s \in Secrets : SaveSecret(s)) \/ DeleteSecret
  PROVE  TokenTypeOK'
BY DEF TokenTypeOK, SaveSecret, DeleteSecret, caches

-----------------------------------------------------------------------------
(* The inductive invariant: what is known of a call that is under way, of  *)
(* a token that has been sent, and of a call that has ended.               *)

UnderWay(c) ==
  stage[c] # "none" =>
    /\ pc[c] # "idle"
    /\ session[c].cached
    /\ call[c].pageCount \in 1..maxPages
    /\ call[c].url = "graph"
    /\ ~call[c].warned
    /\ outcome[c] = "none"

\* What the token has lost since its return is what the call has spent, at least
\* until the margin is spent.
Sent(c) ==
  Sending(c) =>
    /\ pc[c] = "open"
    /\ token[c] \in Token
    /\ call[c].elapsed <= Margin => token[c] + call[c].elapsed > Margin
    /\ call[c].attempt <= maxRetries

Ended(c) ==
  /\ outcome[c] = "list" => (call[c].warned <=> call[c].url # "")
  /\ outcome[c] = "exhausted" => call[c].attempt = maxRetries + 1

CallsTypeOK ==
  /\ stage \in [Callers -> {"none", "token", "fetch", "delay"}]
  /\ call \in [Callers -> Call]
  /\ outcome \in [Callers -> {"none", "list", "object", "fatal", "refused", "exhausted", "no token"}]

CallOK(c) == UnderWay(c) /\ Sent(c) /\ Ended(c)

IInv ==
  /\ TokenTypeOK
  /\ CallsTypeOK
  /\ AwaitedDiscoveryIsUnderWay
  /\ \A c \in Callers : CallOK(c)

LEMMA InvInit == Init => IInv
<1> SUFFICES ASSUME Init PROVE IInv
  OBVIOUS
<1>1. TokenTypeOK /\ AwaitedDiscoveryIsUnderWay
  BY DEF Init, TokenInit, TokenTypeOK, AwaitedDiscoveryIsUnderWay
<1>2. NoCall \in Call
  BY DEF NoCall, Call
<1>3. CallsTypeOK
  BY <1>2 DEF Init, CallsTypeOK
<1>4. \A c \in Callers : CallOK(c)
  BY DEF Init, CallOK, UnderWay, Sent, Ended, Sending
<1>5. QED
  BY <1>1, <1>3, <1>4 DEF IInv

LEMMA InvTypeOK == IInv => TypeOK
<1> SUFFICES ASSUME IInv PROVE TypeOK
  OBVIOUS
<1>1. ASSUME NEW c \in Callers
      PROVE  /\ stage[c] # "none" => call[c].pageCount \in 1..maxPages /\ session[c] # None
             /\ stage[c] \in {"fetch", "delay"} => token[c] # None
  BY NoneAssumption DEF IInv, CallOK, UnderWay, Sent, Sending, TokenTypeOK
<1>2. QED
  BY <1>1 DEF IInv, CallsTypeOK, TypeOK

\* A caller to whom nothing happens.
LEMMA Frame ==
  ASSUME NEW d \in Callers, CallOK(d),
         stage'[d] = stage[d], call'[d] = call[d], outcome'[d] = outcome[d],
         pc'[d] = pc[d], session'[d] = session[d], token'[d] = token[d]
  PROVE  CallOK(d)'
BY DEF CallOK, UnderWay, Sent, Ended, Sending

-----------------------------------------------------------------------------
(* The shared discovery.                                                   *)

LEMMA AwaitedSame ==
  ASSUME AwaitedDiscoveryIsUnderWay, UNCHANGED issuerClients,
         \A d \in Callers : pc'[d] = "discovery" => pc[d] = "discovery" /\ session'[d] = session[d]
  PROVE  AwaitedDiscoveryIsUnderWay'
BY DEF AwaitedDiscoveryIsUnderWay, IsDiscovering

LEMMA AwaitedMiss ==
  ASSUME TokenTypeOK, AwaitedDiscoveryIsUnderWay, NEW c \in Callers, Miss(c)
  PROVE  AwaitedDiscoveryIsUnderWay'
<1> DEFINE t == session[c].tenant
           new == [secret |-> session[c].secret, state |-> "discovering"]
<1>1. session[c] \in Session /\ t \in Tenants /\ new \in Client /\ new # None
  BY NoneAssumption DEF TokenTypeOK, Miss, Session, Client
<1>2. CASE issuerClients[t] = None
  <2> SUFFICES ASSUME NEW d \in Callers, pc'[d] = "discovery"
               PROVE  IsDiscovering(session[d].tenant)'
    BY DEF AwaitedDiscoveryIsUnderWay, Miss
  <2>1. issuerClients' = [issuerClients EXCEPT ![t] = new] /\ session' = session
    BY <1>2 DEF Miss
  <2>2. issuerClients'[t] = new
    BY <1>1, <2>1 DEF TokenTypeOK
  <2>3. CASE session[d].tenant = t
    BY <1>1, <2>1, <2>2, <2>3 DEF IsDiscovering
  <2>4. CASE session[d].tenant # t
    <3>1. d # c /\ pc[d] = "discovery"
      BY <2>4 DEF Miss, TokenTypeOK
    <3>2. session[d] \in Session
      BY <3>1 DEF TokenTypeOK
    <3>3. issuerClients'[session[d].tenant] = issuerClients[session[d].tenant]
      BY <2>1, <2>4, <3>2 DEF TokenTypeOK, Session
    <3>4. QED
      BY <2>1, <3>1, <3>3 DEF AwaitedDiscoveryIsUnderWay, IsDiscovering
  <2>5. QED
    BY <2>3, <2>4
<1>3. CASE issuerClients[t] # None
  BY <1>1, <1>3 DEF TokenTypeOK, AwaitedDiscoveryIsUnderWay, IsDiscovering, Miss
<1>4. QED
  BY <1>2, <1>3

LEMMA AwaitedDiscovery ==
  ASSUME TokenTypeOK, AwaitedDiscoveryIsUnderWay, NEW t \in Tenants,
         DiscoverySucceeds(t) \/ DiscoveryFails(t)
  PROVE  AwaitedDiscoveryIsUnderWay'
<1> SUFFICES ASSUME NEW d \in Callers, pc'[d] = "discovery"
             PROVE  IsDiscovering(session[d].tenant)'
  BY DEF AwaitedDiscoveryIsUnderWay, DiscoverySucceeds, DiscoveryFails
<1>1. pc[d] = "discovery" /\ session'[d] = session[d] /\ session[d].tenant # t
  BY DEF DiscoverySucceeds, DiscoveryFails, Waiting
<1>2. session[d] \in Session
  BY <1>1 DEF TokenTypeOK
<1>3. issuerClients'[session[d].tenant] = issuerClients[session[d].tenant]
  BY <1>1, <1>2 DEF TokenTypeOK, Session, DiscoverySucceeds, DiscoveryFails
<1>4. QED
  BY <1>1, <1>3 DEF AwaitedDiscoveryIsUnderWay, IsDiscovering, DiscoverySucceeds, DiscoveryFails

-----------------------------------------------------------------------------
(* The steps of a call.                                                    *)

LEMMA ReadType ==
  ASSUME CallsTypeOK, NEW c \in Callers
  PROVE  /\ Read(c) \in Call
         /\ Read(c).pageCount = call[c].pageCount
         /\ Read(c).url = call[c].url
         /\ Read(c).warned = call[c].warned
<1>1. call[c] \in Call /\ call[c].pageCount \in Nat /\ call[c].merged \in Seq(Nat)
  BY DEF CallsTypeOK, Call
<1>2. Append(call[c].merged, call[c].pageCount) \in Seq(Nat)
  BY <1>1
<1>3. QED
  BY <1>1, <1>2 DEF Read, Call

LEMMA CountType ==
  ASSUME NEW r \in Call
  PROVE  /\ [r EXCEPT !.attempt = @ + 1] \in Call
         /\ [r EXCEPT !.pageCount = @ + 1] \in Call
         /\ [r EXCEPT !.elapsed = @ + 1] \in Call
<1>1. r.attempt \in Nat /\ r.pageCount \in Nat /\ r.elapsed \in Nat
  BY DEF Call
<1> DEFINE a == r.attempt + 1
           p == r.pageCount + 1
           e == r.elapsed + 1
<1>2. a \in Nat /\ p \in Nat /\ e \in Nat
  BY <1>1
<1> HIDE DEF a, p, e
<1>3. /\ [r EXCEPT !.attempt = a] \in Call
      /\ [r EXCEPT !.pageCount = p] \in Call
      /\ [r EXCEPT !.elapsed = e] \in Call
  BY <1>2 DEF Call
<1>4. QED
  BY <1>3 DEF a, p, e

LEMMA EndCall ==
  ASSUME CallsTypeOK, NEW c \in Callers, NEW result \in {"list", "object", "fatal", "refused"},
         Return(c, result), NEW new \in Call, call' = [call EXCEPT ![c] = new],
         result = "list" => (new.warned <=> new.url # "")
  PROVE  CallsTypeOK' /\ CallOK(c)'
<1>1. CallsTypeOK' /\ stage'[c] = "none" /\ outcome'[c] = result /\ call'[c] = new
  BY DEF Return, CallsTypeOK
<1>2. QED
  BY <1>1 DEF CallOK, UnderWay, Sent, Ended, Sending

LEMMA TransientInv ==
  ASSUME CallsTypeOK, NEW c \in Callers, CallOK(c), stage[c] = "fetch",
         Transient(c), UNCHANGED <<pc, session>>
  PROVE  CallsTypeOK' /\ CallOK(c)'
<1> DEFINE new == [call[c] EXCEPT !.attempt = @ + 1]
<1>0. call[c] \in Call
  BY DEF CallsTypeOK
<1>1. new \in Call
  BY <1>0, CountType
<1>2. /\ new.attempt = call[c].attempt + 1
      /\ new.elapsed = call[c].elapsed
      /\ new.url = call[c].url
      /\ new.warned = call[c].warned
      /\ new.pageCount = call[c].pageCount
  BY <1>0 DEF Call
<1>3. call' = [call EXCEPT ![c] = new]
  BY DEF Transient
<1>4. call[c].attempt \in Nat /\ call[c].attempt <= maxRetries
  BY <1>0 DEF Call, CallOK, Sent, Sending
<1> HIDE DEF new
<1>5. call' \in [Callers -> Call] /\ call'[c] = new
  BY <1>1, <1>3 DEF CallsTypeOK
<1>6. CASE call[c].attempt + 1 > maxRetries
  <2>1. Return(c, "exhausted")
    BY <1>6 DEF Transient
  <2>2. CallsTypeOK' /\ stage'[c] = "none" /\ outcome'[c] = "exhausted"
    BY <1>5, <2>1 DEF Return, CallsTypeOK
  <2>3. call'[c].attempt = maxRetries + 1
    BY <1>2, <1>4, <1>5, <1>6, TransportAssumption
  <2>4. QED
    BY <2>2, <2>3 DEF CallOK, UnderWay, Sent, Ended, Sending
<1>7. CASE ~(call[c].attempt + 1 > maxRetries)
  <2>1. stage' = [stage EXCEPT ![c] = "delay"] /\ UNCHANGED <<outcome, token>>
    BY <1>7 DEF Transient
  <2>2. CallsTypeOK' /\ stage'[c] = "delay"
    BY <1>5, <2>1 DEF CallsTypeOK
  <2>3. call'[c].attempt <= maxRetries
    BY <1>2, <1>4, <1>5, <1>7, TransportAssumption
  <2>4. UnderWay(c)' /\ Ended(c)'
    BY <1>2, <1>5, <2>1, <2>2 DEF CallOK, UnderWay, Ended
  <2>5. Sent(c)'
    BY <1>2, <1>5, <2>1, <2>2, <2>3 DEF CallOK, Sent, Sending
  <2>6. QED
    BY <2>2, <2>4, <2>5 DEF CallOK
<1>8. QED
  BY <1>6, <1>7

LEMMA NextPageInv ==
  ASSUME CallsTypeOK, NEW c \in Callers, CallOK(c), stage[c] = "fetch",
         NextPage(c), UNCHANGED <<pc, session>>
  PROVE  CallsTypeOK' /\ CallOK(c)'
<1>1. /\ Read(c) \in Call
      /\ Read(c).pageCount = call[c].pageCount
      /\ call[c].pageCount \in 1..maxPages
      /\ Read(c).url = "graph" /\ ~Read(c).warned
  BY ReadType DEF CallOK, UnderWay
<1>2. CASE call[c].pageCount < maxPages
  <2> DEFINE new == [Read(c) EXCEPT !.pageCount = @ + 1]
  <2>1. /\ new \in Call
        /\ new.pageCount = call[c].pageCount + 1
        /\ new.url = "graph" /\ ~new.warned
    BY <1>1, CountType DEF Call
  <2>2. /\ call' = [call EXCEPT ![c] = new]
        /\ stage' = [stage EXCEPT ![c] = "token"]
        /\ UNCHANGED outcome
    BY <1>1, <1>2, TransportAssumption DEF NextPage
  <2> HIDE DEF new
  <2>3. new.pageCount \in 1..maxPages
    BY <1>1, <1>2, <2>1, TransportAssumption
  <2>4. CallsTypeOK' /\ call'[c] = new /\ stage'[c] = "token" /\ outcome'[c] = outcome[c]
    BY <2>1, <2>2 DEF CallsTypeOK
  <2>5. UnderWay(c)'
    BY <2>1, <2>3, <2>4 DEF CallOK, UnderWay
  <2>6. Sent(c)' /\ Ended(c)'
    BY <2>4 DEF CallOK, UnderWay, Sent, Ended, Sending
  <2>7. QED
    BY <2>4, <2>5, <2>6 DEF CallOK
<1>3. CASE ~(call[c].pageCount < maxPages)
  <2> DEFINE new == [Read(c) EXCEPT !.warned = TRUE]
  <2>1. new \in Call /\ new.url = "graph" /\ new.warned
    BY <1>1 DEF Call
  <2>2. call' = [call EXCEPT ![c] = new] /\ Return(c, "list")
    BY <1>3 DEF NextPage
  <2> HIDE DEF new
  <2>3. QED
    BY <2>1, <2>2, EndCall
<1>4. QED
  BY <1>2, <1>3

LEMMA RespondInv ==
  ASSUME IInv, NEW c \in Callers, Respond(c)
  PROVE  CallsTypeOK' /\ \A d \in Callers : CallOK(d)'
<1>1. /\ CallsTypeOK /\ TokenTypeOK /\ CallOK(c) /\ call[c] \in Call
      /\ stage[c] = "fetch"
      /\ UNCHANGED <<pc, session>>
  BY DEF IInv, Respond, CallsTypeOK
<1>2. call[c].url = "graph" /\ ~call[c].warned
  BY <1>1 DEF CallOK, UnderWay
<1>3. ASSUME Transient(c) \/ NextPage(c) PROVE CallsTypeOK' /\ CallOK(c)'
  BY <1>1, <1>3, TransientInv, NextPageInv
<1>4. ASSUME Refused(c) PROVE CallsTypeOK' /\ CallOK(c)'
  <2>1. call' = [call EXCEPT ![c] = call[c]] /\ Return(c, "refused")
    BY <1>1, <1>4 DEF Refused, CallsTypeOK
  <2>2. QED
    BY <1>1, <2>1, EndCall
<1>5. ASSUME NotCollection(c) PROVE CallsTypeOK' /\ CallOK(c)'
  <2> DEFINE new == [call[c] EXCEPT !.url = "", !.attempt = 0, !.elapsed = 0]
  <2>1. new \in Call /\ (new.warned <=> new.url # "")
    BY <1>1, <1>2 DEF Call
  <2>2. call' = [call EXCEPT ![c] = new] /\ (Return(c, "list") \/ Return(c, "object"))
    BY <1>5 DEF NotCollection
  <2> HIDE DEF new
  <2>3. QED
    BY <1>1, <2>1, <2>2, EndCall
<1>6. ASSUME LastPage(c) PROVE CallsTypeOK' /\ CallOK(c)'
  <2> DEFINE new == [Read(c) EXCEPT !.url = ""]
  <2>1. new \in Call /\ (new.warned <=> new.url # "")
    BY <1>1, <1>2, ReadType DEF Call
  <2>2. call' = [call EXCEPT ![c] = new] /\ Return(c, "list")
    BY <1>6 DEF LastPage
  <2> HIDE DEF new
  <2>3. QED
    BY <1>1, <2>1, <2>2, EndCall
<1>7. ASSUME ForeignLink(c) PROVE CallsTypeOK' /\ CallOK(c)'
  <2>1. Read(c) \in Call /\ call' = [call EXCEPT ![c] = Read(c)] /\ Return(c, "fatal")
    BY <1>1, <1>7, ReadType DEF ForeignLink
  <2>2. QED
    BY <1>1, <2>1, EndCall
<1>8. CallsTypeOK' /\ CallOK(c)'
  BY <1>3, <1>4, <1>5, <1>6, <1>7 DEF Respond
<1>9. ASSUME NEW d \in Callers, d # c
       PROVE  CallOK(d)'
  <2>1. stage'[d] = stage[d] /\ outcome'[d] = outcome[d]
    BY <1>1, <1>9 DEF CallsTypeOK, Respond, Return, Transient, Refused, NotCollection,
                       LastPage, ForeignLink, NextPage
  <2>2. call'[d] = call[d]
    BY <1>1, <1>9 DEF CallsTypeOK, Respond, Transient, Refused, NotCollection,
                       LastPage, ForeignLink, NextPage
  <2>3. token'[d] = token[d]
    BY <1>1, <1>9 DEF TokenTypeOK, Respond, Drop, Transient, Refused, NotCollection,
                       LastPage, ForeignLink, NextPage
  <2>4. pc'[d] = pc[d] /\ session'[d] = session[d]
    BY DEF Respond
  <2>5. QED
    BY <2>1, <2>2, <2>3, <2>4, Frame DEF IInv
<1>10. QED
  BY <1>8, <1>9

-----------------------------------------------------------------------------
(* Tokens returned and refused.                                            *)

\* Only the token of c and where it is may change.
LEMMA SendInv ==
  ASSUME CallsTypeOK, NEW c \in Callers, \A d \in Callers : CallOK(d), Send({c}),
         session' = session, pc'[c] = "open", token'[c] \in Token, token'[c] > Margin,
         ~Sending(c),
         \A d \in Callers : d # c => pc'[d] = pc[d] /\ token'[d] = token[d]
  PROVE  CallsTypeOK' /\ \A d \in Callers : CallOK(d)'
<1> DEFINE new == [call[c] EXCEPT !.attempt = 0, !.elapsed = 0]
<1>1. /\ new \in Call
      /\ new.attempt = 0 /\ new.elapsed = 0
      /\ new.pageCount = call[c].pageCount
      /\ new.url = call[c].url
      /\ new.warned = call[c].warned
  BY DEF CallsTypeOK, Call
<1>2. /\ stage' = [d \in Callers |-> IF d \in {c} /\ stage[d] = "token" THEN "fetch" ELSE stage[d]]
      /\ \A d \in Callers : d # c => call'[d] = call[d]
      /\ call'[c] = IF stage[c] = "token" THEN new ELSE call[c]
      /\ outcome' = outcome
  BY DEF Send
<1> HIDE DEF new
<1>3. call' \in [Callers -> Call]
  <2>1. call' = [d \in Callers |-> call'[d]]
    BY DEF Send
  <2>2. \A d \in Callers : call'[d] \in Call
    BY <1>1, <1>2 DEF CallsTypeOK
  <2>3. QED
    BY <2>1, <2>2
<1>4. CallsTypeOK'
  BY <1>2, <1>3 DEF CallsTypeOK
<1>5. ASSUME NEW d \in Callers, d # c PROVE CallOK(d)'
  BY <1>2, <1>5, Frame
<1>6. CASE stage[c] = "token"
  <2>1. stage'[c] = "fetch" /\ call'[c] = new
    BY <1>2, <1>6
  <2>2. UnderWay(c)' /\ Ended(c)'
    BY <1>1, <1>2, <1>6, <2>1 DEF CallOK, UnderWay, Ended
  <2>3. token'[c] + 0 > Margin
    BY TokenAssumption DEF Token
  <2>4. Sent(c)'
    BY <1>1, <2>1, <2>3, TransportAssumption DEF Sent, Sending
  <2>5. QED
    BY <1>4, <1>5, <2>2, <2>4 DEF CallOK
<1>7. CASE stage[c] # "token"
  <2>1. stage'[c] = "none" /\ call'[c] = call[c] /\ outcome'[c] = outcome[c] /\ stage[c] = "none"
    BY <1>2, <1>7 DEF Sending, CallsTypeOK
  <2>2. CallOK(c)'
    BY <2>1 DEF CallOK, UnderWay, Sent, Ended, Sending
  <2>3. QED
    BY <1>4, <1>5, <2>2
<1>8. QED
  BY <1>6, <1>7

LEMMA RethrowInv ==
  ASSUME CallsTypeOK, \A d \in Callers : CallOK(d), NEW cs \in SUBSET Callers, Rethrow(cs),
         session' = session, token' = token,
         \A d \in Callers \ cs : pc'[d] = pc[d]
  PROVE  CallsTypeOK' /\ \A d \in Callers : CallOK(d)'
<1>1. CallsTypeOK'
  BY DEF CallsTypeOK, Rethrow
<1>2. ASSUME NEW d \in Callers, d \in cs PROVE CallOK(d)'
  BY <1>2 DEF Rethrow, CallOK, UnderWay, Sent, Ended, Sending
<1>3. ASSUME NEW d \in Callers, d \notin cs PROVE CallOK(d)'
  BY <1>3, Frame DEF Rethrow
<1>4. QED
  BY <1>1, <1>2, <1>3

\* A caller that is not sending asks for a token, or waits for one.
LEMMA QuietInv ==
  ASSUME CallsTypeOK, \A d \in Callers : CallOK(d), UNCHANGED <<callVars, session>>,
         \A d \in Callers : pc'[d] = "idle" => pc[d] = "idle",
         \A d \in Callers : Sending(d) => pc'[d] = pc[d] /\ token'[d] = token[d]
  PROVE  CallsTypeOK' /\ \A d \in Callers : CallOK(d)'
BY DEF callVars, CallsTypeOK, CallOK, UnderWay, Sent, Ended, Sending

LEMMA GetTokenInv ==
  ASSUME IInv, NEW c \in Callers, GetToken(c)
  PROVE  CallsTypeOK' /\ \A d \in Callers : CallOK(d)'
<1>1. /\ TokenTypeOK /\ CallsTypeOK /\ (\A d \in Callers : CallOK(d))
      /\ ~Sending(c)
  BY DEF IInv, GetToken, Sending
<1>2. CASE Hit(c) /\ Send({c})
  <2>1. token'[c] \in Token /\ token'[c] > Margin
    BY <1>1, <1>2, HitType
  <2>2. /\ session' = session /\ pc' = pc /\ pc[c] = "open"
        /\ \A d \in Callers : d # c => token'[d] = token[d]
    BY <1>1, <1>2 DEF Hit, TokenTypeOK
  <2>3. QED
    BY <1>1, <1>2, <2>1, <2>2, SendInv
<1>3. CASE Miss(c) /\ UNCHANGED callVars
  <2>1. /\ session' = session
        /\ pc'[c] # "idle"
        /\ \A d \in Callers : d # c => pc'[d] = pc[d] /\ token'[d] = token[d]
    BY <1>1, <1>3 DEF Miss, TokenTypeOK
  <2>2. QED
    BY <1>1, <1>3, <2>1, QuietInv
<1>4. CASE GrantSucceeds(c) /\ Send({c})
  <2>1. token'[c] = Lifetime /\ Lifetime \in Token /\ Lifetime > Margin
    BY <1>1, <1>4, TokenAssumption DEF GrantSucceeds, TokenTypeOK, Token
  <2>2. /\ session' = session /\ pc'[c] = "open"
        /\ \A d \in Callers : d # c => pc'[d] = pc[d] /\ token'[d] = token[d]
    BY <1>1, <1>4 DEF GrantSucceeds, TokenTypeOK
  <2>3. QED
    BY <1>1, <1>4, <2>1, <2>2, SendInv
<1>5. CASE GrantFails(c) /\ Rethrow({c})
  <2>1. session' = session /\ token' = token /\ \A d \in Callers \ {c} : pc'[d] = pc[d]
    BY <1>1, <1>5 DEF GrantFails, TokenTypeOK
  <2>2. QED
    BY <1>1, <1>5, <2>1, RethrowInv
<1>6. QED
  BY <1>2, <1>3, <1>4, <1>5 DEF GetToken

LEMMA DiscoveryInv ==
  ASSUME IInv, NEW t \in Tenants, Discovery(t)
  PROVE  CallsTypeOK' /\ \A d \in Callers : CallOK(d)'
<1>1. TokenTypeOK /\ CallsTypeOK /\ \A d \in Callers : CallOK(d)
  BY DEF IInv
<1>2. CASE DiscoverySucceeds(t) /\ UNCHANGED callVars
  <2>1. /\ session' = session /\ token' = token
        /\ \A d \in Callers : pc'[d] = pc[d] \/ (pc[d] = "discovery" /\ pc'[d] = "grant")
    BY <1>2 DEF DiscoverySucceeds, Waiting
  <2>2. \A d \in Callers : Sending(d) => pc[d] = "open"
    BY <1>1 DEF CallOK, Sent
  <2>3. QED
    BY <1>1, <1>2, <2>1, <2>2, QuietInv
<1>3. CASE DiscoveryFails(t) /\ Rethrow(Waiting(t))
  <2>1. /\ Waiting(t) \in SUBSET Callers
        /\ session' = session /\ token' = token
        /\ \A d \in Callers \ Waiting(t) : pc'[d] = pc[d]
    BY <1>3 DEF DiscoveryFails, Waiting
  <2>2. QED
    BY <1>1, <1>3, <2>1, RethrowInv
<1>4. QED
  BY <1>2, <1>3 DEF Discovery

-----------------------------------------------------------------------------
(* Calls begin, time passes, sessions open and close.                      *)

\* One caller's call is replaced, and it sends nothing.
LEMMA ReplaceInv ==
  ASSUME CallsTypeOK, NEW c \in Callers, \A d \in Callers : CallOK(d),
         NEW new \in Call, call' = [call EXCEPT ![c] = new],
         NEW to \in {"none", "token"}, stage' = [stage EXCEPT ![c] = to],
         NEW result \in {"none", "fatal"}, outcome' = [outcome EXCEPT ![c] = result],
         to = "token" => /\ pc'[c] # "idle" /\ session'[c].cached
                         /\ new.pageCount \in 1..maxPages /\ new.url = "graph" /\ ~new.warned
                         /\ result = "none",
         \A d \in Callers : d # c => pc'[d] = pc[d] /\ session'[d] = session[d] /\ token'[d] = token[d]
  PROVE  CallsTypeOK' /\ \A d \in Callers : CallOK(d)'
<1>1. CallsTypeOK' /\ call'[c] = new /\ stage'[c] = to /\ outcome'[c] = result
  BY DEF CallsTypeOK
<1>2. CallOK(c)'
  BY <1>1 DEF CallOK, UnderWay, Sent, Ended, Sending
<1>3. ASSUME NEW d \in Callers, d # c PROVE CallOK(d)'
  <2>1. stage'[d] = stage[d] /\ call'[d] = call[d] /\ outcome'[d] = outcome[d]
    BY <1>3 DEF CallsTypeOK
  <2>2. QED
    BY <1>3, <2>1, Frame
<1>4. QED
  BY <1>1, <1>2, <1>3

LEMMA NoCallType == NoCall \in Call
<1>1. <<>> \in Seq(Nat)
  OBVIOUS
<1>2. QED
  BY <1>1 DEF NoCall, Call

LEMMA FirstPageType ==
  ASSUME NEW new, new = [NoCall EXCEPT !.pageCount = 1, !.url = "graph"]
  PROVE  new \in Call /\ new.pageCount \in 1..maxPages /\ new.url = "graph" /\ ~new.warned
<1> DEFINE first == [pageCount |-> 1, merged |-> <<>>, attempt |-> 0, elapsed |-> 0,
                    url |-> "graph", warned |-> FALSE]
<1>1. new = first
  BY DEF NoCall
<1>2. first \in Call
  BY DEF Call
<1>3. 1 \in 1..maxPages
  BY TransportAssumption
<1>4. first.pageCount = 1 /\ first.url = "graph"
  OBVIOUS
<1>5. ~first.warned
  BY Zenon
<1> HIDE DEF first
<1>6. QED
  BY <1>1, <1>2, <1>3, <1>4, <1>5, Zenon

LEMMA BeginInv ==
  ASSUME IInv, NEW c \in Callers, getJson(c) \/ Misuse(c) \/ CloseSession(c)
  PROVE  CallsTypeOK' /\ \A d \in Callers : CallOK(d)'
<1>1. /\ TokenTypeOK /\ CallsTypeOK /\ (\A d \in Callers : CallOK(d))
      /\ stage[c] = "none"
  BY DEF IInv, getJson, Misuse, CloseSession
<1>2. CASE getJson(c)
  <2> DEFINE new == [NoCall EXCEPT !.pageCount = 1, !.url = "graph"]
  <2>1. /\ new \in Call /\ new.pageCount \in 1..maxPages /\ new.url = "graph" /\ ~new.warned
    BY FirstPageType
  <2>2. /\ call' = [call EXCEPT ![c] = new]
        /\ stage' = [stage EXCEPT ![c] = "token"]
        /\ outcome' = [outcome EXCEPT ![c] = "none"]
        /\ pc'[c] # "idle" /\ session'[c].cached
        /\ UNCHANGED <<pc, session, token>>
    BY <1>2 DEF getJson, tokenVars
  <2> HIDE DEF new
  <2>3. QED
    BY <1>1, <2>1, <2>2, ReplaceInv
<1>3. CASE Misuse(c)
  <2>1. /\ call' = [call EXCEPT ![c] = NoCall]
        /\ stage' = [stage EXCEPT ![c] = "none"]
        /\ outcome' = [outcome EXCEPT ![c] = "fatal"]
        /\ UNCHANGED <<pc, session, token>>
    BY <1>3 DEF Misuse, Return, tokenVars
  <2>2. QED
    BY <1>1, <2>1, ReplaceInv, NoCallType
<1>4. CASE CloseSession(c)
  <2>1. /\ call' = [call EXCEPT ![c] = NoCall]
        /\ stage' = [stage EXCEPT ![c] = "none"]
        /\ outcome' = [outcome EXCEPT ![c] = "none"]
    BY <1>1, <1>4 DEF CloseSession, CallsTypeOK
  <2>2. \A d \in Callers : d # c => pc'[d] = pc[d] /\ session'[d] = session[d] /\ token'[d] = token[d]
    BY <1>1, <1>4 DEF CloseSession, Shut, TokenTypeOK
  <2>3. QED
    BY <1>1, <2>1, <2>2, ReplaceInv, NoCallType
<1>5. QED
  BY <1>2, <1>3, <1>4

LEMMA TickInv ==
  ASSUME IInv, Tick
  PROVE  CallsTypeOK' /\ \A d \in Callers : CallOK(d)'
<1>1. TokenTypeOK /\ CallsTypeOK /\ \A d \in Callers : CallOK(d)
  BY DEF IInv
<1>2. call' \in [Callers -> Call]
  <2>1. call' = [d \in Callers |-> call'[d]]
    BY DEF Tick
  <2>2. ASSUME NEW d \in Callers PROVE call'[d] \in Call
    <3>1. call[d] \in Call
      BY <1>1 DEF CallsTypeOK
    <3>2. call'[d] = IF Sending(d) /\ call[d].elapsed <= Margin
                     THEN [call[d] EXCEPT !.elapsed = @ + 1] ELSE call[d]
      BY DEF Tick
    <3>3. QED
      BY <3>1, <3>2, CountType
  <2>3. QED
    BY <2>1, <2>2
<1>3. CallsTypeOK'
  BY <1>1, <1>2 DEF CallsTypeOK, Tick
<1>4. ASSUME NEW d \in Callers PROVE CallOK(d)'
  <2>1. /\ stage'[d] = stage[d] /\ outcome'[d] = outcome[d]
        /\ pc'[d] = pc[d] /\ session'[d] = session[d]
        /\ token'[d] = Older(token[d])
    BY DEF Tick, Age
  <2>2. CASE ~(Sending(d) /\ call[d].elapsed <= Margin)
    <3>1. call'[d] = call[d]
      BY <2>2 DEF Tick
    <3>2. Sending(d) => token'[d] \in Token
      BY <1>1, <2>1, OlderType DEF CallOK, Sent
    <3>3. QED
      BY <1>1, <2>1, <2>2, <3>1, <3>2 DEF CallOK, UnderWay, Sent, Ended, Sending
  <2>3. CASE Sending(d) /\ call[d].elapsed <= Margin
    <3> DEFINE new == [call[d] EXCEPT !.elapsed = @ + 1]
    <3>0. call[d] \in Call /\ call[d].elapsed \in Nat
      BY <1>1 DEF CallsTypeOK, Call
    <3>1. /\ new.elapsed = call[d].elapsed + 1
          /\ new.attempt = call[d].attempt
          /\ new.pageCount = call[d].pageCount
          /\ new.url = call[d].url
          /\ new.warned = call[d].warned
      BY <3>0 DEF Call
    <3>2. call'[d] = new
      BY <2>3 DEF Tick
    <3> HIDE DEF new
    <3>3. /\ pc[d] = "open" /\ token[d] \in Token
          /\ token[d] + call[d].elapsed > Margin
          /\ call[d].attempt <= maxRetries
      BY <1>1, <2>3 DEF CallOK, Sent
    <3>4. token'[d] \in Token /\ (token[d] > 0 => token'[d] = token[d] - 1)
      BY <2>1, <3>3, OlderType
    <3>5. new.elapsed <= Margin => token'[d] + new.elapsed > Margin
      <4>1. token[d] \in Nat /\ token'[d] \in Nat
        BY <3>3, <3>4, TokenAssumption DEF Token
      <4>2. QED
        BY <3>0, <3>1, <3>3, <3>4, <4>1, TokenAssumption
    <3>6. UnderWay(d)' /\ Ended(d)'
      BY <1>1, <2>1, <3>1, <3>2 DEF CallOK, UnderWay, Ended
    <3>7. Sent(d)'
      BY <2>1, <3>1, <3>2, <3>3, <3>4, <3>5 DEF Sent, Sending
    <3>8. QED
      BY <3>6, <3>7 DEF CallOK
  <2>4. QED
    BY <2>2, <2>3
<1>5. QED
  BY <1>3, <1>4

LEMMA SessionInv ==
  ASSUME IInv, NEW c \in Callers, OpenSession(c)
  PROVE  CallsTypeOK' /\ \A d \in Callers : CallOK(d)'
<1>1. /\ TokenTypeOK /\ CallsTypeOK /\ (\A d \in Callers : CallOK(d))
      /\ UNCHANGED callVars /\ pc[c] = "idle" /\ UNCHANGED token
      /\ \A d \in Callers : d # c => pc'[d] = pc[d] /\ session'[d] = session[d]
  BY DEF IInv, OpenSession, Open, TokenTypeOK
<1>2. stage[c] = "none"
  BY <1>1 DEF CallOK, UnderWay
<1>3. CallOK(c)'
  BY <1>1, <1>2 DEF callVars, CallOK, UnderWay, Sent, Ended, Sending
<1>4. ASSUME NEW d \in Callers, d # c PROVE CallOK(d)'
  BY <1>1, <1>4, Frame DEF callVars
<1>5. QED
  BY <1>1, <1>3, <1>4 DEF callVars, CallsTypeOK

-----------------------------------------------------------------------------
(* The theorems.                                                           *)

LEMMA TokenStep ==
  ASSUME IInv, Next
  PROVE  TokenTypeOK' /\ AwaitedDiscoveryIsUnderWay'
<1>1. TokenTypeOK /\ AwaitedDiscoveryIsUnderWay /\ CallsTypeOK
  BY DEF IInv
<1>2. ASSUME NEW c \in Callers, OpenSession(c)
      PROVE  TokenTypeOK' /\ AwaitedDiscoveryIsUnderWay'
  <2>1. /\ UNCHANGED issuerClients
        /\ \A d \in Callers : pc'[d] = "discovery" => pc[d] = "discovery" /\ session'[d] = session[d]
    BY <1>1, <1>2 DEF OpenSession, Open, TokenTypeOK, caches
  <2>2. QED
    BY <1>1, <1>2, <2>1, OpenType, AwaitedSame DEF OpenSession
<1>3. ASSUME NEW c \in Callers, CloseSession(c)
      PROVE  TokenTypeOK' /\ AwaitedDiscoveryIsUnderWay'
  <2>1. /\ UNCHANGED issuerClients
        /\ \A d \in Callers : pc'[d] = "discovery" => pc[d] = "discovery" /\ session'[d] = session[d]
    BY <1>1, <1>3 DEF CloseSession, Shut, TokenTypeOK, caches
  <2>2. QED
    BY <1>1, <1>3, <2>1, ShutType, AwaitedSame DEF CloseSession
<1>4. ASSUME NEW c \in Callers, getJson(c) \/ Misuse(c) \/ Retry(c)
      PROVE  TokenTypeOK' /\ AwaitedDiscoveryIsUnderWay'
  BY <1>1, <1>4 DEF getJson, Misuse, Retry, tokenVars, caches, TokenTypeOK,
                    AwaitedDiscoveryIsUnderWay, IsDiscovering
<1>5. ASSUME NEW c \in Callers, GetToken(c)
      PROVE  TokenTypeOK' /\ AwaitedDiscoveryIsUnderWay'
  <2>1. CASE Miss(c)
    BY <1>1, <2>1, MissType, AwaitedMiss
  <2>2. CASE Hit(c)
    BY <1>1, <2>2, HitType, AwaitedSame DEF Hit, caches
  <2>3. CASE GrantSucceeds(c) \/ GrantFails(c)
    <3>1. /\ UNCHANGED issuerClients
          /\ \A d \in Callers : pc'[d] = "discovery" => pc[d] = "discovery" /\ session'[d] = session[d]
      BY <1>1, <2>3 DEF GrantSucceeds, GrantFails, TokenTypeOK, caches
    <3>2. QED
      BY <1>1, <2>3, <3>1, GrantType, AwaitedSame
  <2>4. QED
    BY <1>5, <2>1, <2>2, <2>3 DEF GetToken
<1>6. ASSUME NEW c \in Callers, Respond(c)
      PROVE  TokenTypeOK' /\ AwaitedDiscoveryIsUnderWay'
  <2>1. token' = token \/ token' = [token EXCEPT ![c] = None]
    BY <1>6 DEF Respond, Drop, Transient, Refused, NotCollection, LastPage, ForeignLink, NextPage
  <2>2. token' \in [Callers -> Token \cup {None}]
    BY <1>1, <2>1 DEF TokenTypeOK
  <2>3. QED
    BY <1>1, <1>6, <2>2 DEF Respond, caches, TokenTypeOK, AwaitedDiscoveryIsUnderWay, IsDiscovering
<1>7. ASSUME NEW t \in Tenants, Discovery(t)
      PROVE  TokenTypeOK' /\ AwaitedDiscoveryIsUnderWay'
  BY <1>1, <1>7, DiscoveryType, AwaitedDiscovery DEF Discovery
<1>8. CASE (\E s \in Secrets : SaveSecret(s)) \/ DeleteSecret
  BY <1>1, <1>8, OperatorType, AwaitedSame DEF SaveSecret, DeleteSecret, caches
<1>9. CASE Tick
  BY <1>1, <1>9, AgeType, AwaitedSame DEF Tick, Age
<1>10. QED
  BY <1>2, <1>3, <1>4, <1>5, <1>6, <1>7, <1>8, <1>9 DEF Next, CallStep

LEMMA RetryInv ==
  ASSUME IInv, NEW c \in Callers, Retry(c)
  PROVE  CallsTypeOK' /\ \A d \in Callers : CallOK(d)'
BY DEF IInv, Retry, tokenVars, CallsTypeOK, CallOK, UnderWay, Sent, Ended, Sending

LEMMA InvStep ==
  ASSUME IInv, [Next]_vars
  PROVE  IInv'
<1>1. CASE Next
  <2>1. TokenTypeOK' /\ AwaitedDiscoveryIsUnderWay'
    BY <1>1, TokenStep
  <2>2. CallsTypeOK' /\ \A d \in Callers : CallOK(d)'
    <3>1. ASSUME (\E s \in Secrets : SaveSecret(s)) \/ DeleteSecret, UNCHANGED callVars
          PROVE  CallsTypeOK' /\ \A d \in Callers : CallOK(d)'
      BY <3>1, QuietInv DEF IInv, SaveSecret, DeleteSecret
    <3>2. QED
      BY <1>1, <3>1, SessionInv, BeginInv, GetTokenInv, RespondInv, RetryInv, DiscoveryInv, TickInv
         DEF Next, CallStep
  <2>3. QED
    BY <2>1, <2>2 DEF IInv
<1>2. CASE UNCHANGED vars
  BY <1>2 DEF vars, tokenVars, callVars, caches, IInv, TokenTypeOK, CallsTypeOK,
              AwaitedDiscoveryIsUnderWay, IsDiscovering, CallOK, UnderWay, Sent, Ended, Sending
<1>3. QED
  BY <1>1, <1>2

\* The inductive invariant of the transport over the token cache.
THEOREM Inductive == Spec => []IInv
BY InvInit, InvStep, PTL DEF Spec

\* Every reachable state is well typed, and a call that is under way has a session
\* and a page to fetch.
THEOREM TypeCorrect == Spec => []TypeOK
BY Inductive, InvTypeOK, PTL

\* getTokenForResource's margin is honoured for every caller and every cached
\* token: no request leaves getJson with an expired token unless its own page's
\* retries have taken longer than TOKEN_EXPIRY_MARGIN_MS.  There is no bound on
\* how long they take.
THEOREM MarginIsHonoured == Spec => []ExpiresOnlyPastMargin
<1>1. IInv => ExpiresOnlyPastMargin
  <2> SUFFICES ASSUME IInv, NEW c \in Callers, Sending(c), call[c].elapsed <= Margin
               PROVE  token[c] > 0
    BY DEF ExpiresOnlyPastMargin
  <2>1. call[c].elapsed \in Nat
    BY DEF IInv, CallsTypeOK, Call
  <2>2. token[c] \in Nat /\ token[c] + call[c].elapsed > Margin
    BY TokenAssumption DEF IInv, CallOK, Sent, Token
  <2>3. QED
    BY <2>1, <2>2, TokenAssumption
<1>2. QED
  BY <1>1, Inductive, PTL

\* A list is returned with a link unread exactly if its reader was warned.
THEOREM TruncationStaysLoud == Spec => []TruncationIsLoud
<1>1. IInv => TruncationIsLoud
  BY DEF IInv, CallOK, Ended, TruncationIsLoud
<1>2. QED
  BY <1>1, Inductive, PTL

\* fetchPageWithRetry tries a page once and maxRetries times more, and gives up
\* only then.
THEOREM RetriesStayExact == Spec => []RetriesAreExact
<1>1. IInv => RetriesAreExact
  BY DEF IInv, CallOK, Sent, Ended, RetriesAreExact
<1>2. QED
  BY <1>1, Inductive, PTL

\* resolveNextUrl: whatever links the answers contain, every request goes to Graph.
THEOREM PagesStayOnGraph == Spec => []PagesComeFromGraph
<1>1. IInv => PagesComeFromGraph
  BY DEF IInv, CallOK, UnderWay, Sending, PagesComeFromGraph
<1>2. QED
  BY <1>1, Inductive, PTL

\* getIssuerClient: a shared discovery is neither evicted nor replaced while any
\* caller awaits it.
THEOREM AwaitedDiscoveries == Spec => []AwaitedDiscoveryIsUnderWay
BY Inductive, PTL DEF IInv

-----------------------------------------------------------------------------
(* The pages a call has merged.                                            *)

Pages(n) == [i \in 1..n |-> i]

MergeOK(c) ==
  IF stage[c] # "none"
  THEN call[c].merged = Pages(call[c].pageCount - 1)
  ELSE \E n \in {call[c].pageCount, call[c].pageCount - 1} : call[c].merged = Pages(n)

LEMMA OneMorePage ==
  ASSUME NEW n \in Nat \ {0}
  PROVE  Append(Pages(n - 1), n) = Pages(n)
<1>1. Pages(n - 1) \in Seq(Nat) /\ Len(Pages(n - 1)) = n - 1
  BY DEF Pages
<1>2. QED
  BY <1>1 DEF Pages

LEMMA NoPages == NoCall.merged = Pages(NoCall.pageCount)
BY DEF NoCall, Pages

\* A call that reads nothing.
Unread(c) ==
  /\ call'[c].merged = call[c].merged
  /\ call'[c].pageCount = call[c].pageCount
  /\ stage'[c] # "none" => stage[c] # "none"

LEMMA MergeUnread ==
  ASSUME NEW c \in Callers, MergeOK(c), Unread(c)
  PROVE  MergeOK(c)'
BY DEF MergeOK, Unread

LEMMA MergeRead ==
  ASSUME IInv, NEW c \in Callers, MergeOK(c), stage[c] # "none",
         call'[c].merged = Append(call[c].merged, call[c].pageCount),
         \/ call'[c].pageCount = call[c].pageCount + 1
         \/ call'[c].pageCount = call[c].pageCount /\ stage'[c] = "none"
  PROVE  MergeOK(c)'
<1>1. call[c].pageCount \in Nat \ {0}
  BY TransportAssumption DEF IInv, CallOK, UnderWay
<1>2. call'[c].merged = Pages(call[c].pageCount)
  BY <1>1, OneMorePage DEF MergeOK
<1>3. QED
  BY <1>1, <1>2 DEF MergeOK

LEMMA MergeReset ==
  ASSUME NEW c \in Callers,
         \/ call'[c] = NoCall /\ stage'[c] = "none"
         \/ call'[c] = [NoCall EXCEPT !.pageCount = 1, !.url = "graph"]
  PROVE  MergeOK(c)'
<1>1. NoCall.merged = Pages(0) /\ NoCall.pageCount = 0
  BY NoPages DEF NoCall
<1>2. CASE call'[c] = NoCall /\ stage'[c] = "none"
  BY <1>1, <1>2 DEF MergeOK
<1>3. CASE call'[c] = [NoCall EXCEPT !.pageCount = 1, !.url = "graph"]
  <2>1. call'[c].merged = NoCall.merged /\ call'[c].pageCount = 1
    BY <1>3 DEF NoCall
  <2>2. call'[c].merged = Pages(call'[c].pageCount - 1)
    BY <1>1, <2>1
  <2>3. QED
    BY <2>2 DEF MergeOK
<1>4. QED
  BY <1>2, <1>3

LEMMA MergeRespond ==
  ASSUME IInv, NEW c \in Callers, Respond(c), \A d \in Callers : MergeOK(d)
  PROVE  \A d \in Callers : MergeOK(d)'
<1>1. stage[c] # "none" /\ call[c] \in Call /\ CallsTypeOK
  BY DEF IInv, CallsTypeOK, Respond
<1>2. ASSUME NEW d \in Callers, d # c PROVE MergeOK(d)'
  <2>1. call'[d] = call[d] /\ stage'[d] = stage[d]
    BY <1>1, <1>2 DEF Respond, Transient, Refused, NotCollection, LastPage, ForeignLink, NextPage,
                      Return, CallsTypeOK
  <2>2. QED
    BY <2>1, MergeUnread DEF Unread
<1>3. CASE Transient(c) \/ Refused(c) \/ NotCollection(c)
  <2>1. call'[c].merged = call[c].merged /\ call'[c].pageCount = call[c].pageCount
    <3>1. CASE Transient(c)
      BY <1>1, <3>1 DEF Transient, Call, CallsTypeOK
    <3>2. CASE Refused(c)
      BY <3>2 DEF Refused
    <3>3. CASE NotCollection(c)
      BY <1>1, <3>3 DEF NotCollection, Call, CallsTypeOK
    <3>4. QED
      BY <1>3, <3>1, <3>2, <3>3
  <2>2. QED
    BY <1>1, <1>2, <2>1, MergeUnread DEF Unread
<1>4. CASE LastPage(c) \/ ForeignLink(c) \/ NextPage(c)
  <2>1. /\ Read(c).merged = Append(call[c].merged, call[c].pageCount)
        /\ Read(c).pageCount = call[c].pageCount
        /\ Read(c) \in Call
    BY <1>1, ReadType DEF Read, Call
  <2>2. /\ call'[c].merged = Append(call[c].merged, call[c].pageCount)
        /\ \/ call'[c].pageCount = call[c].pageCount + 1
           \/ call'[c].pageCount = call[c].pageCount /\ stage'[c] = "none"
    <3> DEFINE read == Read(c)
    <3> HIDE DEF read
    <3>1. CASE LastPage(c)
      <4>1. call'[c] = [read EXCEPT !.url = ""] /\ stage'[c] = "none"
        BY <1>1, <3>1 DEF LastPage, Return, CallsTypeOK, read
      <4>2. QED
        BY <2>1, <4>1 DEF Call, read
    <3>2. CASE ForeignLink(c)
      BY <1>1, <2>1, <3>2 DEF ForeignLink, Return, CallsTypeOK
    <3>3. CASE NextPage(c)
      <4>1. \/ call'[c] = [read EXCEPT !.pageCount = @ + 1]
            \/ call'[c] = [read EXCEPT !.warned = TRUE] /\ stage'[c] = "none"
        BY <1>1, <3>3 DEF NextPage, Return, CallsTypeOK, read
      <4>2. QED
        BY <2>1, <4>1 DEF Call, read
    <3>4. QED
      BY <1>4, <3>1, <3>2, <3>3
  <2>3. QED
    BY <1>1, <1>2, <2>2, MergeRead
<1>5. QED
  BY <1>1, <1>3, <1>4 DEF Respond

LEMMA MergeStep ==
  ASSUME IInv, [Next]_vars, \A d \in Callers : MergeOK(d)
  PROVE  \A d \in Callers : MergeOK(d)'
<1>1. CallsTypeOK
  BY DEF IInv
<1>2. ASSUME \A d \in Callers : Unread(d) PROVE \A d \in Callers : MergeOK(d)'
  BY <1>2, MergeUnread
<1>3. CASE UNCHANGED callVars
  BY <1>2, <1>3 DEF callVars, Unread
<1>4. ASSUME NEW c \in Callers, getJson(c) \/ Misuse(c) \/ CloseSession(c)
      PROVE  \A d \in Callers : MergeOK(d)'
  <2>1. \/ call'[c] = NoCall /\ stage'[c] = "none"
        \/ call'[c] = [NoCall EXCEPT !.pageCount = 1, !.url = "graph"]
    BY <1>1, <1>4 DEF getJson, Misuse, CloseSession, Return, CallsTypeOK
  <2>2. ASSUME NEW d \in Callers, d # c PROVE call'[d] = call[d] /\ stage'[d] = stage[d]
    BY <1>1, <1>4, <2>2 DEF getJson, Misuse, CloseSession, Return, CallsTypeOK
  <2>3. QED
    BY <2>1, <2>2, MergeReset, MergeUnread DEF Unread
<1>5. ASSUME NEW cs, Send(cs) \/ Rethrow(cs) PROVE \A d \in Callers : MergeOK(d)'
  <2>1. ASSUME NEW d \in Callers PROVE Unread(d)
    <3>1. call[d] \in Call
      BY <1>1 DEF CallsTypeOK
    <3>2. \/ call'[d] = call[d]
          \/ call'[d] = [call[d] EXCEPT !.attempt = 0, !.elapsed = 0]
      BY <1>5 DEF Send, Rethrow
    <3>3. call'[d].merged = call[d].merged /\ call'[d].pageCount = call[d].pageCount
      BY <3>1, <3>2 DEF Call
    <3>4. stage'[d] # "none" => stage[d] # "none"
      BY <1>5 DEF Send, Rethrow
    <3>5. QED
      BY <3>3, <3>4 DEF Unread
  <2>2. QED
    BY <1>2, <2>1
<1>6. ASSUME NEW c \in Callers, GetToken(c) PROVE \A d \in Callers : MergeOK(d)'
  BY <1>3, <1>5, <1>6 DEF GetToken
<1>7. ASSUME NEW t \in Tenants, Discovery(t) PROVE \A d \in Callers : MergeOK(d)'
  BY <1>3, <1>5, <1>7 DEF Discovery
<1>8. ASSUME NEW c \in Callers, Retry(c) PROVE \A d \in Callers : MergeOK(d)'
  BY <1>1, <1>2, <1>8 DEF Retry, Unread, CallsTypeOK
<1>9. CASE Tick
  <2>1. ASSUME NEW d \in Callers PROVE Unread(d)
    BY <1>1, <1>9, <2>1 DEF Tick, Unread, CallsTypeOK, Call
  <2>2. QED
    BY <1>2, <2>1
<1>10. CASE UNCHANGED vars
  BY <1>3, <1>10 DEF vars
<1>11. QED
  BY <1>3, <1>4, <1>6, <1>7, <1>8, <1>9, <1>10, MergeRespond DEF Next, CallStep, OpenSession

\* Whatever retries, throttling and new tokens come between, allValues holds the
\* values of every page read, once and in order.
THEOREM PagesStayInOrder == Spec => []PagesMergeInOrder
<1>1. Init => \A c \in Callers : MergeOK(c)
  BY NoPages DEF Init, MergeOK
<1>2. IInv /\ (\A c \in Callers : MergeOK(c)) /\ [Next]_vars => (\A c \in Callers : MergeOK(c))'
  BY MergeStep
<1>3. (\A c \in Callers : MergeOK(c)) => PagesMergeInOrder
  BY DEF MergeOK, Pages, PagesMergeInOrder
<1>4. QED
  BY <1>1, <1>2, <1>3, Inductive, PTL DEF Spec

\* saveOperatorCredentialIfAbsent: whoever saves, a stored secret is only ever
\* deleted, never replaced.
THEOREM SecretNeverOverwritten == Spec => NoSilentOverwrite
<1>1. IInv /\ [Next]_vars => [stored # None => stored' \in {stored, None}]_vars
  <2> SUFFICES ASSUME IInv, Next, stored # None PROVE stored' \in {stored, None}
    OBVIOUS
  <2>1. QED
    BY DEF Next, CallStep, OpenSession, CloseSession, getJson, Misuse, GetToken, Respond, Retry,
           Discovery, Tick, Open, Shut, Hit, Miss, GrantSucceeds, GrantFails, DiscoverySucceeds,
           DiscoveryFails, SaveSecret, DeleteSecret, Age, tokenVars
<1>2. QED
  BY <1>1, Inductive, PTL DEF Spec, NoSilentOverwrite
=============================================================================
