----------------------------- MODULE TokenCache -----------------------------
(***************************************************************************)
(* App-only authentication of the process: the operator's secret in the    *)
(* database, one discovered client per tenant (issuerClients), one cached  *)
(* token per tenant (tokenCache), and the callers that share them.  A      *)
(* caller is an assessment, which reads the secret once and then asks for  *)
(* a token before every page, or a verification, which mints its own.      *)
(*                                                                         *)
(* Time is relative: a token is the time left until it expires.  One       *)
(* resource is modelled; Power BI uses the same code with another key, and *)
(* so the same clients.  The identity provider is external: it may refuse  *)
(* any request.                                                            *)
(***************************************************************************)
EXTENDS Naturals

CONSTANTS
  Callers,
  Tenants,
  Secrets,   \* client secrets an operator may enter
  None,      \* no secret, no client, no token
  Margin,    \* TOKEN_EXPIRY_MARGIN_MS
  Lifetime   \* time to expiry of a token just minted

ASSUME TokenAssumption ==
  /\ Margin \in Nat
  /\ Lifetime \in Nat
  /\ Margin < Lifetime

VARIABLES
  stored,    \* the operator_credential row: its secret, or None
  issuerClients,
  tokenCache,
  pc,        \* idle, open, or awaiting discovery or grant
  session,   \* a caller's tenant, its secret, and whether it uses the cache
  client,    \* secret of the client a caller is granting with
  token      \* what a caller's latest request for a token returned

caches    == <<issuerClients, tokenCache>>
tokenVars == <<stored, caches, pc, session, client, token>>

Token   == 0..Lifetime
Client  == [secret : Secrets, state : {"discovering", "ready"}]
Session == [tenant : Tenants, secret : Secrets, cached : BOOLEAN]

ASSUME NoneAssumption == None \notin Secrets \cup Client \cup Session \cup Token

\* Type invariant; a caller that is not idle has a session.
TokenTypeOK ==
  /\ stored \in Secrets \cup {None}
  /\ issuerClients \in [Tenants -> Client \cup {None}]
  /\ tokenCache \in [Tenants -> Token \cup {None}]
  /\ pc \in [Callers -> {"idle", "open", "discovery", "grant"}]
  /\ session \in [Callers -> Session \cup {None}]
  /\ \A c \in Callers : (pc[c] = "idle") <=> (session[c] = None)
  /\ client \in [Callers -> Secrets \cup {None}]
  /\ token \in [Callers -> Token \cup {None}]

TokenInit ==
  /\ stored = None
  /\ issuerClients = [t \in Tenants |-> None]
  /\ tokenCache = [t \in Tenants |-> None]
  /\ pc = [c \in Callers |-> "idle"]
  /\ session = [c \in Callers |-> None]
  /\ client = [c \in Callers |-> None]
  /\ token = [c \in Callers |-> None]

-----------------------------------------------------------------------------
(* The operator.                                                           *)

\* Fault, for checking that the properties notice it: saving forgets every client,
\* those being discovered included.
SaveSecretFaultForget(s) ==
  /\ stored = None
  /\ stored' = s
  /\ issuerClients' = [t \in Tenants |-> None]
  /\ UNCHANGED <<tokenCache, pc, session, client, token>>

\* POST: saveOperatorCredentialIfAbsent.
SaveSecret(s) ==
  /\ stored = None
  /\ stored' = s
  /\ UNCHANGED <<caches, pc, session, client, token>>

\* DELETE: the first step of a rotation.
DeleteSecret ==
  /\ stored # None
  /\ stored' = None
  /\ UNCHANGED <<caches, pc, session, client, token>>

-----------------------------------------------------------------------------
(* A caller.                                                               *)

\* decryptOperatorSecret; throws if there is none.
Open(c, t, cached) ==
  /\ pc[c] = "idle"
  /\ stored # None
  /\ pc' = [pc EXCEPT ![c] = "open"]
  /\ session' = [session EXCEPT ![c] = [tenant |-> t, secret |-> stored, cached |-> cached]]
  /\ UNCHANGED <<stored, caches, client, token>>

Shut(c) ==
  /\ pc[c] = "open"
  /\ pc' = [pc EXCEPT ![c] = "idle"]
  /\ session' = [session EXCEPT ![c] = None]
  /\ token' = [token EXCEPT ![c] = None]
  /\ UNCHANGED <<stored, caches, client>>

\* Fault: reused until it expires.
IsFreshFault(t) == tokenCache[t] # None /\ tokenCache[t] > 0

\* The cached token outlives the margin.
IsFresh(t) == tokenCache[t] # None /\ tokenCache[t] > Margin

Reuses(c) == session[c].cached /\ IsFresh(session[c].tenant)

Hit(c) ==
  /\ pc[c] = "open"
  /\ Reuses(c)
  /\ token' = [token EXCEPT ![c] = tokenCache[session[c].tenant]]
  /\ UNCHANGED <<stored, caches, pc, session, client>>

\* getIssuerClient: the first caller of a tenant creates the client, with its
\* own secret; the others wait for it or find it ready.
Miss(c) ==
  LET t == session[c].tenant IN
  /\ pc[c] = "open"
  /\ ~Reuses(c)
  /\ token' = [token EXCEPT ![c] = None]
  /\ \/ /\ issuerClients[t] = None
        /\ issuerClients' = [issuerClients EXCEPT
                              ![t] = [secret |-> session[c].secret, state |-> "discovering"]]
        /\ pc' = [pc EXCEPT ![c] = "discovery"]
        /\ UNCHANGED client
     \/ /\ issuerClients[t] # None
        /\ issuerClients[t].state = "discovering"
        /\ pc' = [pc EXCEPT ![c] = "discovery"]
        /\ UNCHANGED <<issuerClients, client>>
     \/ /\ issuerClients[t] # None
        /\ issuerClients[t].state = "ready"
        /\ pc' = [pc EXCEPT ![c] = "grant"]
        /\ client' = [client EXCEPT ![c] = issuerClients[t].secret]
        /\ UNCHANGED issuerClients
  /\ UNCHANGED <<stored, tokenCache, session>>

IsDiscovering(t) == issuerClients[t] # None /\ issuerClients[t].state = "discovering"

Waiting(t) == {c \in Callers : pc[c] = "discovery" /\ session[c].tenant = t}

\* Issuer.discover resolves, and with it every caller that awaits it.
DiscoverySucceeds(t) ==
  /\ IsDiscovering(t)
  /\ issuerClients' = [issuerClients EXCEPT ![t].state = "ready"]
  /\ pc' = [c \in Callers |-> IF c \in Waiting(t) THEN "grant" ELSE pc[c]]
  /\ client' = [c \in Callers |-> IF c \in Waiting(t) THEN issuerClients[t].secret ELSE client[c]]
  /\ UNCHANGED <<stored, tokenCache, session, token>>

\* It rejects: the client is evicted, and every caller that awaits it throws.
DiscoveryFails(t) ==
  /\ IsDiscovering(t)
  /\ issuerClients' = [issuerClients EXCEPT ![t] = None]
  /\ pc' = [c \in Callers |-> IF c \in Waiting(t) THEN "open" ELSE pc[c]]
  /\ UNCHANGED <<stored, tokenCache, session, client, token>>

\* The grant is answered.  getTokenForResource stores the token; without an
\* expires_in its expiresAt is 0, and it is never reused.
GrantSucceeds(c) ==
  /\ pc[c] = "grant"
  /\ token' = [token EXCEPT ![c] = Lifetime]
  /\ IF session[c].cached
     THEN \E left \in {0, Lifetime} : tokenCache' = [tokenCache EXCEPT ![session[c].tenant] = left]
     ELSE UNCHANGED tokenCache
  /\ pc' = [pc EXCEPT ![c] = "open"]
  /\ client' = [client EXCEPT ![c] = None]
  /\ UNCHANGED <<stored, issuerClients, session>>

\* Refused, unreachable, or an answer without access_token; nothing is cached.
GrantFails(c) ==
  /\ pc[c] = "grant"
  /\ pc' = [pc EXCEPT ![c] = "open"]
  /\ client' = [client EXCEPT ![c] = None]
  /\ UNCHANGED <<stored, caches, session, token>>

-----------------------------------------------------------------------------
Older(tok) == IF tok \in 1..Lifetime THEN tok - 1 ELSE tok

\* Time passes for every token.
Age ==
  /\ tokenCache' = [t \in Tenants |-> Older(tokenCache[t])]
  /\ token' = [c \in Callers |-> Older(token[c])]
  /\ UNCHANGED <<stored, issuerClients, pc, session, client>>
=============================================================================
