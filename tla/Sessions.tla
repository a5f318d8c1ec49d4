------------------------------ MODULE Sessions ------------------------------
(***************************************************************************)
(* Sign-in and sessions: the OIDC round trip of several tabs that share    *)
(* one browser's cookies, the session rows behind the session cookie, and  *)
(* sign-out.  A handler is split where it awaits the network.              *)
(*                                                                         *)
(* Attempts and sessions are numbered in order of creation.  The cookie    *)
(* holds the state and the PKCE verifier of one attempt, signed together;  *)
(* the page at the provider comes back with the state and the code of its  *)
(* own attempt.                                                            *)
(***************************************************************************)
EXTENDS Integers

CONSTANTS
  Users,       \* accounts of the identity provider with work or school tenants
  Tabs,        \* browser tabs
  MaxAttempts  \* bound on sign-in attempts

ASSUME SessionsAssumption == MaxAttempts \in Nat

VARIABLES
  client,    \* clientPromise of entra-client.ts: none, ready or rejected
  oidc,      \* the OIDC state cookie: an attempt, or 0
  attempts,  \* attempts begun
  signing,   \* what each tab's sign-in is doing
  cookie,    \* the session cookie: a session, or 0
  sessions,  \* rows of sessions: the account of each, none once deleted or expired
  codes,     \* at the provider: the account each attempt's code stands for
  answered   \* the attempts of which a callback has been answered

sessionVars == <<client, oidc, attempts, signing, cookie, sessions, codes, answered>>

None    == "none"
Spent   == "spent"
Attempt == 1..MaxAttempts
NoSign  == [at |-> "idle", n |-> 0, verifier |-> 0]

\* The attempt whose state and code the tab carries, and the verifier its callback
\* has read from the cookie.
Signing(last) ==
  [at : {"idle", "provider", "exchanging"}, n : 0..last, verifier : 0..last]

SessionsTypeOK ==
  /\ client \in {"none", "ready", "rejected"}
  /\ oidc \in 0..attempts
  /\ attempts \in 0..MaxAttempts
  /\ signing \in [Tabs -> Signing(attempts)]
  /\ cookie \in 0..attempts
  /\ sessions \in [Attempt -> Users \cup {None}]
  /\ codes \in [Attempt -> Users \cup {None, Spent}]
  /\ answered \subseteq 1..attempts

SessionsInit ==
  /\ client = "none"
  /\ oidc = 0
  /\ attempts = 0
  /\ signing = [t \in Tabs |-> NoSign]
  /\ cookie = 0
  /\ sessions = [n \in Attempt |-> None]
  /\ codes = [n \in Attempt |-> None]
  /\ answered = {}

\* getSession: the account of the row the cookie names.
who == IF cookie = 0 THEN None ELSE sessions[cookie]

-----------------------------------------------------------------------------
(* GET /api/auth/signin *)

\* The first use discovers the provider; a failed discovery is remembered too.
getClient ==
  \/ client # "none" /\ UNCHANGED client
  \/ client = "none" /\ client' \in {"ready", "rejected"}

\* The attempt replaces whatever state the browser's cookie held.
SignIn(t) ==
  /\ signing[t].at = "idle" /\ attempts < MaxAttempts
  /\ getClient
  /\ IF client' = "ready"
     THEN /\ attempts' = attempts + 1
          /\ oidc' = attempts'
          /\ signing' = [signing EXCEPT ![t] = [at |-> "provider", n |-> attempts',
                                                 verifier |-> 0]]
     ELSE UNCHANGED <<attempts, oidc, signing>>
  /\ UNCHANGED <<cookie, sessions, codes, answered>>

-----------------------------------------------------------------------------
(* GET /api/auth/callback *)

\* Every exit clears the state cookie, whatever attempt it has come to hold.
finishSignIn(t, n) ==
  /\ oidc' = 0
  /\ answered' = answered \cup {n}
  /\ signing' = [signing EXCEPT ![t] = NoSign]

\* Seeded fault: the state that comes back is not compared with the cookie's.
CallbackFault(t, n, code) ==
  IF oidc # 0 /\ code
  THEN /\ signing' = [signing EXCEPT ![t] = [at |-> "exchanging", n |-> n, verifier |-> oidc]]
       /\ getClient
       /\ UNCHANGED <<oidc, answered>>
  ELSE /\ finishSignIn(t, n)
       /\ UNCHANGED client

\* The request comes with the state of attempt n, and a code or none: it is turned
\* away unless the state is the cookie's, whose verifier the exchange then uses.
Callback(t, n, code) ==
  IF oidc = n /\ code
  THEN /\ signing' = [signing EXCEPT ![t] = [at |-> "exchanging", n |-> n, verifier |-> oidc]]
       /\ getClient
       /\ UNCHANGED <<oidc, answered>>
  ELSE /\ finishSignIn(t, n)
       /\ UNCHANGED client

\* An account authenticates at the provider and gets a code, or none does.
SignInReturns(t) ==
  LET n == signing[t].n IN
  /\ signing[t].at = "provider"
  /\ \E u \in Users \cup {None} :
       /\ codes' = [codes EXCEPT ![n] = u]
       /\ Callback(t, n, u # None)
  /\ UNCHANGED <<attempts, cookie, sessions>>

\* A tab loads again, from its history or because no answer came, the address that
\* an attempt had come back to.
Reload(t) ==
  /\ signing[t].at = "idle"
  /\ \E n \in Attempt :
       /\ n \in answered \/ codes[n] # None
       /\ Callback(t, n, codes[n] # None)
  /\ UNCHANGED <<attempts, cookie, sessions, codes>>

\* The provider redeems a code once, and only against the verifier of its attempt;
\* user row and session are written, the cookie is set.
SignInCompletes(t) ==
  LET n == signing[t].n IN
  /\ signing[t].at = "exchanging" /\ client = "ready"
  /\ codes[n] \in Users /\ signing[t].verifier = n
  /\ codes' = [codes EXCEPT ![n] = Spent]
  /\ sessions' = [sessions EXCEPT ![n] = codes[n]]
  /\ cookie' = n
  /\ finishSignIn(t, n)
  /\ UNCHANGED <<client, attempts>>

\* A code may be spent without a session to show for it.
MayBeSpent(ns) ==
  \E spent \in SUBSET ns :
    codes' = [n \in Attempt |-> IF n \in spent THEN Spent ELSE codes[n]]

\* The exchange fails, the account is a personal one, or claims are missing.
SignInFails(t) ==
  /\ signing[t].at = "exchanging"
  /\ MayBeSpent({signing[t].n})
  /\ finishSignIn(t, signing[t].n)
  /\ UNCHANGED <<client, attempts, cookie, sessions>>

-----------------------------------------------------------------------------
(* Sign-out, expiry, restart *)

\* POST /api/auth/signout: the row and the cookie go.
SignOut ==
  /\ cookie # 0
  /\ sessions' = [sessions EXCEPT ![cookie] = None]
  /\ cookie' = 0
  /\ UNCHANGED <<client, oidc, attempts, signing, codes, answered>>

\* Time passes: the session is past its seven days, or the state past its ten
\* minutes.
ExpireSession ==
  /\ who # None
  /\ sessions' = [sessions EXCEPT ![cookie] = None]
  /\ UNCHANGED <<client, oidc, attempts, signing, cookie, codes, answered>>

ExpireOidcState ==
  /\ oidc # 0 /\ oidc' = 0
  /\ UNCHANGED <<client, attempts, signing, cookie, sessions, codes, answered>>

\* Rows and cookies survive a restart; the client and requests under way do not.
SessionsRestart ==
  /\ client' = "none"
  /\ signing' = [t \in Tabs |-> IF signing[t].at = "exchanging" THEN NoSign ELSE signing[t]]
  /\ MayBeSpent({signing[t].n : t \in {s \in Tabs : signing[s].at = "exchanging"}})
  /\ UNCHANGED <<oidc, attempts, cookie, sessions, answered>>

SessionStep(t) ==
  SignIn(t) \/ SignInReturns(t) \/ Reload(t) \/ SignInCompletes(t) \/ SignInFails(t)

-----------------------------------------------------------------------------
(* Property *)

\* callback/route.ts:22 and :54: a state is consumed once.  Whatever the tabs start,
\* bring back or load again, only the last attempt goes on to an exchange, before any
\* answer of it, with its own verifier; an attempt that was superseded, answered or
\* has expired is turned away.
OnlyFreshIsExchanged ==
  [][\A t \in Tabs :
       signing[t].at # "exchanging" /\ signing'[t].at = "exchanging" =>
         /\ signing'[t].n = attempts /\ signing'[t].n \notin answered
         /\ signing'[t].verifier = signing'[t].n]_sessionVars
=============================================================================
