----------------------- MODULE TenantConnectionProofs -----------------------
(***************************************************************************)
(* Theorems about Sessions and TenantConnection for any accounts, tabs and *)
(* tenants, any roles, and any number of sign-ins and connects.            *)
(***************************************************************************)
EXTENDS TenantConnection, SequenceTheorems, TLAPS

-----------------------------------------------------------------------------
(* Sign-in: the inductive invariant.  Every answer clears the cookie and   *)
(* every sign-in replaces it, so that what it holds is the last attempt,   *)
(* not answered yet.                                                       *)

CookieIsFresh == oidc # 0 => oidc = attempts /\ oidc \notin answered

\* A tab at the provider, and one whose code is exchanged, carries an attempt.
OwnAttempts == \A t \in Tabs : signing[t].at # "idle" => signing[t].n \in 1..attempts

\* An attempt that has come back has begun.
CodesBegan == \A n \in Attempt : codes[n] # None => n <= attempts

SInv == SessionsTypeOK /\ CookieIsFresh /\ OwnAttempts /\ CodesBegan

LEMMA SessionsInitOK == SessionsInit => SInv
BY SessionsAssumption
   DEF SessionsInit, SInv, SessionsTypeOK, CookieIsFresh, OwnAttempts, CodesBegan, NoSign, Signing,
       Attempt

\* The attempt of a tab is a row of the tables.
LEMMA AttemptType ==
  ASSUME SInv
  PROVE  /\ attempts \in Nat /\ MaxAttempts \in Nat /\ attempts <= MaxAttempts
         /\ \A n \in 1..attempts : n \in Attempt
BY SessionsAssumption DEF SInv, SessionsTypeOK, Attempt

LEMMA SignInStep ==
  ASSUME SInv, NEW t \in Tabs, SignIn(t)
  PROVE  SInv'
<1>1. CASE client' # "ready"
  <2>1. UNCHANGED <<oidc, attempts, signing, cookie, sessions, codes, answered>>
    BY <1>1 DEF SignIn
  <2>2. client' \in {"none", "ready", "rejected"}
    BY DEF SignIn, getClient, SInv, SessionsTypeOK
  <2>3. QED
    BY <2>1, <2>2 DEF SInv, SessionsTypeOK, CookieIsFresh, OwnAttempts, CodesBegan
<1>2. CASE client' = "ready"
  <2> DEFINE new == [at |-> "provider", n |-> attempts', verifier |-> 0]
  <2>1. /\ attempts \in Nat /\ attempts' = attempts + 1 /\ attempts' \in 0..MaxAttempts
        /\ oidc' = attempts' /\ UNCHANGED <<cookie, sessions, codes, answered>>
        /\ signing' = [signing EXCEPT ![t] = new]
    BY <1>2, AttemptType DEF SignIn
  <2>2. 0..attempts \subseteq 0..attempts' /\ 1..attempts \subseteq 1..attempts'
    BY <2>1
  <2>3. signing' \in [Tabs -> Signing(attempts')]
    <3>1. signing \in [Tabs -> Signing(attempts')]
      BY <2>2 DEF SInv, SessionsTypeOK, Signing
    <3>2. new \in Signing(attempts')
      BY <2>1 DEF Signing
    <3>3. QED
      BY <2>1, <3>1, <3>2
  <2>4. SessionsTypeOK'
    <3>1. cookie \in 0..attempts' /\ answered \subseteq 1..attempts'
      BY <2>2 DEF SInv, SessionsTypeOK
    <3>2. QED
      BY <1>2, <2>1, <2>3, <3>1 DEF SInv, SessionsTypeOK
  <2>5. CookieIsFresh'
    BY <2>1 DEF SInv, SessionsTypeOK, CookieIsFresh
  <2>6. OwnAttempts'
    BY <2>1, <2>2 DEF SInv, SessionsTypeOK, OwnAttempts
  <2>7. CodesBegan'
    BY <2>1 DEF SInv, CodesBegan, Attempt
  <2>8. QED
    BY <2>4, <2>5, <2>6, <2>7 DEF SInv
<1>3. QED
  BY <1>1, <1>2

\* A callback goes on, with the attempt that the cookie holds, or is answered.
LEMMA CallbackStep ==
  ASSUME SInv, NEW t \in Tabs, NEW n \in 1..attempts, NEW code, Callback(t, n, code),
         UNCHANGED <<attempts, cookie, sessions>>,
         codes' \in [Attempt -> Users \cup {None, Spent}], CodesBegan'
  PROVE  SInv'
<1> DEFINE new == [at |-> "exchanging", n |-> n, verifier |-> oidc]
<1>1. n \in 0..attempts /\ attempts \in Nat /\ oidc \in 0..attempts
  BY AttemptType DEF SInv, SessionsTypeOK
<1>2. CASE oidc = n /\ code
  <2>1. /\ signing' = [signing EXCEPT ![t] = new] /\ UNCHANGED <<oidc, answered>>
        /\ client' \in {"none", "ready", "rejected"}
    BY <1>2 DEF Callback, getClient, SInv, SessionsTypeOK
  <2>2. new \in Signing(attempts)
    BY <1>1 DEF Signing
  <2>3. SessionsTypeOK'
    BY <2>1, <2>2 DEF SInv, SessionsTypeOK
  <2>4. QED
    BY <2>1, <2>3 DEF SInv, SessionsTypeOK, CookieIsFresh, OwnAttempts
<1>3. CASE ~(oidc = n /\ code)
  <2>1. /\ signing' = [signing EXCEPT ![t] = NoSign] /\ oidc' = 0
        /\ answered' = answered \cup {n} /\ UNCHANGED client
    BY <1>3 DEF Callback, finishSignIn
  <2>2. NoSign \in Signing(attempts) /\ NoSign.at = "idle"
    BY <1>1 DEF Signing, NoSign
  <2>3. SessionsTypeOK'
    BY <1>1, <2>1, <2>2 DEF SInv, SessionsTypeOK
  <2>4. QED
    BY <2>1, <2>2, <2>3 DEF SInv, SessionsTypeOK, CookieIsFresh, OwnAttempts
<1>4. QED
  BY <1>2, <1>3

LEMMA SignInReturnsStep ==
  ASSUME SInv, NEW t \in Tabs, SignInReturns(t)
  PROVE  SInv'
<1>1. PICK u \in Users \cup {None} :
        /\ codes' = [codes EXCEPT ![signing[t].n] = u]
        /\ Callback(t, signing[t].n, u # None)
  BY DEF SignInReturns
<1>2. signing[t].n \in 1..attempts /\ UNCHANGED <<attempts, cookie, sessions>>
  BY DEF SignInReturns, SInv, OwnAttempts
<1>3. codes' \in [Attempt -> Users \cup {None, Spent}]
  BY <1>1 DEF SInv, SessionsTypeOK
<1>4. CodesBegan'
  BY <1>1, <1>2, AttemptType DEF SInv, SessionsTypeOK, CodesBegan
<1>5. QED
  BY <1>1, <1>2, <1>3, <1>4, CallbackStep

LEMMA ReloadStep ==
  ASSUME SInv, NEW t \in Tabs, Reload(t)
  PROVE  SInv'
<1>1. PICK n \in Attempt : /\ n \in answered \/ codes[n] # None
                           /\ Callback(t, n, codes[n] # None)
  BY DEF Reload
<1>2. n \in 1..attempts
  BY <1>1, AttemptType DEF SInv, SessionsTypeOK, CodesBegan, Attempt
<1>3. UNCHANGED <<attempts, cookie, sessions, codes>>
  BY DEF Reload
<1>4. QED
  BY <1>1, <1>2, <1>3, CallbackStep DEF SInv, SessionsTypeOK, CodesBegan

LEMMA SignInCompletesStep ==
  ASSUME SInv, NEW t \in Tabs, SignInCompletes(t)
  PROVE  SInv'
<1> DEFINE n == signing[t].n
<1>1. /\ n \in 1..attempts /\ n \in Attempt /\ n \in 0..attempts /\ codes[n] \in Users
      /\ codes' = [codes EXCEPT ![n] = Spent]
      /\ sessions' = [sessions EXCEPT ![n] = codes[n]] /\ cookie' = n /\ oidc' = 0
      /\ answered' = answered \cup {n}
      /\ signing' = [signing EXCEPT ![t] = NoSign] /\ UNCHANGED <<client, attempts>>
  BY AttemptType DEF SInv, OwnAttempts, SignInCompletes, finishSignIn
<1>2. NoSign \in Signing(attempts) /\ NoSign.at = "idle" /\ 0 \in 0..attempts
  BY AttemptType DEF NoSign, Signing
<1>3. SessionsTypeOK'
  BY <1>1, <1>2 DEF SInv, SessionsTypeOK
<1>4. CodesBegan'
  BY <1>1, AttemptType DEF SInv, SessionsTypeOK, CodesBegan
<1>5. QED
  BY <1>1, <1>2, <1>3, <1>4 DEF SInv, SessionsTypeOK, CookieIsFresh, OwnAttempts

LEMMA SpentStep ==
  ASSUME SInv, UNCHANGED attempts, NEW ns \in SUBSET (1..attempts), MayBeSpent(ns)
  PROVE  codes' \in [Attempt -> Users \cup {None, Spent}] /\ CodesBegan'
<1>1. PICK spent \in SUBSET ns :
        codes' = [n \in Attempt |-> IF n \in spent THEN Spent ELSE codes[n]]
  BY DEF MayBeSpent
<1>2. \A n \in spent : n <= attempts
  BY AttemptType
<1>3. codes' \in [Attempt -> Users \cup {None, Spent}]
  BY <1>1 DEF SInv, SessionsTypeOK
<1>4. CodesBegan'
  BY <1>1, <1>2 DEF SInv, CodesBegan
<1>5. QED
  BY <1>3, <1>4

LEMMA SignInFailsStep ==
  ASSUME SInv, NEW t \in Tabs, SignInFails(t)
  PROVE  SInv'
<1> DEFINE n == signing[t].n
<1>1. n \in 1..attempts /\ MayBeSpent({n})
  BY DEF SignInFails, SInv, OwnAttempts
<1>2. /\ oidc' = 0 /\ answered' = answered \cup {n}
      /\ signing' = [signing EXCEPT ![t] = NoSign]
      /\ UNCHANGED <<client, attempts, cookie, sessions>>
  BY DEF SignInFails, finishSignIn
<1> HIDE DEF n
<1>3. codes' \in [Attempt -> Users \cup {None, Spent}] /\ CodesBegan'
  BY <1>1, <1>2, SpentStep
<1>4. NoSign \in Signing(attempts) /\ NoSign.at = "idle" /\ 0 \in 0..attempts
  BY AttemptType DEF NoSign, Signing
<1>5. SessionsTypeOK'
  BY <1>1, <1>2, <1>3, <1>4 DEF SInv, SessionsTypeOK
<1>6. QED
  BY <1>2, <1>3, <1>4, <1>5 DEF SInv, SessionsTypeOK, CookieIsFresh, OwnAttempts

LEMMA RestartStep ==
  ASSUME SInv, SessionsRestart
  PROVE  SInv'
<1> DEFINE ns == {signing[t].n : t \in {s \in Tabs : signing[s].at = "exchanging"}}
<1>1. ns \subseteq 1..attempts /\ MayBeSpent(ns)
  BY DEF SessionsRestart, SInv, OwnAttempts
<1>2. /\ client' = "none" /\ UNCHANGED <<oidc, attempts, cookie, sessions, answered>>
      /\ signing' = [t \in Tabs |-> IF signing[t].at = "exchanging" THEN NoSign
                                    ELSE signing[t]]
  BY DEF SessionsRestart
<1> HIDE DEF ns
<1>3. codes' \in [Attempt -> Users \cup {None, Spent}] /\ CodesBegan'
  BY <1>1, <1>2, SpentStep
<1>4. NoSign \in Signing(attempts) /\ NoSign.at = "idle"
  BY AttemptType DEF NoSign, Signing
<1>5. SessionsTypeOK'
  BY <1>2, <1>3, <1>4 DEF SInv, SessionsTypeOK
<1>6. QED
  BY <1>2, <1>3, <1>4, <1>5 DEF SInv, SessionsTypeOK, CookieIsFresh, OwnAttempts

\* Sessions and states that end.
LEMMA SessionEndsStep ==
  ASSUME SInv, SignOut \/ ExpireSession \/ ExpireOidcState
  PROVE  SInv'
<1>1. UNCHANGED <<client, attempts, signing, codes, answered>> /\ (oidc' = oidc \/ oidc' = 0)
  BY DEF SignOut, ExpireSession, ExpireOidcState
<1>2. cookie' \in 0..attempts /\ sessions' \in [Attempt -> Users \cup {None}] /\ 0 \in 0..attempts
  BY AttemptType DEF SInv, SessionsTypeOK, SignOut, ExpireSession, ExpireOidcState
<1>3. SessionsTypeOK'
  BY <1>1, <1>2 DEF SInv, SessionsTypeOK
<1>4. QED
  BY <1>1, <1>3 DEF SInv, CookieIsFresh, OwnAttempts, CodesBegan

LEMMA SInvUnchanged ==
  ASSUME SInv, UNCHANGED sessionVars
  PROVE  SInv'
BY DEF SInv, SessionsTypeOK, CookieIsFresh, OwnAttempts, CodesBegan, sessionVars

\* The requests about tenants leave sign-ins and sessions alone.
LEMMA FlowKeepsSessions ==
  ASSUME NEW t \in Tabs, FlowStep(t)
  PROVE  UNCHANGED sessionVars
<1>1. CASE Connect(t) \/ Decline(t) \/ Consented(t) \/ Replace(t)
  BY <1>1 DEF Connect, Decline, Consented, Replace
<1>2. CASE Verify(t) \/ MintFails(t) \/ Update(t)
  BY <1>2 DEF Verify, MintFails, Ended, Update
<1>3. CASE Check(t)
  <2>1. \E outcome : Ended(t, outcome)
    BY <1>3 DEF Check
  <2>2. QED
    BY <2>1 DEF Ended
<1>4. CASE ReadStatus(t) \/ CreateRun(t)
  BY <1>4 DEF ReadStatus, CreateRun
<1>5. QED
  BY <1>1, <1>2, <1>3, <1>4 DEF FlowStep

LEMMA SInvStep == SInv /\ [Next]_vars => SInv'
<1> SUFFICES ASSUME SInv, [Next]_vars PROVE SInv'
  OBVIOUS
<1>1. CASE SessionNext
  <2>1. ASSUME NEW t \in Tabs, SessionStep(t) PROVE SInv'
    BY <2>1, SignInStep, SignInReturnsStep, ReloadStep, SignInCompletesStep, SignInFailsStep
       DEF SessionStep
  <2>2. QED
    BY <1>1, <2>1, SessionEndsStep DEF SessionNext
<1>2. CASE Restart
  BY <1>2, RestartStep DEF Restart
<1>3. ASSUME NEW t \in Tabs, FlowStep(t) PROVE UNCHANGED sessionVars
  BY <1>3, FlowKeepsSessions
<1>4. CASE Disconnect \/ SaveCredential \/ DeleteCredential \/ ExpireConnectState
  BY <1>4, SInvUnchanged DEF Disconnect, SaveCredential, DeleteCredential, ExpireConnectState
<1>5. CASE UNCHANGED vars
  BY <1>5, SInvUnchanged DEF vars
<1>6. QED
  BY <1>1, <1>2, <1>3, <1>4, <1>5, SInvUnchanged DEF Next

\* The sign-in part of the state, with what ties the cookie to the last attempt.
THEOREM SessionsInductive == Spec => []SInv
BY SessionsInitOK, SInvStep, PTL DEF Spec, Init

\* A callback that goes on to the exchange has the state of the last attempt.
LEMMA ExchangedIsFresh ==
  ASSUME SInv, NEW t \in Tabs, NEW n \in 1..attempts, NEW code, Callback(t, n, code),
         NEW s \in Tabs, signing[s].at # "exchanging", signing'[s].at = "exchanging"
  PROVE  signing'[s].n = attempts /\ signing'[s].n \notin answered
         /\ signing'[s].verifier = signing'[s].n
<1>1. CASE oidc = n /\ code
  <2>1. signing' = [signing EXCEPT ![t] = [at |-> "exchanging", n |-> n, verifier |-> oidc]]
    BY <1>1 DEF Callback
  <2>2. s = t
    BY <2>1 DEF SInv, SessionsTypeOK
  <2>3. n # 0 /\ attempts \in Nat
    BY AttemptType
  <2>4. QED
    BY <1>1, <2>1, <2>2, <2>3 DEF SInv, SessionsTypeOK, CookieIsFresh
<1>2. CASE ~(oidc = n /\ code)
  BY <1>2 DEF Callback, finishSignIn, SInv, SessionsTypeOK, NoSign
<1>3. QED
  BY <1>1, <1>2

\* Whatever the tabs start, bring back or load again, a state that was superseded,
\* answered or has expired is turned away.
THEOREM StatesAreSingleUse == Spec => OnlyFreshIsExchanged
<1> DEFINE Fresh(t) ==
             signing[t].at # "exchanging" /\ signing'[t].at = "exchanging" =>
               /\ signing'[t].n = attempts /\ signing'[t].n \notin answered
               /\ signing'[t].verifier = signing'[t].n
<1>1. ASSUME SInv, [Next]_vars, NEW s \in Tabs PROVE Fresh(s)
  <2> SUFFICES ASSUME signing[s].at # "exchanging", signing'[s].at = "exchanging"
               PROVE  /\ signing'[s].n = attempts /\ signing'[s].n \notin answered
                      /\ signing'[s].verifier = signing'[s].n
    OBVIOUS
  <2>1. ASSUME NEW t \in Tabs, SessionStep(t)
        PROVE  /\ signing'[s].n = attempts /\ signing'[s].n \notin answered
               /\ signing'[s].verifier = signing'[s].n
    <3>1. CASE SignInReturns(t)
      <4>1. PICK u : Callback(t, signing[t].n, u # None)
        BY <3>1 DEF SignInReturns
      <4>2. signing[t].n \in 1..attempts
        BY <1>1, <3>1 DEF SignInReturns, SInv, OwnAttempts
      <4>3. QED
        BY <1>1, <4>1, <4>2, ExchangedIsFresh
    <3>2. CASE Reload(t)
      <4>1. PICK n \in Attempt : /\ n \in answered \/ codes[n] # None
                                 /\ Callback(t, n, codes[n] # None)
        BY <3>2 DEF Reload
      <4>2. n \in 1..attempts
        BY <1>1, <4>1, AttemptType DEF SInv, SessionsTypeOK, CodesBegan, Attempt
      <4>3. QED
        BY <1>1, <4>1, <4>2, ExchangedIsFresh
    <3>3. CASE SignIn(t) \/ SignInCompletes(t) \/ SignInFails(t)
      BY <1>1, <3>3 DEF SignIn, SignInCompletes, SignInFails, finishSignIn, SInv, SessionsTypeOK,
                        NoSign
    <3>4. QED
      BY <2>1, <3>1, <3>2, <3>3 DEF SessionStep
  <2>2. CASE SignOut \/ ExpireSession \/ ExpireOidcState
    BY <2>2 DEF SignOut, ExpireSession, ExpireOidcState
  <2>3. CASE Restart
    BY <1>1, <2>3 DEF Restart, SessionsRestart, SInv, SessionsTypeOK, NoSign
  <2>4. CASE Disconnect \/ SaveCredential \/ DeleteCredential \/ ExpireConnectState
             \/ UNCHANGED vars
    BY <2>4 DEF Disconnect, SaveCredential, DeleteCredential, ExpireConnectState, vars,
                sessionVars
  <2>5. ASSUME NEW t \in Tabs, FlowStep(t) PROVE signing' = signing
    BY <2>5, FlowKeepsSessions DEF sessionVars
  <2>6. QED
    BY <1>1, <2>1, <2>2, <2>3, <2>4, <2>5 DEF Next, SessionNext
<1>2. SInv /\ [Next]_vars => [\A t \in Tabs : Fresh(t)]_sessionVars
  BY <1>1
<1>3. QED
  BY <1>2, SessionsInductive, PTL DEF Spec, OnlyFreshIsExchanged

-----------------------------------------------------------------------------
(* Connecting: the inductive invariant.                                    *)

HasStarted(u) == \E i \in 1..Len(started) : started[i] = u

\* The state cookie, and a callback under way, are of an account that started a
\* connect; what else a tab does with a tenant is of an account that has been
\* connected to it.
FlowOK(state) ==
  /\ state.at \in {"asking", "writing"} /\ state.for = "callback" => HasStarted(state.user)
  /\ state.at \in {"asking", "writing"} /\ state.for = "verify"
       => <<state.user, state.tenant>> \in connected
  /\ state.at = "writing" => (state.status = "all_granted" <=> state.proved)
  /\ state.at = "gated" => <<state.user, state.tenant>> \in connected /\ state.proved

Proved(row) == row.status = "all_granted" <=> row.proved

RowsOK ==
  \A u \in Users : connection[u] # NoRow =>
    /\ HasStarted(u) /\ <<u, connection[u].tenant>> \in connected
    /\ Proved(connection[u])

CInv ==
  /\ ConnectionTypeOK
  /\ connect # None => HasStarted(connect)
  /\ \A t \in Tabs : FlowOK(flow[t])
  /\ RowsOK
  /\ RunsAreOwn

LEMMA FlowType ==
  ASSUME NEW state \in Flow
  PROVE  /\ state.at = "asking" => state \in Asking
         /\ state.at = "writing" => state \in Writing
         /\ state.at = "gated" => state \in Gating
BY DEF Flow, Asking, Writing, Gating, NoFlow

\* The account of a session, and the account's row.
LEMMA WhoType ==
  ASSUME SInv, CInv, who # None
  PROVE  /\ who \in Users
         /\ connection[who] # NoRow => connection[who].tenant \in Tenants
<1>1. cookie = 0 \/ cookie \in Attempt
  BY AttemptType DEF SInv, SessionsTypeOK
<1>2. who \in Users
  BY <1>1 DEF who, SInv, SessionsTypeOK
<1>3. QED
  BY <1>2 DEF CInv, ConnectionTypeOK, Row

LEMMA StartedStays ==
  ASSUME started \in Seq(Users), NEW v \in Users, started' = Append(started, v)
  PROVE  /\ \A u \in Users : HasStarted(u) => HasStarted(u)'
         /\ HasStarted(v)'
         /\ started' \in Seq(Users)
<1>1. /\ Len(started) \in Nat /\ Len(started') = Len(started) + 1 /\ started' \in Seq(Users)
      /\ \A i \in 1..Len(started) : started'[i] = started[i]
      /\ started'[Len(started) + 1] = v
  BY AppendProperties, LenProperties
<1>2. 1..Len(started) \subseteq 1..Len(started') /\ Len(started) + 1 \in 1..Len(started')
  BY <1>1
<1>3. QED
  BY <1>1, <1>2 DEF HasStarted

\* What a request may do does not change with what other requests have done.
LEMMA FlowStays ==
  ASSUME connected \subseteq connected', \A u \in Users : HasStarted(u) => HasStarted(u)',
         NEW state \in Flow, FlowOK(state)
  PROVE  FlowOK(state)'
BY FlowType DEF FlowOK, Asking, Writing, Gating

\* What one tab does leaves the other tabs' requests as they are.
LEMMA GotoStep ==
  ASSUME CInv, NEW t \in Tabs, NEW state \in Flow, Goto(t, state),
         connected \subseteq connected', \A u \in Users : HasStarted(u) => HasStarted(u)',
         FlowOK(state)'
  PROVE  flow' \in [Tabs -> Flow] /\ \A s \in Tabs : FlowOK(flow[s])'
<1>1. /\ flow' \in [Tabs -> Flow] /\ flow'[t] = state
      /\ \A s \in Tabs \ {t} : flow'[s] = flow[s]
  BY DEF CInv, ConnectionTypeOK, Goto
<1>2. \A other \in Flow : FlowOK(other) => FlowOK(other)'
  BY FlowStays
<1>3. \A s \in Tabs : flow[s] \in Flow /\ FlowOK(flow[s])
  BY DEF CInv, ConnectionTypeOK
<1>4. ASSUME NEW s \in Tabs, NEW new \in Flow, new = flow'[s] PROVE FlowOK(new)'
  <2>1. CASE s = t
    BY <1>1, <1>4, <2>1
  <2>2. CASE s # t
    BY <1>1, <1>2, <1>3, <1>4, <2>2
  <2>3. QED
    BY <2>1, <2>2
<1>5. ASSUME NEW s \in Tabs PROVE FlowOK(flow[s])'
  <2>1. flow'[s] \in Flow
    BY <1>1
  <2>2. QED
    BY <1>4, <2>1 DEF FlowOK
<1>6. QED
  BY <1>1, <1>5

\* An idle tab, and one whose page is at Microsoft, are always right.
LEMMA QuietFlow ==
  /\ NoFlow \in Flow /\ FlowOK(NoFlow)
  /\ [at |-> "consenting"] \in Flow /\ FlowOK([at |-> "consenting"])
BY DEF Flow, NoFlow, FlowOK

LEMMA SteadyGoto ==
  ASSUME CInv, NEW t \in Tabs, NEW state \in Flow, FlowOK(state), Goto(t, state),
         UNCHANGED <<started, connected>>
  PROVE  flow' \in [Tabs -> Flow] /\ \A s \in Tabs : FlowOK(flow[s])'
<1>1. connected \subseteq connected' /\ \A u \in Users : HasStarted(u) => HasStarted(u)'
  BY DEF HasStarted
<1>2. QED
  BY <1>1, FlowStays, GotoStep

\* A step that starts, connects and runs nothing, and writes no other tenant's row.
LEMMA SteadyStep ==
  ASSUME SInv', CInv, UNCHANGED <<started, connected, runs>>,
         connect' = connect \/ connect' = None, configured' \in BOOLEAN,
         flow' \in [Tabs -> Flow], \A s \in Tabs : FlowOK(flow[s])',
         connection' \in [Users -> Row \cup {NoRow}],
         \A u \in Users : connection'[u] # NoRow =>
           /\ connection[u] # NoRow /\ connection'[u].tenant = connection[u].tenant
           /\ Proved(connection[u]) => Proved(connection'[u])
  PROVE  CInv'
<1>1. ConnectionTypeOK'
  BY DEF CInv, ConnectionTypeOK, SInv
<1>2. RowsOK'
  BY DEF CInv, RowsOK, HasStarted
<1>3. connect' # None => HasStarted(connect)'
  BY DEF CInv, HasStarted
<1>4. RunsAreOwn'
  BY DEF CInv, RunsAreOwn
<1>5. QED
  BY <1>1, <1>2, <1>3, <1>4 DEF CInv

\* A step of one tab's request that writes no row.
LEMMA RequestStep ==
  ASSUME SInv', CInv, NEW t \in Tabs, NEW state \in Flow, FlowOK(state), Goto(t, state),
         UNCHANGED <<connection, configured, started, connected, runs>>,
         connect' = connect \/ connect' = None
  PROVE  CInv'
<1>1. flow' \in [Tabs -> Flow] /\ \A s \in Tabs : FlowOK(flow[s])'
  BY SteadyGoto
<1>2. connection' \in [Users -> Row \cup {NoRow}] /\ configured' \in BOOLEAN
  BY DEF CInv, ConnectionTypeOK
<1>3. QED
  BY <1>1, <1>2, SteadyStep

LEMMA ConnectStep ==
  ASSUME SInv, SInv', CInv, NEW t \in Tabs, Connect(t)
  PROVE  CInv'
<1>1. who \in Users /\ connect' = who /\ started' = Append(started, who)
  BY WhoType DEF Connect
<1>2. started \in Seq(Users) /\ UNCHANGED <<connection, configured, connected, runs>>
  BY DEF CInv, ConnectionTypeOK, Connect
<1>3. /\ \A u \in Users : HasStarted(u) => HasStarted(u)'
      /\ HasStarted(connect)' /\ started' \in Seq(Users)
  <2>1. ASSUME NEW v \in Users, v = who
        PROVE  /\ \A u \in Users : HasStarted(u) => HasStarted(u)'
               /\ HasStarted(v)' /\ started' \in Seq(Users)
    BY <1>1, <1>2, <2>1, StartedStays
  <2>2. QED
    BY <1>1, <2>1 DEF HasStarted
<1>4. flow' \in [Tabs -> Flow] /\ \A s \in Tabs : FlowOK(flow[s])'
  <2>1. FlowOK([at |-> "consenting"])'
    BY DEF FlowOK
  <2>2. Goto(t, [at |-> "consenting"])
    BY DEF Connect
  <2>3. QED
    BY <1>2, <1>3, <2>1, <2>2, QuietFlow, GotoStep
<1>5. ConnectionTypeOK'
  BY <1>1, <1>2, <1>3, <1>4 DEF CInv, ConnectionTypeOK, SInv
<1>6. RowsOK' /\ RunsAreOwn'
  BY <1>2, <1>3 DEF CInv, RowsOK, RunsAreOwn
<1>7. QED
  BY <1>3, <1>4, <1>5, <1>6 DEF CInv

LEMMA DeclineStep ==
  ASSUME SInv', CInv, NEW t \in Tabs, Decline(t)
  PROVE  CInv'
<1>1. /\ Goto(t, NoFlow)
      /\ UNCHANGED <<connection, configured, started, connected, runs>>
      /\ connect' = connect \/ connect' = None
  BY DEF Decline, finish
<1>2. QED
  BY <1>1, QuietFlow, RequestStep

\* The callback goes on for the account that the state cookie names.
LEMMA ConsentedStep ==
  ASSUME SInv, SInv', CInv, NEW t \in Tabs, Consented(t)
  PROVE  CInv'
<1>1. UNCHANGED <<connection, configured, started, connected, runs>>
  BY DEF Consented
<1>2. CASE finish(t)
  BY <1>1, <1>2, QuietFlow, RequestStep DEF finish
<1>3. ASSUME NEW x \in Tenants, connect # None, who = connect, UNCHANGED connect,
             Goto(t, [at |-> "asking", for |-> "callback", user |-> who, tenant |-> x])
      PROVE  CInv'
  <2> DEFINE new == [at |-> "asking", for |-> "callback", user |-> who, tenant |-> x]
  <2>1. who \in Users /\ HasStarted(who)
    BY <1>3, WhoType DEF CInv
  <2>2. new \in Flow /\ FlowOK(new)
    BY <2>1 DEF Flow, Asking, FlowOK
  <2>3. QED
    BY <1>1, <1>3, <2>2, RequestStep
<1>4. QED
  BY <1>2, <1>3 DEF Consented

\* The row is the account's own, and the tenant is the one it consented for.
LEMMA ReplaceStep ==
  ASSUME SInv', CInv, NEW t \in Tabs, Replace(t)
  PROVE  CInv'
<1> DEFINE u == flow[t].user
           x == flow[t].tenant
           row == [tenant |-> x, status |-> flow[t].status, of |-> x, proved |-> flow[t].proved]
<1>1. flow[t] \in Writing /\ FlowOK(flow[t]) /\ flow[t].for = "callback"
  BY FlowType DEF Replace, CInv, ConnectionTypeOK
<1>2. u \in Users /\ x \in Tenants /\ row \in Row /\ HasStarted(u) /\ Proved(row)
  BY <1>1 DEF Writing, Row, FlowOK, Proved
<1>3. /\ connection' = [connection EXCEPT ![u] = row]
      /\ connected' = connected \cup {<<u, x>>}
      /\ connect' = None /\ Goto(t, NoFlow) /\ UNCHANGED <<configured, started, runs>>
  BY DEF Replace, finish
<1> HIDE DEF u, x
<1>4. connected \subseteq connected' /\ \A v \in Users : HasStarted(v) => HasStarted(v)'
  BY <1>3 DEF HasStarted
<1>5. flow' \in [Tabs -> Flow] /\ \A s \in Tabs : FlowOK(flow[s])'
  <2>1. FlowOK(NoFlow)'
    BY DEF FlowOK, NoFlow
  <2>2. QED
    BY <1>3, <1>4, <2>1, QuietFlow, GotoStep
<1>6. ConnectionTypeOK'
  BY <1>2, <1>3, <1>5 DEF CInv, ConnectionTypeOK, SInv
<1>7. RowsOK'
  <2> SUFFICES ASSUME NEW v \in Users, connection'[v] # NoRow
               PROVE  /\ HasStarted(v)' /\ <<v, connection'[v].tenant>> \in connected'
                      /\ Proved(connection'[v])
    BY DEF RowsOK, Proved
  <2>1. CASE v = u
    BY <1>2, <1>3, <1>4, <2>1 DEF CInv, ConnectionTypeOK
  <2>2. CASE v # u
    BY <1>2, <1>3, <1>4, <2>2 DEF CInv, ConnectionTypeOK, RowsOK
  <2>3. QED
    BY <2>1, <2>2
<1>8. RunsAreOwn'
  BY <1>3, <1>4 DEF CInv, RunsAreOwn
<1>9. QED
  BY <1>3, <1>5, <1>6, <1>7, <1>8 DEF CInv

LEMMA VerifyStep ==
  ASSUME SInv, SInv', CInv, NEW t \in Tabs, Verify(t)
  PROVE  CInv'
<1> DEFINE x == connection[who].tenant
           new == [at |-> "asking", for |-> "verify", user |-> who, tenant |-> x]
<1>1. who \in Users /\ x \in Tenants /\ <<who, x>> \in connected
  BY WhoType DEF Verify, CInv, RowsOK
<1>2. Goto(t, new) /\ UNCHANGED <<connect, connection, configured, started, connected, runs>>
  BY DEF Verify
<1> HIDE DEF x
<1>3. new \in Flow /\ FlowOK(new)
  BY <1>1 DEF Flow, Asking, FlowOK
<1>4. QED
  BY <1>2, <1>3, RequestStep

LEMMA EndedStep ==
  ASSUME SInv', CInv, NEW t \in Tabs, flow[t].at = "asking", NEW status \in Status,
         NEW proved \in BOOLEAN, status = "all_granted" <=> proved,
         Ended(t, [status |-> status, proved |-> proved])
  PROVE  CInv'
<1> DEFINE new == [at |-> "writing", for |-> flow[t].for, user |-> flow[t].user,
                   tenant |-> flow[t].tenant, status |-> status, proved |-> proved]
<1>1. flow[t] \in Asking /\ FlowOK(flow[t])
  BY FlowType DEF CInv, ConnectionTypeOK
<1>2. new \in Writing
  BY <1>1 DEF Asking, Writing
<1>3. new \in Flow /\ FlowOK(new)
  BY <1>1, <1>2 DEF Flow, FlowOK
<1>4. Goto(t, new) /\ UNCHANGED <<connect, connection, configured, started, connected, runs>>
  BY DEF Ended
<1>5. QED
  BY <1>3, <1>4, RequestStep

\* A verification changes the row that is there, and not its tenant.
LEMMA UpdateStep ==
  ASSUME SInv', CInv, NEW t \in Tabs, Update(t)
  PROVE  CInv'
<1> DEFINE u == flow[t].user
<1>1. flow[t] \in Writing
  BY FlowType DEF Update, CInv, ConnectionTypeOK
<1>2. /\ u \in Users /\ flow[t].tenant \in Tenants /\ flow[t].status \in Status
      /\ flow[t].proved \in BOOLEAN /\ (flow[t].status = "all_granted" <=> flow[t].proved)
  BY <1>1 DEF Writing, FlowOK, Update, CInv
<1>3. /\ connection' \in [Users -> Row \cup {NoRow}]
      /\ \A v \in Users : connection'[v] # NoRow =>
           /\ connection[v] # NoRow /\ connection'[v].tenant = connection[v].tenant
           /\ Proved(connection[v]) => Proved(connection'[v])
  <2>1. CASE connection[u] = NoRow
    BY <2>1 DEF Update, CInv, ConnectionTypeOK
  <2>2. CASE connection[u] # NoRow
    <3> DEFINE new == [connection[u] EXCEPT !.status = flow[t].status, !.of = flow[t].tenant,
                                        !.proved = flow[t].proved]
    <3>1. connection[u] \in Row
      BY <1>2, <2>2 DEF CInv, ConnectionTypeOK
    <3>2. new \in Row /\ new.tenant = connection[u].tenant /\ Proved(new)
      BY <1>2, <3>1 DEF Row, Proved
    <3>3. connection' = [connection EXCEPT ![u] = new]
      BY <1>2, <2>2 DEF Update, CInv, ConnectionTypeOK
    <3> HIDE DEF new
    <3>4. QED
      BY <1>2, <2>2, <3>2, <3>3 DEF CInv, ConnectionTypeOK
  <2>3. QED
    BY <2>1, <2>2
<1>4. Goto(t, NoFlow) /\ UNCHANGED <<connect, configured, started, connected, runs>>
  BY DEF Update
<1>5. flow' \in [Tabs -> Flow] /\ \A s \in Tabs : FlowOK(flow[s])'
  BY <1>4, QuietFlow, SteadyGoto
<1>6. QED
  BY <1>3, <1>4, <1>5, SteadyStep DEF CInv, ConnectionTypeOK

LEMMA ReadStatusStep ==
  ASSUME SInv, SInv', CInv, NEW t \in Tabs, ReadStatus(t)
  PROVE  CInv'
<1> DEFINE x == connection[who].tenant
           p == connection[who].proved
           new == [at |-> "gated", user |-> who, tenant |-> x, proved |-> p]
<1>1. who \in Users /\ x \in Tenants /\ <<who, x>> \in connected /\ p = TRUE
  BY WhoType DEF ReadStatus, CInv, RowsOK, Proved, ConnectionTypeOK, Row
<1>2. Goto(t, new) /\ UNCHANGED <<connect, connection, configured, started, connected, runs>>
  BY DEF ReadStatus, Gated
<1> HIDE DEF x
<1>3. new \in Flow /\ FlowOK(new)
  BY <1>1 DEF Flow, Gating, FlowOK
<1>4. QED
  BY <1>2, <1>3, RequestStep

LEMMA CreateRunStep ==
  ASSUME SInv', CInv, NEW t \in Tabs, CreateRun(t)
  PROVE  CInv'
<1>1. flow[t] \in Gating /\ FlowOK(flow[t]) /\ flow[t].at = "gated"
  BY FlowType DEF CreateRun, CInv, ConnectionTypeOK
<1>2. /\ <<flow[t].user, flow[t].tenant>> \in connected
      /\ flow[t].user \in Users /\ flow[t].tenant \in Tenants
  BY <1>1 DEF Gating, FlowOK
<1>3. /\ runs' = runs \cup {<<flow[t].user, flow[t].tenant>>} /\ Goto(t, NoFlow)
      /\ UNCHANGED <<connect, connection, configured, started, connected>>
  BY DEF CreateRun
<1>4. flow' \in [Tabs -> Flow] /\ \A s \in Tabs : FlowOK(flow[s])'
  BY <1>3, QuietFlow, SteadyGoto
<1>5. ConnectionTypeOK'
  BY <1>2, <1>3, <1>4 DEF CInv, ConnectionTypeOK, SInv
<1>6. RowsOK' /\ RunsAreOwn' /\ (connect' # None => HasStarted(connect)')
  BY <1>2, <1>3 DEF CInv, RowsOK, RunsAreOwn, HasStarted
<1>7. QED
  BY <1>4, <1>5, <1>6 DEF CInv

\* What happens around the requests.
LEMMA AroundStep ==
  ASSUME SInv, SInv', CInv,
         SessionNext \/ Disconnect \/ SaveCredential \/ DeleteCredential
         \/ ExpireConnectState \/ Restart \/ UNCHANGED vars
  PROVE  CInv'
<1>1. /\ UNCHANGED <<started, connected, runs>>
      /\ connect' = connect \/ connect' = None
      /\ configured' = configured \/ configured' \in BOOLEAN
  BY DEF SessionNext, Disconnect, SaveCredential, DeleteCredential, ExpireConnectState, Restart,
         vars, connectionVars
<1>2. flow' \in [Tabs -> Flow] /\ \A s \in Tabs : flow'[s] = flow[s] \/ flow'[s] = NoFlow
  BY QuietFlow DEF CInv, ConnectionTypeOK, SessionNext, Disconnect, SaveCredential,
         DeleteCredential, ExpireConnectState, Restart, vars, connectionVars
<1>3. \A s \in Tabs : FlowOK(flow[s])'
  <2>1. FlowOK(NoFlow)' /\ \A state \in Flow : FlowOK(state) => FlowOK(state)'
    BY <1>1 DEF FlowOK, NoFlow, HasStarted
  <2>2. ASSUME NEW s \in Tabs, NEW new \in Flow, new = flow'[s] PROVE FlowOK(new)'
    BY <1>2, <2>1, <2>2 DEF CInv, ConnectionTypeOK
  <2>3. ASSUME NEW s \in Tabs PROVE FlowOK(flow[s])'
    <3>1. flow'[s] \in Flow
      BY <1>2
    <3>2. QED
      BY <2>2, <3>1 DEF FlowOK
  <2>4. QED
    BY <2>3
<1>4. /\ connection' \in [Users -> Row \cup {NoRow}]
      /\ \A u \in Users : connection'[u] = connection[u] \/ connection'[u] = NoRow
  BY WhoType DEF CInv, ConnectionTypeOK, SessionNext, Disconnect, SaveCredential,
         DeleteCredential, ExpireConnectState, Restart, vars, connectionVars
<1>5. QED
  BY <1>1, <1>2, <1>3, <1>4, SteadyStep DEF CInv, ConnectionTypeOK

LEMMA StatusType ==
  ASSUME NEW required, NEW roles, NEW answer
  PROVE  verifyAppPermissions(required, roles, answer) \in Status
BY DEF verifyAppPermissions, Status

\* A verification has no more than what the token and the probes prove, whatever roles
\* are required.
LEMMA ProvedVerdict ==
  ASSUME NEW required, NEW roles, NEW answer \in [required -> Answers]
  PROVE  verifyAppPermissions(required, roles, answer) = "all_granted" <=>
           AllProved(required, roles, answer)
<1> DEFINE says == {Granted(r, answer[r]) : r \in required}
<1>1. ASSUME NEW r \in required
      PROVE  /\ Granted(r, answer[r]) \in {"granted", "denied", "null"}
             /\ Granted(r, answer[r]) = "granted" <=>
                  answer[r] = "ok" \/ (answer[r] = "absent" /\ r \in Tolerant)
  BY DEF Granted, Answers
<1>2. "null" \notin says /\ "denied" \notin says <=>
        \A r \in required : Granted(r, answer[r]) = "granted"
  BY <1>1
<1>3. verifyAppPermissions(required, roles, answer) = "all_granted" <=>
        "null" \notin says /\ "denied" \notin says /\ required \ roles = {}
  BY DEF verifyAppPermissions
<1>4. required \ roles = {} <=> \A r \in required : r \in roles
  OBVIOUS
<1>5. QED
  BY <1>1, <1>2, <1>3, <1>4 DEF AllProved

LEMMA FlowStepStep ==
  ASSUME SInv, SInv', CInv, NEW t \in Tabs, FlowStep(t)
  PROVE  CInv'
<1>1. CASE Check(t)
  <2> DEFINE required == RequiredRoles(flow[t].for)
  <2>1. flow[t].at = "asking" /\ \E outcome \in Outcomes(required) : Ended(t, outcome)
    BY <1>1 DEF Check
  <2>2. PICK roles \in SUBSET Roles, answer \in [required -> Answers] :
          Ended(t, [status |-> verifyAppPermissions(required, roles, answer),
                    proved |-> AllProved(required, roles, answer)])
    BY <2>1 DEF Outcomes
  <2>3. AllProved(required, roles, answer) \in BOOLEAN
    BY DEF AllProved
  <2>4. QED
    BY <2>1, <2>2, <2>3, StatusType, ProvedVerdict, EndedStep
<1>2. CASE MintFails(t)
  BY <1>2, EndedStep DEF MintFails, Status
<1>3. QED
  BY <1>1, <1>2, ConnectStep, DeclineStep, ConsentedStep, ReplaceStep, VerifyStep, UpdateStep,
     ReadStatusStep, CreateRunStep DEF FlowStep

LEMMA CInvInit == Init => CInv
<1> SUFFICES ASSUME Init PROVE CInv
  OBVIOUS
<1>1. SInv
  BY SessionsInitOK DEF Init
<1>2. <<>> \in Seq(Users)
  OBVIOUS
<1>3. ConnectionTypeOK
  BY <1>1, <1>2, QuietFlow DEF Init, ConnectionTypeOK, SInv
<1>4. QED
  BY <1>3, QuietFlow DEF Init, CInv, RowsOK, RunsAreOwn

LEMMA CInvStep == SInv /\ SInv' /\ CInv /\ [Next]_vars => CInv'
<1> SUFFICES ASSUME SInv, SInv', CInv, [Next]_vars PROVE CInv'
  OBVIOUS
<1>1. ASSUME NEW t \in Tabs, FlowStep(t) PROVE CInv'
  BY <1>1, FlowStepStep
<1>2. QED
  BY <1>1, AroundStep DEF Next

\* An account whose connect is under way, stored or run on has started it itself, whatever
\* GET /api/tenant/callback finds in the cookies.
THEOREM ConnectionInductive == Spec => []CInv
BY CInvInit, CInvStep, SessionsInductive, PTL DEF Spec

\* The state of sign-ins, connects and requests keeps its type.
THEOREM ConnectionTypes == Spec => []ConnectionTypeOK
BY ConnectionInductive, PTL DEF CInv

\* An account only ever has a connection if it started a connect itself, whoever else
\* used the browser before or meanwhile.
THEOREM OwnConnects == Spec => []OnlyOwnConnects
<1>1. CInv => OnlyOwnConnects
  BY DEF CInv, RowsOK, HasStarted, OnlyOwnConnects
<1>2. QED
  BY <1>1, ConnectionInductive, PTL

\* A run is only ever of a tenant its account has been connected to itself.
THEOREM OwnRuns == Spec => []RunsAreOwn
BY ConnectionInductive, PTL DEF CInv

-----------------------------------------------------------------------------
(* What a stored verification and a disconnection promise.                 *)

\* What is stored as all_granted stems from a verification that proved every role it
\* required, and so does every pass through the gate of a run.
THEOREM VerdictsAreProved == Spec => []VerdictIsProved
<1>1. CInv => VerdictIsProved
  BY DEF CInv, RowsOK, Proved, FlowOK, VerdictIsProved
<1>2. QED
  BY <1>1, ConnectionInductive, PTL

\* A disconnection is undone by nothing but a new consent of the same account.
THEOREM DisconnectionSticks == Spec => DisconnectSticks
<1> DEFINE Sticks(u) ==
             connection[u] = NoRow /\ connection'[u] # NoRow =>
               \E t \in Tabs : flow[t].at = "writing" /\ flow[t].for = "callback"
                               /\ flow[t].user = u
<1>1. ASSUME SInv, CInv, [Next]_vars, NEW u \in Users PROVE Sticks(u)
  <2>1. ASSUME NEW t \in Tabs, FlowStep(t) PROVE Sticks(u)
    <3>1. CASE Replace(t)
      <4>1. flow[t].user # u => connection'[u] = connection[u]
        BY <3>1 DEF Replace, CInv, ConnectionTypeOK
      <4>2. QED
        BY <3>1, <4>1 DEF Replace
    <3>2. CASE Update(t)
      <4>1. CASE connection[flow[t].user] = NoRow
        BY <3>2, <4>1 DEF Update
      <4>2. CASE connection[flow[t].user] # NoRow
        <5>1. PICK new : connection' = [connection EXCEPT ![flow[t].user] = new]
          BY <3>2, <4>2 DEF Update
        <5>2. flow[t].user # u => connection'[u] = connection[u]
          BY <5>1 DEF CInv, ConnectionTypeOK
        <5>3. QED
          BY <4>2, <5>2
      <4>3. QED
        BY <4>1, <4>2
    <3>3. CASE Check(t)
      BY <3>3 DEF Check, Ended
    <3>4. CASE Connect(t) \/ Decline(t) \/ Consented(t) \/ Verify(t)
      BY <3>4 DEF Connect, Decline, Consented, Verify
    <3>5. CASE MintFails(t) \/ ReadStatus(t) \/ CreateRun(t)
      BY <3>5 DEF MintFails, Ended, ReadStatus, CreateRun
    <3>6. QED
      BY <2>1, <3>1, <3>2, <3>3, <3>4, <3>5 DEF FlowStep
  <2>2. CASE Disconnect
    <3>1. connection'[u] = connection[u] \/ connection'[u] = NoRow
      BY <2>2 DEF Disconnect, CInv, ConnectionTypeOK
    <3>2. QED
      BY <3>1
  <2>3. CASE SessionNext \/ SaveCredential \/ DeleteCredential \/ ExpireConnectState \/ Restart
             \/ UNCHANGED vars
    BY <2>3 DEF SessionNext, SaveCredential, DeleteCredential, ExpireConnectState, Restart, vars,
               connectionVars
  <2>4. QED
    BY <1>1, <2>1, <2>2, <2>3 DEF Next
<1>2. SInv /\ CInv /\ [Next]_vars => [\A u \in Users : Sticks(u)]_vars
  BY <1>1
<1>3. QED
  BY <1>2, SessionsInductive, ConnectionInductive, PTL DEF Spec, DisconnectSticks
=============================================================================
