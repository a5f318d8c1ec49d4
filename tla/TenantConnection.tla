-------------------------- MODULE TenantConnection --------------------------
(***************************************************************************)
(* Connecting an account to a tenant: admin consent and its callback, the  *)
(* verification of application permissions on demand, disconnecting, and   *)
(* the gates a run has to pass, from several tabs of one browser whose     *)
(* user may change (module Sessions).                                      *)
(*                                                                         *)
(* A request is split where it waits for Microsoft.  Roles stand for       *)
(* groups of application roles; one probe stands for the probes of a role. *)
(***************************************************************************)
EXTENDS Sessions, Sequences

CONSTANTS
  Tenants,
  Roles,          \* application roles
  CallbackRoles,  \* union of the roles of CONNECT_SECTIONS in callback/route.ts
  VerifyRoles,    \* the same in verify/route.ts
  Tolerant,       \* roles whose probe may answer that the service is absent
  MaxConnects,    \* bound on the connects started
  Admins          \* accounts isOperatorAdmin accepts

ASSUME ConnectionAssumption ==
  /\ CallbackRoles \subseteq Roles /\ VerifyRoles \subseteq Roles
  /\ Tolerant \subseteq Roles
  /\ Admins \subseteq Users /\ MaxConnects \in Nat

VARIABLES
  connect,     \* the connect-state cookie: the account it was issued to, or none
  flow,        \* what each tab's request is doing
  connection,  \* tenant_connections: the row of each account
  configured,  \* an operator credential is stored
  started,     \* accounts of the connects started, in order
  connected,   \* the tenants each account has been connected to
  runs         \* the tenants each account has been accepted a run of

connectionVars == <<connect, flow, connection, configured, started, connected, runs>>
vars == <<sessionVars, connectionVars>>

\* "status" is that of verification_json.  "of" and "proved" are history: the tenant
\* the verification was made of, and whether the token and the probes proved every
\* role it required.
Status == {"all_granted", "missing", "error"}
Row    == [tenant : Tenants, status : Status, of : Tenants, proved : BOOLEAN]
NoRow  == [tenant |-> None]
NoFlow == [at |-> "idle"]

Asking  == [at : {"asking"}, for : {"callback", "verify"}, user : Users, tenant : Tenants]
Writing == [at : {"writing"}, for : {"callback", "verify"}, user : Users, tenant : Tenants,
            status : Status, proved : BOOLEAN]
Gating  == [at : {"gated"}, user : Users, tenant : Tenants, proved : BOOLEAN]
Flow    == {NoFlow, [at |-> "consenting"]} \cup Asking \cup Writing \cup Gating

ConnectionTypeOK ==
  /\ SessionsTypeOK
  /\ connect \in Users \cup {None}
  /\ flow \in [Tabs -> Flow]
  /\ connection \in [Users -> Row \cup {NoRow}]
  /\ configured \in BOOLEAN
  /\ started \in Seq(Users)
  /\ connected \subseteq Users \X Tenants
  /\ runs \subseteq Users \X Tenants

Init ==
  /\ SessionsInit
  /\ connect = None
  /\ flow = [t \in Tabs |-> NoFlow]
  /\ connection = [u \in Users |-> NoRow]
  /\ configured \in BOOLEAN
  /\ started = <<>>
  /\ connected = {}
  /\ runs = {}

Goto(t, state) == flow' = [flow EXCEPT ![t] = state]
Idle(t) == flow[t].at = "idle" /\ signing[t].at = "idle"

-----------------------------------------------------------------------------
(* verifyAppPermissions *)

Answers == {"ok", "denied", "absent", "inconclusive"}

\* Seeded fault: an inconclusive probe counts as one that was not denied.
verifyAppPermissionsFault(required, roles, answer) ==
  IF \E r \in required : r \notin roles \/ answer[r] = "denied" THEN "missing"
  ELSE "all_granted"

\* What a probe says of its role: granted, denied, or null.
Granted(role, answer) ==
  CASE answer = "ok"     -> "granted"
    [] answer = "denied" -> "denied"
    [] answer = "absent" -> IF role \in Tolerant THEN "granted" ELSE "null"
    [] OTHER             -> "null"

\* Null probes first, then the difference of the roles, then denied probes.
verifyAppPermissions(required, roles, answer) ==
  LET says == {Granted(r, answer[r]) : r \in required}
      rolesDiff == required \ roles
  IN  IF "null" \in says THEN "error"
      ELSE IF rolesDiff # {} \/ "denied" \in says THEN "missing"
      ELSE "all_granted"

RequiredRoles(for) == IF for = "callback" THEN CallbackRoles ELSE VerifyRoles

\* A role is proved by a token that carries it and a probe that answers, or one that
\* says the service is absent where that is no refusal.
AllProved(required, roles, answer) ==
  \A r \in required :
    r \in roles /\ (answer[r] = "ok" \/ (answer[r] = "absent" /\ r \in Tolerant))

\* What may come of a verification, whatever roles the token carries and whatever each
\* probe answers.
Outcomes(required) ==
  {[status |-> verifyAppPermissions(required, roles, answer),
    proved |-> AllProved(required, roles, answer)] :
     roles \in SUBSET Roles, answer \in [required -> Answers]}

Ended(t, outcome) ==
  /\ Goto(t, [at |-> "writing", for |-> flow[t].for, user |-> flow[t].user,
              tenant |-> flow[t].tenant,
              status |-> outcome.status, proved |-> outcome.proved])
  /\ UNCHANGED <<sessionVars, connect, connection, configured, started, connected, runs>>

\* The app-only token is minted, with whatever roles the tenant has granted by now,
\* and each role required is probed; a consent may go in between.
Check(t) ==
  /\ flow[t].at = "asking"
  /\ \E outcome \in Outcomes(RequiredRoles(flow[t].for)) : Ended(t, outcome)

\* Seeded fault: a status that no reader of the verification knows.
MintFailsFault(t) ==
  /\ flow[t].at = "asking"
  /\ Ended(t, [status |-> "failed", proved |-> FALSE])

\* A mint that fails is an outcome of the verification, not of the request.
MintFails(t) ==
  /\ flow[t].at = "asking"
  /\ Ended(t, [status |-> "error", proved |-> FALSE])

-----------------------------------------------------------------------------
(* GET /api/tenant/connect, consent at Microsoft, GET /api/tenant/callback *)

\* The state is bound to the account in a cookie; the page goes to Microsoft.
Connect(t) ==
  /\ Idle(t) /\ who # None /\ Len(started) < MaxConnects
  /\ connect' = who
  /\ started' = Append(started, who)
  /\ Goto(t, [at |-> "consenting"])
  /\ UNCHANGED <<sessionVars, connection, configured, connected, runs>>

\* Every exit of the callback clears the state cookie.
finish(t) == connect' = None /\ Goto(t, NoFlow)

\* Consent is declined, or the page is left and the cookie stays.
Decline(t) ==
  /\ flow[t].at = "consenting"
  /\ finish(t) \/ (Goto(t, NoFlow) /\ UNCHANGED connect)
  /\ UNCHANGED <<sessionVars, connection, configured, started, connected, runs>>

\* Seeded fault: the state is not compared with the session's account.
ConsentedFault(t) ==
  /\ flow[t].at = "consenting"
  /\ \E x \in Tenants :
       IF connect # None /\ who # None /\ configured
       THEN /\ Goto(t, [at |-> "asking", for |-> "callback", user |-> who, tenant |-> x])
            /\ UNCHANGED connect
       ELSE finish(t)
  /\ UNCHANGED <<sessionVars, connection, configured, started, connected, runs>>

\* An administrator of a tenant consents and comes back: the state cookie must
\* be there and belong to the session.
Consented(t) ==
  /\ flow[t].at = "consenting"
  /\ \E x \in Tenants :
       IF connect # None /\ who = connect /\ configured
       THEN /\ Goto(t, [at |-> "asking", for |-> "callback", user |-> who, tenant |-> x])
            /\ UNCHANGED connect
       ELSE finish(t)
  /\ UNCHANGED <<sessionVars, connection, configured, started, connected, runs>>

\* The account's row is deleted and inserted in one transaction.
Replace(t) ==
  /\ flow[t].at = "writing" /\ flow[t].for = "callback"
  /\ connection' = [connection EXCEPT ![flow[t].user] =
                      [tenant |-> flow[t].tenant, status |-> flow[t].status,
                       of |-> flow[t].tenant, proved |-> flow[t].proved]]
  /\ connected' = connected \cup {<<flow[t].user, flow[t].tenant>>}
  /\ finish(t)
  /\ UNCHANGED <<sessionVars, configured, started, runs>>

-----------------------------------------------------------------------------
(* POST /api/tenant/verify, POST /api/tenant/disconnect *)

\* The tenant is read from the account's row; then Microsoft is asked.
Verify(t) ==
  /\ Idle(t) /\ who # None /\ connection[who] # NoRow /\ configured
  /\ Goto(t, [at |-> "asking", for |-> "verify", user |-> who,
              tenant |-> connection[who].tenant])
  /\ UNCHANGED <<sessionVars, connect, connection, configured, started, connected, runs>>

\* Seeded fault: the result is inserted when there is no row to update.
UpdateFault(t) ==
  LET u == flow[t].user IN
  /\ flow[t].at = "writing" /\ flow[t].for = "verify"
  /\ connection' = [connection EXCEPT ![u] =
                      [tenant |-> flow[t].tenant, status |-> flow[t].status,
                       of |-> flow[t].tenant, proved |-> flow[t].proved]]
  /\ Goto(t, NoFlow)
  /\ UNCHANGED <<sessionVars, connect, configured, started, connected, runs>>

\* The update names the account and not the tenant.
Update(t) ==
  LET u == flow[t].user IN
  /\ flow[t].at = "writing" /\ flow[t].for = "verify"
  /\ connection' = IF connection[u] = NoRow THEN connection
                   ELSE [connection EXCEPT ![u].status = flow[t].status,
                                           ![u].of = flow[t].tenant,
                                           ![u].proved = flow[t].proved]
  /\ Goto(t, NoFlow)
  /\ UNCHANGED <<sessionVars, connect, configured, started, connected, runs>>

\* disconnectTenant: the row is all there is to delete.
Disconnect ==
  /\ who # None /\ connection[who] # NoRow
  /\ connection' = [connection EXCEPT ![who] = NoRow]
  /\ UNCHANGED <<sessionVars, connect, flow, configured, started, connected, runs>>

-----------------------------------------------------------------------------
(* POST /api/runs up to its transactional gate *)

Gated(t) ==
  Goto(t, [at |-> "gated", user |-> who, tenant |-> connection[who].tenant,
           proved |-> connection[who].proved])

\* The tenant's status is read once; only all_granted passes.
ReadStatus(t) ==
  /\ Idle(t) /\ who # None /\ connection[who] # NoRow /\ configured
  /\ connection[who].status = "all_granted"
  /\ Gated(t)
  /\ UNCHANGED <<sessionVars, connect, connection, configured, started, connected, runs>>

\* Seeded fault: the account is read anew from the browser's session.
CreateRunFault(t) ==
  /\ flow[t].at = "gated" /\ who # None
  /\ runs' = runs \cup {<<who, flow[t].tenant>>}
  /\ Goto(t, NoFlow)
  /\ UNCHANGED <<sessionVars, connect, connection, configured, started, connected>>

\* The run is created for the account and the tenant that were read, whatever has
\* become of the connection since.
CreateRun(t) ==
  /\ flow[t].at = "gated"
  /\ runs' = runs \cup {<<flow[t].user, flow[t].tenant>>}
  /\ Goto(t, NoFlow)
  /\ UNCHANGED <<sessionVars, connect, connection, configured, started, connected>>

-----------------------------------------------------------------------------
(* Around the requests *)

\* POST and DELETE /api/settings/operator-credential, by an administrator.
SaveCredential ==
  /\ who \in Admins /\ ~configured /\ configured' = TRUE
  /\ UNCHANGED <<sessionVars, connect, flow, connection, started, connected, runs>>

DeleteCredential ==
  /\ who \in Admins /\ configured /\ configured' = FALSE
  /\ UNCHANGED <<sessionVars, connect, flow, connection, started, connected, runs>>

\* The connect state is past its ten minutes.
ExpireConnectState ==
  /\ connect # None /\ connect' = None
  /\ UNCHANGED <<sessionVars, flow, connection, configured, started, connected, runs>>

\* Requests under way die with the process; pages at Microsoft do not.
Restart ==
  /\ SessionsRestart
  /\ flow' = [t \in Tabs |-> IF flow[t].at = "consenting" THEN flow[t] ELSE NoFlow]
  /\ UNCHANGED <<connect, connection, configured, started, connected, runs>>

SessionNext ==
  /\ \/ \E t \in Tabs : flow[t].at = "idle" /\ SessionStep(t)
     \/ SignOut \/ ExpireSession \/ ExpireOidcState
  /\ UNCHANGED connectionVars

FlowStep(t) ==
  \/ Connect(t) \/ Decline(t) \/ Consented(t) \/ Replace(t)
  \/ Verify(t) \/ Check(t) \/ MintFails(t) \/ Update(t)
  \/ ReadStatus(t) \/ CreateRun(t)

Next ==
  \/ SessionNext
  \/ \E t \in Tabs : FlowStep(t)
  \/ Disconnect \/ SaveCredential \/ DeleteCredential
  \/ ExpireConnectState \/ Restart

Spec == Init /\ [][Next]_vars

-----------------------------------------------------------------------------
(* Properties *)

\* verify-permissions-app.ts:25 and runs/route.ts:77: what is stored as all_granted,
\* and no other outcome, stems from a verification that proved every role it required,
\* and only on the strength of such a one does a run pass the gate, whatever the tabs
\* store, replace or remove meanwhile.  Of which tenant that verification was is another
\* question: see VerificationIsOfTenant.
VerdictIsProved ==
  /\ \A u \in Users : connection[u] # NoRow =>
       (connection[u].status = "all_granted" <=> connection[u].proved)
  /\ \A t \in Tabs : flow[t].at = "gated" => flow[t].proved

\* callback/route.ts:124: an account only ever has a connection if it started a
\* connect itself, whoever else used the browser before or meanwhile.
OnlyOwnConnects ==
  \A u \in Users : connection[u] # NoRow => \E i \in 1..Len(started) : started[i] = u

\* disconnect.ts:9: deleting the row is the revocation; a verification under way
\* does not bring it back, only a new consent does.
DisconnectSticks ==
  [][\A u \in Users :
       connection[u] = NoRow /\ connection'[u] # NoRow =>
         \E t \in Tabs : flow[t].at = "writing" /\ flow[t].for = "callback"
                         /\ flow[t].user = u]_vars

\* runs/route.ts:98: a run is only ever of a tenant its account has been connected
\* to itself, although the status is read before the run is created and the tabs
\* may disconnect, reconnect or change accounts in between.
RunsAreOwn == runs \subseteq connected

-----------------------------------------------------------------------------
(* A statement of a comment that the code does not meet *)

\* verify/route.ts:20: the result of a verification is stored with the tenant it
\* is about.
VerificationIsOfTenant ==
  \A u \in Users : connection[u] # NoRow => connection[u].of = connection[u].tenant
=============================================================================
