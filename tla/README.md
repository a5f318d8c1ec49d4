# M365-Assessment: a TLA+ verification project

The repository is a self-hosted assessment service for Microsoft 365 tenants: a
Next.js application (`web/`) around a TypeScript engine that reads a tenant over
Microsoft Graph and reports check rows. It runs as one Node.js process with an
embedded SQLite database (Drizzle on better-sqlite3, whose calls are
synchronous). Paths below are relative to `web/src/`.

## 1. Inventory

| Component | State | Operations | Talks to |
|---|---|---|---|
| Run lifecycle: `lib/runs/run-service.ts`, `lib/runs/run-executor.ts`, `app/api/runs/route.ts` | tables `runs`, `check_rows`; the in-memory set `activeExecutions`; one `startRun` invocation per run | create behind a gate, start (with the sweep), store rows, complete, fail | engine (callback sink), bus, token cache, operator credential |
| Event bus and streams: `lib/runs/event-bus.ts`, `app/api/runs/[id]/events/route.ts`, `lib/runs/use-run-events.ts`, `components/runs/live-progress.tsx` | subscribers per run, open event streams, what a page knows of each section | subscribe, emit, close; serve snapshot then live; abort; reconnect | run lifecycle, browser |
| Section runner: `engine/runner/engine.ts`, `circuit-breaker.ts`, `engine/results/*` | loop position, rows, failure streak, check-id counters, shared store | addRow, fail-soft catch, overlay, events | collectors, sink |
| Graph and Power BI transport: `engine/transport/*-transport.ts`, `retry-policy.ts` | per call: attempt, page, merged values | get with retry, paging, guards | token cache, network |
| Token cache: `engine/transport/graph-auth.ts` | tokens per tenant and scope; clients per issuer | mint, reuse, evict | identity provider |
| Tenant connection: `app/api/tenant/*`, `lib/tenant/status.ts`, `lib/graph/*`, `engine/verify-permissions-app.ts` | `tenant_connections` row per account, state cookie, stored verification | connect, callback, verify, disconnect | identity provider, Graph |
| Operator credential: `lib/settings/operator-credential.ts`, `lib/crypto/encrypt.ts` | one encrypted secret | set, read, delete | token cache, tenant connection |
| Sign-in and sessions: `lib/auth/*`, `app/api/auth/*`, `proxy.ts` | `sessions`, `users`, cookies | sign in, callback, sign out, expiry | identity provider |
| Report: `report/*`, `app/api/runs/[id]/export/route.ts` | none (pure) | aggregate rows, render | run lifecycle |
| Registries: `engine/registry/*` | read-only control data | look-ups | section runner, verification |
| Collectors: `engine/sections/*` (44 collectors in 10 sections, over half of the code) | what one collector leaves in `ctx.shared` for later checks; the DNS cache of one call | read Graph or DNS, judge the answer, call `addRow` | transport, section runner, resolver |
| CLI: `engine/cli/assess.ts`; UI: `components/*`, `app/dashboard/*` | none / view state | | |

What is hard, and what makes each part correct:

- **Run lifecycle.** `startRun` is un-awaited and has three groups of awaits; two
  invocations interleave there, the process may die anywhere, and a write may
  throw between any two. Correct means: one execution per run, one live run per
  account, rows stored in order, an ended run final, every run ended.
- **Streams.** A page may connect, lose its connection and reconnect between any
  two events, and the run may end meanwhile. Correct means: no row missed or
  listed twice, the end is told, nothing is kept for readers that left.
- **Section runner.** Sequential, but its outputs depend on long sequences of
  collector calls: the breaker's streak, sub-numbers, partial rows of a section
  that throws, the overlay after everything was streamed, the order of events.
- **Transport, token cache, credential, connection, sessions.** Retries and
  paging bounds; cached tokens and clients after the secret was replaced; two
  tabs in one consent flow; a verification that ends after the account has
  connected another tenant; rotated sessions.
- **Collectors.** Each tells its failing calls apart by hand and judges settings with
  thresholds, absent values and switches of either polarity; several filter one list
  of policies or apps in twenty slightly different ways. Correct means: a safer
  tenant is not judged worse, what could not be read is not judged, what is not
  enforced does not count.
- **DNS.** Five loops share one cache of lookups that are retried and may fail in
  three ways. Correct means: the verdicts follow the zones, and no name is asked
  again and again.
- **Report.** Pure aggregation: two sorts of which the second relies on the first,
  checks that map to several controls, rows that share a check, aliases.

`PROJECT.json` lists every hazard at its line with the properties that cover it.

## 2. Modules

```
RunContract      what the tables promise          <- implemented by RunLifecycle
RunLifecycle     POST gate, startRun, tables, crashes
  RunStreams     bus, event streams, page hook    EXTENDS RunLifecycle
  RunLifecycleProofs                              EXTENDS RunLifecycle, TLAPS
    RunStreamsProofs                              EXTENDS RunStreams, RunLifecycleProofs
EngineEvents     the promised order of events     <- implemented by SectionRunner
  SectionProgress what the live page knows of each section   EXTENDS EngineEvents, Orders
SectionRunner    runEngine, breaker, sub-numbers, overlay
  SectionRunnerProofs                             EXTENDS SectionRunner, TLAPS
Orders           Array.sort and Array.filter
Report           buildReportData                  EXTENDS Orders
  RunViews       the live page beside the report  EXTENDS SectionProgress, Report
    RunViewsProofs                                EXTENDS RunViews, TLAPS
TokenCache       operator secret, clients per tenant, cached tokens
  GraphTransport getJson, paging, retries         EXTENDS TokenCache
  GraphTransportProofs                            EXTENDS GraphTransport, TLAPS
Sessions         sign-in of several tabs, sessions
  TenantConnection  consent, verification, gates of a run    EXTENDS Sessions
    TenantConnectionProofs                        EXTENDS TenantConnection, TLAPS
CollectorRows    what a collector's request is
  AuthenticationChecks, AdminRoles, DirectorySettings, ConditionalAccess,
  EnterpriseApps, Collaboration, DeviceChecks, Workloads     the collectors
    Collectors   a section of a run               EXTENDS them all
      CollectorsProofs                            EXTENDS Collectors, TLAPS
DnsChecks        the DNS collector with its cache and retries
  DnsChecksProofs                                 EXTENDS DnsChecks, TLAPS
MC*              constants for TLC, one per specification
```

### RunLifecycle

A step is the code between two awaits. A `startRun` invocation `t` is a task with
`pc[t]`: `database` (line 151), `import` (159-160), `prepare` (262-267), `engine`
(282). `run`, `nextOrder` and `emitted` are its locals; `active` is
`activeExecutions`; `status`, `owner`, `error`, `rows` are the tables.

| Action | Code |
|---|---|
| `Post` | `createRunIfAbsent` in its transaction and the call of `startRun`; a refused POST changes nothing |
| `CallAgain` | another caller of the exported `startRun` |
| `RefuseActive`, `PassActive`, `RefuseStatus` | the two guards and their early returns |
| `Begin` | lines 165-190 in one step: add to the set, sweep (or its caught failure), re-read, mark running |
| `BeginRejects` | `markRunRunning` throws outside every `try` |
| `PrepareFails` | the early return without secret or token, and a rejection of `runEngine` before its first event |
| `EmitRow` | the sink's `check-completed`: row and counter, or the swallowed exception |
| `Finish` | `run-finished`, `markRunCompleted` (or its swallowed exception) and `finally`, which run without an intervening macrotask |
| `Crash` | tasks and set are lost, the tables stay |

Two readings of the code matter. The second read of the status (line 183) cannot
differ from the first, as no await lies between, so its branch is not modelled.
And after `run-started` `runEngine` does not reject: its catch handles every
collector, so a run that has started its engine ends completed or with the process.

`RunContract` is the view of everyone who reads the tables: queued, running,
completed or failed, rows appended only while running. The code implements it for
one account (`ImplementsContract`). For two it does not: the sweep of the second
account's start fails the first account's running run, whose task goes on and
marks it completed. Run `sweep_live_run` shows the beginning of that behaviour.

### RunStreams

Every task step is composed with what it does to the bus: `EmitCheck` emits
before it stores, `FailPreparation` and `FinishRun` close the bus. `ServeLive` reads
the snapshot and subscribes in one step, because the code between `getRun` and
`subscribe` has no await; the awaits before it make the state `requested`. A
stream whose reader left in that state is `deaf`: its abort listener is added
after the abort. `Drop`, `Reconnect`, `Leave` and `Read*` are the page hook. Frames
are the snapshot, check-completed and run-terminal; a frame carries the number of
the engine event instead of the row. Section events are in `SectionProgress`; heartbeats
and the elapsed timer are left out.

### SectionProgress, Report and RunViews

`SectionProgress` is the other half of the page hook: what it knows of each section.
The engine is `EngineEvents`, the promise that `SectionRunner` implements, and the
server one step (`Connect`), since `RunStreams` has its interleavings.

| Definition | Code |
|---|---|
| `Started`, `Failed`, `Finished`, `Ended`, `Unheard` | the engine's events, sent if the page's stream is subscribed |
| `Completed` | a check: sent, then inserted into the table, or caught in `run-executor.ts:217` when the insert throws; `lost` remembers such checks |
| `Open` | `app/dashboard/runs/[id]/page.tsx` renders the live view with `initialSections` |
| `Connect`, `Drop`, `Read` | the snapshot or the end; `onerror`; one event of the stream and its listener |
| `handleSnapshot`, `checkCompleted`, `sectionFinished`, `Apply` | the listeners, as they change `sections` |
| `statusOf` | the badge of `LiveProgress` |

`Report` is `buildReportData` as operators: `findings` and `remediationItems` with the sort
as it is written (two stable sorts), `summary`, `sections`, and `computeFrameworkScore`
over `canonicalRegistryChecks`. Texts, the label of the covered domains and the HTML
are left out. `RunViews` evaluates the report on the rows of the run that the page has
followed, so the rows are those an interleaving of engine and page has produced.
`Orders` defines sorting and filtering by counting what comes before an element rather
than with `SortSeq` and `SelectSeq`, of which the provers know no definition.

### SectionRunner

The loop of `runEngine`, one action per emitted event. A collector is any sequence
of `addRow` calls, Graph calls and the storing of SKUs, ended by return or throw.
`streamed` is what the sink saw, by section; `results` what the function returns.
`TransportFatalError` is told apart from other errors only because its comment
says that it aborts the run. Texts, evidence fields and the registry's
remediation fallback are left out. `EngineEvents` states the order of events from
the comment of `engine-events.ts`; `SectionRunner` refines it through `last` and `at`.

### TokenCache and GraphTransport

`TokenCache` is `graph-auth.ts` and the row of `operator_credential`. A caller opens a
session by reading the secret (`Open`, `decryptOperatorSecret`) and then asks for
tokens. `session[c].cached` tells an assessment (`getTokenForTenant`) from a
verification (`mintAppOnlyToken`); both share `issuerClients`.

| Action | Code |
|---|---|
| `SaveSecret`, `DeleteSecret` | the two routes of the operator credential that change the row |
| `Hit` | `getTokenForResource` finds a token that outlives the margin |
| `Miss` | it does not: `getIssuerClient` creates the tenant's client, joins the discovery under way, or finds it ready |
| `DiscoverySucceeds`, `DiscoveryFails` | the shared promise settles for all who await it; a failure evicts it |
| `GrantSucceeds`, `GrantFails` | the token endpoint's answer, with or without `expires_in` |
| `Age` | time passes for every token |

`GraphTransport` is one `getJson` per caller: `stage` says whether it awaits a token,
an answer or a delay, `call` holds its locals. `Respond` is one answer and all that
the code does with it up to its next await; `GetToken` is the step of the token
cache together with the request that follows it. Each page asks for its own
token, once, before its retries. Time is relative: a token is what is left of it, and
`elapsed` is what a page has spent since its token was returned. Time may pass at any moment and
without a bound (`Tick`): a `Retry-After` is obeyed whatever it says. The two transports
differ in the host only, so one stands for both. Preparing a run asks for a token
without a request; `getJson` with a refused first page does the same to the cache.

The identity provider and Graph are external and may answer anything.

### Sessions and TenantConnection

A browser has one session cookie, one cookie for the OIDC state and one for the connect
state, and several tabs; each request is split where it waits for Microsoft.

| Action | Code |
|---|---|
| `SignIn` | `auth/signin`: a new attempt, whose state and PKCE verifier replace those in the cookie |
| `SignInReturns`, `Reload` | the provider sends a tab back, or the tab loads an old callback address again; both are `Callback` |
| `Callback` | `auth/callback` up to the exchange: the state that came back compared with the cookie's |
| `SignInCompletes`, `SignInFails` | the code redeemed and the session row written; the other exits |
| `SignOut`, `ExpireSession`, `ExpireOidcState` | `auth/signout`; `getSession` and `readOidcState` after their limits |
| `Connect`, `Decline`, `Consented`, `Replace` | `tenant/connect`; `tenant/callback` up to the verification, and the transaction that replaces the account's row |
| `Check`, `MintFails` | `verifyAppPermissions` with whatever roles and answers of its probes; its early return when minting fails |
| `Verify`, `Update` | `tenant/verify` before and after the verification |
| `Disconnect` | `disconnectTenant` |
| `ReadStatus`, `CreateRun` | the gates of `POST /api/runs` and what it creates after its awaits |
| `SaveCredential`, `DeleteCredential`, `ExpireConnectState`, `Restart` | the operator, time, the process |

Roles stand for groups of application roles (the ones that the callback asks for, and
those that only the verification on demand does); one probe stands for the probes of a
role. A callback carries the state and code of its own attempt (`n`) and, once past the
comparison, the verifier that the cookie held (`verifier`); the provider keeps for each attempt whose
code it gave out and whether it has been redeemed (`codes`). Which attempts were answered
(`answered`), which connects were started and by whom (`started`), which tenants an
account has been connected to (`connected`), and whether a verification was proved and of which
tenant (`proved` and `of`, beside the stored verdict) are kept for the properties.

### Collectors

A collector is a sequence of *requests* (`CollectorRows`): for each answer that Graph may
give, the rows of the checks that judge it, in their order, and what is added when the
call is refused, fails or is declined. A request also says which fields it stores for
later checks and which it reads from there, whether a check ends the collector
(`Returns`), the request (`Stops`) or the section (`Leaves`), and whether a fatal transport
error is taken for a failed call (`Swallowing`). Where one request stands for several reads and the
code goes on without one that failed, the answer says which (`unread`), and `untold` gives what that read
could have told instead (`Telling`, `Untold`). One module per area of the source
defines the requests under the names of the functions; `Collectors` has the order of
`IMPLEMENTATIONS` in `engine/index.ts` and one action for each thing that happens:
`Answer`, `Judge` (the next check), `Fail`, `Fatal`, `NextRequest`, `NextCollector`, `EndSection`.

Data is abstracted to what the checks tell apart: a policy is a record of the
conditions and controls that any of them looks at, an app one of its owner,
credentials, permissions and activity, a setting a value on a scale from the least
to the most secure (`scales`). The scales are those of the settings, not of the verdicts,
so that `SaferNeverWorse` compares the two. Requests have no scale where more is neither safer nor
less safe: counts, reports and licences, alerts, lists of Conditional Access policies, sets of retention labels and
of owners. Rows that no answer changes are `Static`.

### DnsChecks

`runDnsSecurityConfig`, which asks no Graph after its first step. `phase` is the loop, `domain`
and `name` where it is; `cache` is the map shared by the loops, keyed by name as in the code.
`Cached`, `Answered`, `Retry` and `GiveUp` are the outcomes of one `txtHasRecordWithRetry`,
`resolveMxWithRetry` or look-up of `dkimEnabled`; `Conclude` is what the loop does with the
result; `EndLoop` adds the loop's rows. `asked` and `lost` are kept for the properties.

## 3. Runs

| Run | Question | Bounds | Result |
|---|---|---|---|
| `lifecycle` | types, `OneExecutionPerRun`, `OneLiveRunPerUser`, `RowsInOrder`, `CompletedIsFinal` | 2 accounts, 3 run ids, 2 tasks, 2 rows, one crash, failing write and extra call | hold, 98,453 states |
| `streams` | types, `PageMissesNothing`, `OverMeansUnsubscribed`, `CompletionIsAnnounced`, `ImplementsContract`, `EveryRunEnds` | 1 page, 2 streams, 1 run of 2 rows, 2 tasks, 2 lost connections, one crash, failing write and extra call | hold, 98,069 states |
| `runner` | types, `BreakerIsExact`, `CheckIdsAreUnique`, `StreamIsResult`, `ImplementsEventOrder`, `RunFinishes` | 3 sections with 4, 1 and 0 rows, threshold 2, all 11 statuses | hold, 510,026 states |
| `views` | `RunningIsCurrent`, `PageMatchesReport`, `RemediationIsSorted`, `FrameworksCountOnce` | 2 sections of 2 rows that share checks, any insert failing, 1 page, 1 lost connection, 2 frameworks | hold, 1,531,951 states |
| `transport` | types, `ExpiresOnlyPastMargin`, `TruncationIsLoud`, `PagesMergeInOrder`, `RetriesAreExact`, `AwaitedDiscoveryIsUnderWay`, `EveryCallEnds` | 2 callers, 1 tenant, 2 secrets, 2 pages, 1 retry, margin 1, lifetime 3 | hold, 373,641 states |
| `connection` | types, `OnlyFreshIsExchanged`, `VerdictIsProved`, `OnlyOwnConnects`, `RunsAreOwn`, `DisconnectSticks` | 2 accounts, 2 tabs, 2 tenants, 2 sign-ins, 2 connects, 2 groups of roles | hold, 1,035,938 states |
| `collectors` | `SaferNeverWorse`, `UnreadIsNotJudged`, `OnlyEnforcedPoliciesCount`, `DemandsAreNested` | every section; palettes of policies, apps, registrations and settings; one failed read at a time | hold, 68,089 states |
| `dns` | `VerdictsFollowZones`, `AskedAtMostTwice` | 2 domains, 5 kinds of zones, 3 failing look-ups | hold, 278,409 states |
| `stale_secret` | is a grant made with the secret its caller read? | as `transport` | no |
| `sweep_live_run` | does the sweep fail only interrupted runs? | 2 accounts, no failures | no |
| `verification_race` | is a stored verification one of the tenant it is stored with? | as `connection` | no |
| `spf_cache` | does DNS-SPF-001 pass only for domains with SPF? | as `dns` | no |

Bounds and why they suffice:

- Two accounts and three ids let a live run be swept by another account's start
  and its owner start again; two tasks let two invocations meet at every await.
- One crash, one failing write and one extra call may each fall on any step, in
  any combination; they are budgets (`Limits`), not fixed points. The theorems of
  section 5 hold for any budgets.
- One page with two streams lets a page hold a new stream while the server has not
  yet noticed the loss of the old one.
- A threshold of 2 (5 in the code) and four rows let the streak be reset, trip
  and stay tripped; the second section shows that nothing is carried over.
- One tenant, because every key of the two caches contains the tenant: two tenants do
  not share anything. Two callers meet at every await of a discovery, a grant and a
  cached token. Two pages reach the cap with a link left, after a page that
  was followed; one retry succeeds or exhausts the retries. A lifetime of 3 has a
  cached token that is fresh, one in the margin and one expired.
- `elapsed` counts up to one past the margin and stays there, so every delay longer than the margin is the same
  state. With a lifetime of 3 and a margin of 1 the token of a page may still be
  valid past the margin, or not.
- The contract and the liveness of the life cycle are checked for one run id, where the
  page and its streams are part of every behaviour; two ids bring 1.5 million states,
  and `SingleUserImplements` proves the first for any number.
- Two sections of two rows let a connection be lost, and its page opened, before, within,
  between and after sections; the sections share the check `ENTRA`, so its numbers
  start again. The registry has a check under two controls, two checks under one, an
  entry without controls, a check that does not occur and an alias.
- Two tabs and two accounts let a user change between any two steps of a request of the
  other tab; two tenants and two connects let a connection be replaced under a
  verification; two sign-ins share the cookie, and one of them can come back
  after the other has replaced its state. One more of each adds no new pair.
- A policy palette has one policy for each thing that some check looks for, alone, disabled,
  report-only, or beside another; a check never relates more than two policies. Two of them name three groups
  together, one more than are looked up (`MaxProbes`), so the cap is met from both sides. The apps
  likewise. Scales are never cut: every setting takes every value told apart. In an answer made of several reads one
  of them fails at a time; what several failures together make of a check that joins their reads is left out. Look-ups of single objects (the owners of an app, its sign-ins) are part of the answer, with a
  value for the look-up that failed.
- The two domains of `dns` meet at every entry of the cache; three failures suffice for a look-up
  that fails, is retried, fails again, and another that fails in a later loop.
- `CHECK_DEADLOCK FALSE`: run ids, sign-ins and connects are bounded sets, and a run of the
  engine, a section, a DNS collector and the page of a run that has ended stop, so
  every behaviour may.

Symmetry is used only where no liveness is checked.

Assumed fairness: a task keeps moving (`WF` of its steps), since the event loop
runs every resumed continuation and every network await ends by response, error or
timeout; requests are served, closed connections are noticed, the reconnect timer
fires. Users, crashes and lost connections are never assumed to happen.
Answers of Graph and of the identity provider arrive or time out, and delays end
(`WF` of a call's steps and of a discovery); that they succeed is not assumed.
`TenantConnection`, `Collectors`, `DnsChecks` and `SectionProgress` state safety only and assume none.

## 4. Where code and its statements differ

The four violation runs above, each with a finding in `PROJECT.json`. Seen while modelling,
without a run of their own:

Runs and streams

- POST's comments say one active run per *tenant*; the gate counts per *account*
  (`run-service.ts:65`), so two accounts of one tenant can assess it at the same time.
- A run killed by a restart stays queued or running and blocks its account's gate. The
  sweep of `run-executor.ts:171` is in `startRun`, which the gate does not let the account
  reach; `run-service.ts:220-224` says that interrupted runs are swept. Another
  account's start does it.
- A row whose insert throws is dropped, the run completes without it, and the comment at
  `run-executor.ts:218` says that it "will be surfaced as run failure later". It was emitted before (line 200), so
  a page that was open shows a check that neither a reload nor the report has; `PageMatchesReport` is stated
  up to those checks.
- `bus.close` forgets its subscribers (`event-bus.ts:49`), and only `run-finished` ends a stream: a
  page watching a run that fails before its engine starts is never told.
- The page announces "Assessment complete" at every `run-terminal` (`use-run-events.ts:139`),
  also for a run that failed (`events/route.ts:76` sends the status, the hook does not read it).
- When `markRunRunning` throws, the id stays in `activeExecutions` and the promise of
  `startRun` rejects, against its comment; the run stays queued (`BeginRejects`).
- A stream request aborted during the session look-up is never cleaned up unless
  its run finishes (`deaf`); the fallback in `cancel` looks for `_cleanup` on the wrong
  object.
- `section-finished` overwrites a section's `failed` status in the page hook (`use-run-events.ts:129`),
  and `section-error` is read for a field `error` while the event has `message`: the badge and
  the text of a failed section (`live-progress.tsx`) last until the next event.
- After a reconnect a section under way that has rows is shown as completed until it ends
  (`use-run-events.ts:56`), also while further checks of it arrive.
- The updaters of `setSections` change the objects of the previous state (`sec.checks = ...`,
  `sec.status = ...`); where React calls updaters twice, in development, a check is listed twice. The
  model has the production build.

Engine, transport, tokens

- `TransportFatalError` is documented to abort the run (`graph-transport.ts:34`); the runner catches
  it like any error and enters the next section (`engine.ts:300`). Eight collectors do not
  let it get so far: `entra-breakglass-config.ts:122`, `conditional-access-report.ts:129`,
  `admin-role-report.ts:73,95`, `tenant-info.ts:53`, `entra-pim-additional-config.ts:48`, `mfa-report.ts:76`,
  `license-report.ts:77,113` and `intune-fips-config.ts:483` take it for a failed call (`Swallowing`).
- `TOKEN_EXPIRY_MARGIN_MS` is said to cover "clock skew plus one in-flight assessment call"
  (`graph-auth.ts:29-30`). A page asks for its token once, before its retries; the backoff alone (2 + 4 + 8 + 16 s) stays within
  the margin of 120 s, but a `Retry-After` is obeyed without a bound (`retry-policy.ts:30-32`), and
  with one of more than 30 s on every attempt the last may be sent with an expired token. `ExpiresOnlyPastMargin` says
  what the code does hold to.
- `rotateOperatorCredential` is "the ONLY path that changes a stored secret" by its comment, and
  nothing calls it; the secret is changed by deleting and saving.
- The web application runs neither the tenant nor the licensing section (`run-executor.ts:284`), so
  `subscribedSkus` is never stored (`license-report.ts:155`) and no overlay is applied, against
  `engine.ts:85`; were it run, the stored rows would still be the rows before it.

Connection and sign-in

- `callback/route.ts:64` verifies the roles of five sections, `connect/route.ts:48` asks consent
  for and `verify/route.ts:34` verifies those of seven; `RecordsManagement.Read.All` (purview) is in neither.
  The stored verdict depends on which of them came last.
- The tenant callback compares the state cookie with the session's account, never the
  `state` parameter with the cookie's nonce.
- `auth/callback/route.ts:22` has the state consumed once, and it is once the callback is answered: the cookie is cleared at
  the end (`:54`), so a reload during the exchange passes the comparison with the same state again. The provider
  redeems the code once; the second exchange fails.
- A discovery that fails is remembered (`entra-client.ts:68-73`): every sign-in fails until a restart.

Report

- No section of the report ever has an `error`: nothing stores it with the rows.
- The label says "Full score" for any 8 domains (`build-report-data.ts:140`), e.g. without Intune and Purview.
- Percentages are rounded: 1 review of 200 gives 100%, where `build-self-contained-html.ts:149` says
  "100% requires 0 reviews". A skipped check counts as not passed in a framework's score.
- The export labels a report with the tenant that is connected now.

Collectors

- A failed read leaves an empty list that later checks judge, though the headers speak of
  degrading to zero rows (`ca-security-config.ts:20-22`). `JudgedUnread` names each of them: without the policies (`:190-193`)
  most checks of `ca-security-config` fail and `CA-REPORTONLY-001`, `CA-SESSION-001`,
  `CA-RISKPOLICY-001`, `CA-FALLBACK-001` and `CA-STALEREF-001` pass; without Security Defaults (`:167-177`) four fail that might
  have passed; a group look-up that fails (`:1195-1204`) counts as a group that is there; without its supporting
  reads `ent-app-security-config.ts` passes roles, grants and owners; without policies
  `entra-breakglass-config.ts:122` finds no excluded accounts; `ENTRA-PIM-001` takes unread eligible members for none.
  Failing owner probes pass.
- `defender-security-config.ts:153` matches `/implemented|enabled|pass/i`, which "NotImplemented" (in the
  golden fixture) satisfies.
- DNS timeouts and other errors count as missing records and fail the domain, where
  `dns-security-config.ts:9` says that gaps are a Review.
- `CA-MFA-ALL-001` counts `mfa` under OR and with exclusions, `CA-MFA-ADMIN-001` does not.
  `CA-STALEREF-001` looks at 50 groups, and only a 404 counts: with
  more groups the order in which Graph lists the policies decides between Pass and Fail, so `OnlyEnforcedPoliciesCount`
  claims it only for lists with no more groups than are looked up.
- `ENTRA-ADMIN-003`: naming the first emergency account turns Pass into Fail, since cloud-only accounts count only where
  none is named (`entra-mfa-consent-additional.ts:155`); it is the one exception in `SaferNeverWorse`
  (`FirstNamed`). `ENTRA-ADMIN-004` passes when
  no administrator is listed. `ENTRA-APPS-002` looks for permission names among GUIDs. `ENTRA-CONSENT-003` looks for
  an id without the prefix that Graph's ids have, so it never finds it. `ENTRA-GROUP-003` may judge an earlier response.
- `password-auth-checks.ts:405` takes an empty banned list for one entry; line 602 reads settings that
  `user-group-checks.ts:494` stores later (documented as taken over). `COMPLIANCE-AUDIT-001` passes whatever
  the answer. A report collector that throws ends the rest of the identity section.

## 5. Theorems

`RunLifecycleProofs` proves, for any finite or infinite sets of users, runs and tasks
and any `MaxRows` and `Limits`, under `ConstantsAssumption` alone:

- `TypeCorrect`: `Spec => []TypeOK`.
- `Inductive`: `Spec => []IInv`. `OneExecutionPerRun` is not inductive: to
  show that `Begin` does not start a second execution one must know that an executed
  run is no longer queued (`ExecutingHasBegun`). `RowsInOrder` needs the counters of
  the executing task to match the stored rows (`CountersMatch`), and that a run
  not yet begun has none (`UnstartedHasNoRows`), which in turn rests on exclusive
  execution.
- `ExclusiveExecution`, `RowsStayInOrder`, `CompletedStaysFinal`: from `IInv`.
- `OneLiveRun`: the gate, from the fact that only `Post` makes a run live.
- `SingleUserRunning`, `SingleUserImplements`: with at most one account, an executed
  run is stored as running, and the tables implement `RunContract` step by step.

`GraphTransportProofs` proves, for any callers, tenants, secrets, page cap, retries
and delays, and any margin below the lifetime of a token (`TokenAssumption`,
`NoneAssumption`, `TransportAssumption`):

- `Inductive`: `Spec => []IInv`, one conjunct for a call under way (`UnderWay`), one for a
  token that was sent (`Sent`) and one for a call that has ended (`Ended`). `Sent` is
  what makes `ExpiresOnlyPastMargin` provable: until the margin is spent, what the
  token has left and what the page has spent add up to more than the margin.
- `TypeCorrect`, `MarginIsHonoured`, `TruncationStaysLoud`, `RetriesStayExact`,
  `PagesStayOnGraph`, `AwaitedDiscoveries`: from `IInv`.
- `PagesStayInOrder`: with `MergeOK`, that a call under way has merged exactly the pages
  before the current one, as a second induction on top of `IInv`.
- `SecretNeverOverwritten`: no step replaces a stored secret.

`SectionRunnerProofs` proves, for any sections, collectors, threshold and number of rows:

- `Inductive`: `Spec => []IInv`. Every property relates what was streamed to what the loop
  holds, so `IInv` says that the rows at hand are those streamed of the section
  (`StreamsOK`) and that the breaker's count and the sub-number counters describe those
  rows (`CountsErrors`, `CountsRows`), whose runs of errors and equal ids are sets of places
  rather than recursive counts.
- `TypeCorrect`, `BreakerExact`, `CheckIds`, `StreamsAreResults`: from `IInv`.
- `EventOrder`: the runner implements `EngineEvents`, step by step, with `EventsOK` tying the
  place in the loop to the latest event.

`RunStreamsProofs` proves, for any pages, streams, runs, tasks and budgets of losses, crashes and
failing writes:

- `StreamsKeepRuns`: `StreamsSpec => Spec`. Bus and streams only read the tables, so every
  theorem of `RunLifecycleProofs` holds of the whole.
- `StreamsInductive`, under `SingleUser`: `StreamsInv`. A list is right only once the wire is read, so
  the invariant speaks of the list that a page *will* have then (`Upcoming`): it has every
  stored row, in order, and nothing beyond what was emitted. That needs a served stream to be subscribed
  while its run may still emit, or the run to be settled, i.e. over and executed by no task (`StreamsOK`).
- `StreamsTypeCorrect`, `MissesNothing`, `BusForgets`: from it, under `SingleUser`. With two accounts the sweep
  ends a run whose task goes on to emit (run `sweep_live_run`), and what a page of such a run
  lists is not claimed.
- What a page lists after its wire is defined by recursion. The provers have induction for sets of numbers
  only (`SetInduction`), so the lemmas speak of the whole trace of lists, one per frame.

`TenantConnectionProofs` proves, for any accounts, tabs, tenants and roles, and any number of sign-ins and
connects:

- `SessionsInductive`, `StatesAreSingleUse`: the state cookie holds the last attempt or nothing, and never one that was
  answered (`CookieIsFresh`), because every answer clears it and every sign-in replaces it; an attempt is
  begun before a tab carries it or a code is given for it (`OwnAttempts`, `CodesBegan`).
- `ConnectionInductive`: the state cookie and every callback under way are of an account that started a
  connect, and every other request that holds a tenant is of an account that has been connected to it
  (`FlowOK`). `ConnectionTypes`, `OwnConnects` and `OwnRuns` follow.
- `VerdictsAreProved`: the invariant also says of every verification under way, stored, or relied on at the gate whether it was
  proved; `ProvedVerdict` shows that `verifyAppPermissions` grants exactly what token and probes
  prove. `DisconnectionSticks`: about every step.

`DnsChecksProofs` proves, for any number of domains, zones and failing look-ups: `Inductive`, `AtMostTwice` and
`VerdictsFollow`. `IInv` says for every name whether the first loop that asks for it is past it
(`Passed`): before, it was asked only as often as the attempt under way says; after, its answer is cached
or its domain is left out, so that no later loop asks again. `Truthful` ties every cached answer to the zone or to a look-up
that was lost.

`RunViewsProofs` proves of `SectionProgress`, for any sections, rows, failing inserts and lost connections:

- `FollowsEvents`: `ProgressSpec => ESpec`. With `EventOrder`, what is proved of the page is proved for the
  events of the runner.
- `Inductive`: `ProgressSpec => []IInv`. As with the lists, `RunningIsCurrent` holds only of a page that is up
  to date, so `IInv` says what the frames still on the wire make of each section (`EndsAs`): it is running only if
  the engine is in it, and its checks are emitted ones, each once, all of them stored but the lost ones, and none
  of the stored ones missing.
- `RunningStaysCurrent`: from `IInv`.
- The lemmas about `Orders`: an element that comes later in a strict order has more before it, so places are
  distinct and all taken (`ArrangedInOrder`); filtering a list that grows at its end appends (`InSectionAppend`).

and of `RunViews`, with any registry, base ids and severities in addition:

- `RowsAreTyped`: each row has a known section, base id and status, from `ViewsAssumption`.
- `SortedSorts`: `Sorted` is a permutation in the order of the keys that keeps equal keys in place. `Before` is
  total because two different keys have a least place where they differ.
- `PageShowsReport`: by `IInv` the page has the stored rows of each section, and the findings are those rows in another order.
- `RemediationStaysSorted`: where the second sort sees no difference it keeps the order of the first, which has
  decided by check id (`OpenThenFinding`).
- `ScoresCountOnce`: the drill-down of a framework is in bijection with the rows that map to it.

`CollectorsProofs` proves, for any policies, groups, locations, apps, registrations and authorization
policies that Graph may answer, and any sections:

- `Inductive`: `Spec => []IInv`. A property of a section speaks of what one check has just made of one answer, so
  all that must be known of the state is which request it is in (`PlaceOK`), that the verdicts are those of its
  last check (`JudgingOK`) or of its failed call (`FailureOK`).
- `UnreadStaysUnjudged`, `OnlyEnforcedCount`, `DemandsStayNested`, `SaferStaysNoWorse`: from `IInv` and the lemma
  that every request of every collector is `Lawful` (`CollectorsAreLawful`). `Lawful` says of a request, without
  any state, what the four properties say of the state that judges it; it is proved request by request, with
  one lemma per collector, and for a list of requests from its parts (`JoinedAreLawful`).
- `UnreadStaysUnjudged` and `SaferStaysNoWorse` name what the code makes an exception of (`JudgedUnread`, `FirstNamed`), so they claim
  nothing of those checks and everything of all others.
- Most requests judge one setting, and there `Lawful` follows from the order of its scale. The two that need an argument
  of their own are those of policies and apps. Every check of `ca-security-config` passes by the *set* of
  enabled policies, which is plain except for `CA-STALEREF-001`: it looks up the first 50 groups of a
  list. If the enabled policies name no more than that, fewer than 50 others come before the first place where a group
  is named, so every group is looked up in any order (`AllLookedUp`); if they name more, the verdict does depend on
  the order, and the property leaves it out (`AboutMore`). With fewer apps the
  joined reads give the same of each that is left (`FewerApps`), and a count can only fall (`FewerRises`).
- The assumptions: Graph's lists are finite, groups are named by strings,
  and no locations are listed where their read failed (`ConditionalAccessAssumption`, `EnterpriseAppsAssumption`).
  All of that is so by the types of a JSON answer and by the initial values of the code.

Only model-checked:

- Liveness (`EveryRunEnds`, `CompletionIsAnnounced`, `RunFinishes`, `EveryCallEnds`), out of the prover's reach as
  it rests on fairness.

Three properties are proved and no longer part of a run, since the theorems
cover every instance: `ExecutingIsRunning`, `PagesComeFromGraph` and `NoSilentOverwrite`.

## 6. Plan

Every invariant and action property of the passing runs is stated by a theorem, and so are the two refinements
`RunContract` (with one account) and `EngineEvents`. What could be added is one composition of `RunLifecycle` with
`SectionRunner`: in the former a run's rows are numbers, in the latter the run is one of the section loop, and the
rows go from one to the other in the callback of `run-executor.ts`.

## 7. Not modelled

- The command line (`engine/cli/assess.ts`): arguments and output around `runEngine`, one call, no state.
- Opening the database and its migrations, once at start-up before any request.
- React rendering, HTML text, the elapsed timer, formatting: no state that another part reads.
- Control data, which is generated; encryption and cookie signatures, which are taken to work.
- `rotateOperatorCredential`, which nothing calls.
- The Power BI client is the Graph client with another host, see `GraphTransport`.
