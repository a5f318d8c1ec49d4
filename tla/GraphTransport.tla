--------------------------- MODULE GraphTransport ---------------------------
(***************************************************************************)
(* getJson: one list read over Graph, page after page, each page with its  *)
(* own token and its own retries.  Power BI's transport is the same code   *)
(* with another host.  Every caller of TokenCache that uses the cache is   *)
(* an assessment that reads one list after another.                        *)
(*                                                                         *)
(* The server decides how many pages there are, and answers anything.  A   *)
(* page is named by its number; merged is the sequence of the pages whose  *)
(* values the call has collected.                                          *)
(***************************************************************************)
EXTENDS TokenCache, Sequences

CONSTANTS
  maxPages,
  maxRetries

ASSUME TransportAssumption ==
  /\ maxPages \in Nat \ {0}
  /\ maxRetries \in Nat

VARIABLES
  stage,    \* where getJson is
  call,     \* its locals
  outcome   \* how the latest call of an assessment ended

callVars == <<stage, call, outcome>>
vars     == <<tokenVars, callVars>>

Call == [pageCount : Nat,          \* pages asked for
         merged    : Seq(Nat),     \* allValues
         attempt   : Nat,          \* failed attempts at this page
         elapsed   : Nat,          \* since this page's token was returned, up to the margin
         url       : {"graph", "elsewhere", ""},  \* host of the link to read, if any is left
         warned    : BOOLEAN]

NoCall == [pageCount |-> 0, merged |-> <<>>, attempt |-> 0, elapsed |-> 0,
           url |-> "", warned |-> FALSE]

\* Type invariant; a call that is under way has a page to fetch.
TypeOK ==
  /\ TokenTypeOK
  /\ stage \in [Callers -> {"none", "token", "fetch", "delay"}]
  /\ call \in [Callers -> Call]
  /\ outcome \in [Callers -> {"none", "list", "object", "fatal", "refused", "exhausted", "no token"}]
  /\ \A c \in Callers :
       /\ stage[c] # "none" => call[c].pageCount \in 1..maxPages /\ session[c] # None
       /\ stage[c] \in {"fetch", "delay"} => token[c] # None

Init ==
  /\ TokenInit
  /\ stage = [c \in Callers |-> "none"]
  /\ call = [c \in Callers |-> NoCall]
  /\ outcome = [c \in Callers |-> "none"]

-----------------------------------------------------------------------------
(* The call and its token.                                                 *)

Drop(c) == token' = [token EXCEPT ![c] = None]

Return(c, result) ==
  /\ stage' = [stage EXCEPT ![c] = "none"]
  /\ outcome' = [outcome EXCEPT ![c] = result]

\* An assessment calls getJson, which asks for the first page's token.
getJson(c) ==
  /\ stage[c] = "none"
  /\ pc[c] = "open"
  /\ session[c].cached
  /\ stage' = [stage EXCEPT ![c] = "token"]
  /\ call' = [call EXCEPT ![c] = [NoCall EXCEPT !.pageCount = 1, !.url = "graph"]]
  /\ outcome' = [outcome EXCEPT ![c] = "none"]
  /\ UNCHANGED tokenVars

\* A path that is not relative, a method other than GET, a role not granted.
Misuse(c) ==
  /\ stage[c] = "none"
  /\ pc[c] = "open"
  /\ session[c].cached
  /\ Return(c, "fatal")
  /\ call' = [call EXCEPT ![c] = NoCall]
  /\ UNCHANGED tokenVars

\* Callers that have their token send the request at once; attempts restart.
Send(cs) ==
  /\ stage' = [c \in Callers |-> IF c \in cs /\ stage[c] = "token" THEN "fetch" ELSE stage[c]]
  /\ call' = [c \in Callers |-> IF c \in cs /\ stage[c] = "token"
                                THEN [call[c] EXCEPT !.attempt = 0, !.elapsed = 0] ELSE call[c]]
  /\ UNCHANGED outcome

\* Callers whose request for a token threw: so does getJson.
Rethrow(cs) ==
  /\ stage' = [c \in Callers |-> IF c \in cs THEN "none" ELSE stage[c]]
  /\ outcome' = [c \in Callers |-> IF c \in cs /\ stage[c] = "token" THEN "no token" ELSE outcome[c]]
  /\ UNCHANGED call

\* getToken, or a verification that mints its own.
GetToken(c) ==
  /\ pc[c] # "idle"
  /\ stage[c] = IF session[c].cached THEN "token" ELSE "none"
  /\ \/ Hit(c) /\ Send({c})
     \/ Miss(c) /\ UNCHANGED callVars
     \/ GrantSucceeds(c) /\ Send({c})
     \/ GrantFails(c) /\ Rethrow({c})

Discovery(t) ==
  \/ DiscoverySucceeds(t) /\ UNCHANGED callVars
  \/ DiscoveryFails(t) /\ Rethrow(Waiting(t))

-----------------------------------------------------------------------------
(* fetchPageWithRetry.                                                     *)

\* Faults, for checking that the properties notice them: values pushed on every
\* attempt, one retry too few, retries that are not counted.
TransientFaultMerge(c) ==
  /\ call' = [call EXCEPT ![c].attempt = @ + 1, ![c].merged = Append(@, call[c].pageCount)]
  /\ IF call[c].attempt + 1 > maxRetries
     THEN Return(c, "exhausted") /\ Drop(c)
     ELSE stage' = [stage EXCEPT ![c] = "delay"] /\ UNCHANGED <<outcome, token>>

TransientFaultEarly(c) ==
  /\ call' = [call EXCEPT ![c].attempt = @ + 1]
  /\ IF call[c].attempt + 1 >= maxRetries
     THEN Return(c, "exhausted") /\ Drop(c)
     ELSE stage' = [stage EXCEPT ![c] = "delay"] /\ UNCHANGED <<outcome, token>>

TransientFaultEndless(c) ==
  /\ stage' = [stage EXCEPT ![c] = "delay"]
  /\ UNCHANGED <<call, outcome, token>>

\* A network failure, or 429, 503, 504: wait, or give up when retries are exhausted.
Transient(c) ==
  /\ call' = [call EXCEPT ![c].attempt = @ + 1]
  /\ IF call[c].attempt + 1 > maxRetries
     THEN Return(c, "exhausted") /\ Drop(c)
     ELSE stage' = [stage EXCEPT ![c] = "delay"] /\ UNCHANGED <<outcome, token>>

\* Any other failure: of another status, or an answer that is not JSON.
Refused(c) ==
  /\ Return(c, "refused")
  /\ Drop(c)
  /\ UNCHANGED call

\* The values of a page read, whose token and attempts are forgotten.
Read(c) == [call[c] EXCEPT !.merged = Append(@, call[c].pageCount), !.attempt = 0, !.elapsed = 0]

\* A body without value: the result itself on the first page, the end later.
NotCollection(c) ==
  /\ Return(c, IF call[c].pageCount = 1 THEN "object" ELSE "list")
  /\ call' = [call EXCEPT ![c].url = "", ![c].attempt = 0, ![c].elapsed = 0]
  /\ Drop(c)

LastPage(c) ==
  /\ call' = [call EXCEPT ![c] = [Read(c) EXCEPT !.url = ""]]
  /\ Return(c, "list")
  /\ Drop(c)

\* resolveNextUrl refuses another host, and what is no link.
ForeignLink(c) ==
  /\ call' = [call EXCEPT ![c] = Read(c)]
  /\ Return(c, "fatal")
  /\ Drop(c)

\* Faults: one page more than the cap; the cap reached without a warning.
NextPageFaultBeyond(c) ==
  /\ call[c].pageCount <= maxPages
  /\ call' = [call EXCEPT ![c] = [Read(c) EXCEPT !.pageCount = @ + 1]]
  /\ stage' = [stage EXCEPT ![c] = "token"]
  /\ UNCHANGED outcome
  /\ Drop(c)

NextPageFaultSilent(c) ==
  /\ \/ /\ call[c].pageCount < maxPages
        /\ call' = [call EXCEPT ![c] = [Read(c) EXCEPT !.pageCount = @ + 1]]
        /\ stage' = [stage EXCEPT ![c] = "token"]
        /\ UNCHANGED outcome
     \/ /\ call[c].pageCount >= maxPages
        /\ call' = [call EXCEPT ![c] = Read(c)]
        /\ Return(c, "list")
  /\ Drop(c)

\* Follow the link, unless the page cap is reached.
NextPage(c) ==
  /\ \/ /\ call[c].pageCount < maxPages
        /\ call' = [call EXCEPT ![c] = [Read(c) EXCEPT !.pageCount = @ + 1]]
        /\ stage' = [stage EXCEPT ![c] = "token"]
        /\ UNCHANGED outcome
     \/ /\ call[c].pageCount >= maxPages
        /\ call' = [call EXCEPT ![c] = [Read(c) EXCEPT !.warned = TRUE]]
        /\ Return(c, "list")
  /\ Drop(c)

Retry(c) ==
  /\ stage[c] = "delay"
  /\ stage' = [stage EXCEPT ![c] = "fetch"]
  /\ UNCHANGED <<tokenVars, call, outcome>>

\* The answer to a request.
Respond(c) ==
  /\ stage[c] = "fetch"
  /\ \/ Transient(c) \/ Refused(c)
     \/ NotCollection(c) \/ LastPage(c) \/ ForeignLink(c) \/ NextPage(c)
  /\ UNCHANGED <<stored, caches, pc, session, client>>

-----------------------------------------------------------------------------
Sending(c) == stage[c] \in {"fetch", "delay"}

\* Time passes, whoever is waiting: a Retry-After and an answer take as long as
\* they take.  Past the margin elapsed only says that it is past.
Tick ==
  /\ Age
  /\ call' = [c \in Callers |-> IF Sending(c) /\ call[c].elapsed <= Margin
                                THEN [call[c] EXCEPT !.elapsed = @ + 1] ELSE call[c]]
  /\ UNCHANGED <<stage, outcome>>

OpenSession(c) == \E t \in Tenants, cached \in BOOLEAN : Open(c, t, cached) /\ UNCHANGED callVars

CloseSession(c) ==
  /\ stage[c] = "none"
  /\ Shut(c)
  /\ call' = [call EXCEPT ![c] = NoCall]
  /\ outcome' = [outcome EXCEPT ![c] = "none"]
  /\ UNCHANGED stage

CallStep(c) == GetToken(c) \/ Respond(c) \/ Retry(c)

Next ==
  \/ \E c \in Callers : OpenSession(c) \/ CloseSession(c) \/ getJson(c) \/ Misuse(c) \/ CallStep(c)
  \/ \E t \in Tenants : Discovery(t)
  \/ ((\E s \in Secrets : SaveSecret(s)) \/ DeleteSecret) /\ UNCHANGED callVars
  \/ Tick

Spec == Init /\ [][Next]_vars

\* Requests are answered or time out, and delays end.
Fairness ==
  /\ \A c \in Callers : WF_vars(stage[c] # "none" /\ CallStep(c))
  /\ \A t \in Tenants : WF_vars(Discovery(t))

FairSpec == Spec /\ Fairness

-----------------------------------------------------------------------------
(* Safety.                                                                 *)

\* getTokenForResource hands out a token with more than TOKEN_EXPIRY_MARGIN_MS
\* left, and getJson asks again before every page: a request is sent with an
\* expired token only after more than the margin was spent on the retries of
\* that one page, however old the cached token was and whatever the pages
\* before took.  Nothing bounds those retries (retry-policy.ts:30-32).
ExpiresOnlyPastMargin ==
  \A c \in Callers : Sending(c) /\ call[c].elapsed <= Margin => token[c] > 0

\* Truncation is never silent: a list is returned with a link unread if and only
\* if the page cap was warned of.
TruncationIsLoud ==
  \A c \in Callers : outcome[c] = "list" => (call[c].warned <=> call[c].url # "")

\* Whatever retries, throttling and new tokens come between, the values of
\* every page before the current one are merged once and in order.
PagesMergeInOrder ==
  \A c \in Callers : \E n \in {call[c].pageCount, call[c].pageCount - 1} :
     call[c].merged = [i \in 1..n |-> i]

\* A page is tried once and then maxRetries times, never less before it is given
\* up and never more; the count does not carry over to the next page.
RetriesAreExact ==
  \A c \in Callers :
    /\ Sending(c) => call[c].attempt <= maxRetries
    /\ outcome[c] = "exhausted" => call[c].attempt = maxRetries + 1

\* No request leaves for another host, whatever the links say.
PagesComeFromGraph ==
  \A c \in Callers : Sending(c) => call[c].url = "graph"

\* A caller that awaits a discovery awaits one that is under way: the shared
\* promise is not evicted, or replaced, under it.
AwaitedDiscoveryIsUnderWay ==
  \A c \in Callers : pc[c] = "discovery" => IsDiscovering(session[c].tenant)

\* The stored secret is never overwritten; a rotation deletes it first.
NoSilentOverwrite ==
  [][stored # None => stored' \in {stored, None}]_vars

\* Every list read ends, however often it is throttled and whatever fails.
EveryCallEnds ==
  \A c \in Callers : stage[c] # "none" ~> stage[c] = "none"

\* "The client secret is only ever passed as a grant parameter": a grant is made
\* with the secret its caller passed.  It is made with the secret of whoever
\* created the tenant's client.
GrantUsesCallersSecret ==
  \A c \in Callers : pc[c] = "grant" => client[c] = session[c].secret
=============================================================================
