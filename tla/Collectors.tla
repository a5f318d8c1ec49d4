------------------------------ MODULE Collectors ------------------------------
(***************************************************************************)
(* A section of a run: its collectors run one after another, each of them  *)
(* asks Graph for one thing after another, and the answers are judged      *)
(* check by check.  What the collectors ask and how they judge is in the   *)
(* modules below; here is the order in which it happens, with whatever     *)
(* Graph may answer and whichever calls fail.                              *)
(*                                                                         *)
(* The DNS collector between the two Exchange ones is DnsChecks.           *)
(***************************************************************************)
EXTENDS DirectorySettings, EnterpriseApps, Collaboration, DeviceChecks, Workloads

CONSTANT Sections  \* the sections to run

-----------------------------------------------------------------------------

\* IMPLEMENTATIONS: the collectors of each section in their order, each of them a
\* sequence of requests.
Collectors ==
  [tenant        |-> <<runTenantInfo>>,
   identity      |-> <<userSummary, mfaReport, adminRoleReport, conditionalAccessReport,
                       appRegistrationReport, passwordPolicyReport, entraSecurityConfig,
                       caSecurityConfig, entAppSecurityConfig, entraSodConfig, entraTouConfig,
                       entraPrivRemote, entraAdminRoleSeparation, entraCaRemoteDevice,
                       entraBreakglassConfig, entraPimAdditionalConfig,
                       entraAuthMethodAdditional, entraGroupAdditional,
                       entraMfaConsentAdditional, entraFinalBatch>>,
   licensing     |-> <<runLicenseReport>>,
   security      |-> <<runSecureScoreReport, runDefenderSecurityConfig,
                       runComplianceSecurityConfig, runDefenderDropBatch>>,
   intune        |-> <<deviceComplianceReport, configProfileReport, runIntuneSecurityConfig,
                       runIntuneFipsConfig>>,
   exchange      |-> <<runExchangeSecurityConfig, runExchangeDropBatch>>,
   collaboration |-> <<runSharePointSecurityConfig, runTeamsSecurityConfig,
                       runFormsSecurityConfig>>,
   purview       |-> <<runPurviewRetentionConfig>>,
   inventory     |-> <<runMailboxInventory, runOneDriveInventory, runSharePointInventory,
                       runTeamsInventory, runGroupInventory, runRemainingDropBatch>>,
   powerbi       |-> <<runPowerBISecurityConfig>>]

ASSUME CollectorsAssumption == Sections \subseteq DOMAIN Collectors

VARIABLES
  section,   \* the section that runs
  collector, \* its collector
  turn,      \* the collector's request
  how,       \* what became of the request, or of the section
  answer,    \* Graph's answer to it
  checked,   \* how many checks have judged the answer
  verdicts,  \* what the last of them, or the failed call, added
  store      \* the fields of earlier answers that are still needed

vars == <<section, collector, turn, how, answer, checked, verdicts, store>>

now     == Collectors[section][collector][turn]
Failures == {"refused", "failed", "declined"}

Interrupted == verdicts \cap (Stops \cup Returns \cup Leaves) # {}

-----------------------------------------------------------------------------
Init ==
  /\ section \in Sections
  /\ collector = 1
  /\ turn = 1
  /\ how = "asking"
  /\ answer = <<>>
  /\ checked = 0
  /\ verdicts = NoRows
  /\ store = <<>>

\* A field that was never stored is unread for those who care.
Agrees(a) ==
  \A f \in now.shares :
    IF f \in DOMAIN store THEN a[f] = store[f]
    ELSE Unread \in {b[f] : b \in DOMAIN now.checks} => a[f] = Unread

Store(a) ==
  [f \in DOMAIN store \cup now.keeps |-> IF f \in now.keeps THEN a[f] ELSE store[f]]

Answer(a) ==
  /\ how = "asking"
  /\ Agrees(a)
  /\ how' = "answered"
  /\ answer' = a
  /\ checked' = 0
  /\ verdicts' = NoRows
  /\ store' = Store(a)
  /\ UNCHANGED <<section, collector, turn>>

\* An exception inside a check is taken for a failed call.
Judge ==
  /\ how = "answered"
  /\ checked < Len(now.checks[answer])
  /\ ~Interrupted
  /\ checked' = checked + 1
  /\ verdicts' = LET added == now.checks[answer][checked + 1]
             IN  IF Stops \subseteq added THEN added \cup now.failed ELSE added
  /\ UNCHANGED <<section, collector, turn, how, answer, store>>

\* The call fails, a fatal transport error included where nobody tells it apart.
Fail(kind) ==
  /\ how = "asking"
  /\ now.calls
  /\ now.fails
  /\ how' = kind
  /\ answer' = <<>>
  /\ checked' = 0
  /\ verdicts' = CASE kind = "refused"  -> now.refused
               [] kind = "failed"   -> now.failed
               [] kind = "declined" -> now.declined
  /\ UNCHANGED <<section, collector, turn, store>>

\* A fatal transport error leaves the collector, and with it the section.
Fatal ==
  /\ how = "asking"
  /\ now.calls
  /\ ~now.swallows
  /\ how' = "left"
  /\ answer' = <<>>
  /\ checked' = 0
  /\ verdicts' = NoRows
  /\ store' = <<>>
  /\ UNCHANGED <<section, collector, turn>>

Done ==
  \/ how \in Failures
  \/ how = "answered" /\ (checked = Len(now.checks[answer]) \/ Interrupted)

Begin(c, r) ==
  /\ collector' = c
  /\ turn' = r
  /\ how' = "asking"
  /\ answer' = <<>>
  /\ checked' = 0
  /\ verdicts' = NoRows
  /\ UNCHANGED section

LastRequest == turn = Len(Collectors[section][collector])
Returned    == Returns \subseteq verdicts \/ LastRequest

NextRequest ==
  /\ Done
  /\ ~(Leaves \subseteq verdicts)
  /\ ~Returned
  /\ Begin(collector, turn + 1)
  /\ store' = [f \in DOMAIN store \ now.forgets |-> store[f]]

\* A collector keeps nothing for the next one that this one reads.
NextCollector ==
  /\ Done
  /\ ~(Leaves \subseteq verdicts)
  /\ Returned
  /\ collector < Len(Collectors[section])
  /\ Begin(collector + 1, 1)
  /\ store' = <<>>

EndSection ==
  /\ Done
  /\ Leaves \subseteq verdicts \/ (Returned /\ collector = Len(Collectors[section]))
  /\ how' = IF Leaves \subseteq verdicts THEN "left" ELSE "ended"
  /\ answer' = <<>>
  /\ checked' = 0
  /\ verdicts' = NoRows
  /\ store' = <<>>
  /\ UNCHANGED <<section, collector, turn>>

Next ==
  \/ how = "asking" /\ \E a \in DOMAIN now.checks : Answer(a)
  \/ Judge
  \/ \E kind \in Failures : Fail(kind)
  \/ Fatal
  \/ NextRequest
  \/ NextCollector
  \/ EndSection

Spec == Init /\ [][Next]_vars

-----------------------------------------------------------------------------
(* What a verdict is worth *)

Worth == [Fail |-> 0, Warning |-> 1, Review |-> 2, Info |-> 2, Skipped |-> 2, Unknown |-> 2,
          NotLicensed |-> 2, Pass |-> 3]

Ids(added) == {row[1] : row \in Judged(added)}

\* The worst row of a check id.
Worst(added, id) ==
  CHOOSE w \in 0..3 :
    /\ \E row \in Judged(added) : row[1] = id /\ Worth[row[2]] = w
    /\ \A row \in Judged(added) : row[1] = id => Worth[row[2]] >= w

\* A check has just judged an answer with such a field.
HasJudged(field) == how = "answered" /\ checked > 0 /\ field \in DOMAIN answer
Verdict(a)     == now.checks[a][checked]

-----------------------------------------------------------------------------
(* Properties *)

\* b is the tenant of the answer with a setting made more secure, or with fewer apps.
Safer(b) ==
  \/ now.scales # <<>> /\ Stricter(now.scales, answer, b)
  \/ /\ "principals" \in DOMAIN answer
     /\ b.principals \subseteq answer.principals
     /\ b = [answer EXCEPT !.principals = b.principals]

\* The first emergency account with a telling name: from then on the accounts without
\* one no longer count, and where they were enough for a pass there is none.
FirstNamed(a, b) == "emergency" \in DOMAIN a /\ a.emergency = 0 /\ b.emergency > 0

\* Making settings of the tenant more secure, or removing apps from it, and leaving all
\* else as it is, never gives a worse verdict: each comparison in each collector has the
\* polarity that its scale has.  The one exception in the code is ENTRA-ADMIN-003.
SaferNeverWorse ==
  how = "answered" /\ checked > 0 =>
    \A b \in DOMAIN now.checks : Safer(b) /\ ~FirstNamed(answer, b) =>
      \A id \in Ids(verdicts) \cap Ids(Verdict(b)) : Worst(verdicts, id) <= Worst(Verdict(b), id)

\* The read that failed in an answer, where there is one.
unreadOf(a) ==
  IF "unread" \in DOMAIN a THEN a.unread
  ELSE IF "policiesRead" \in DOMAIN a THEN "policies"
  ELSE IF "membersRead" \in DOMAIN a /\ a.membersRead THEN "eligible" ELSE "none"

\* The checks that take what could not be read for empty and judge it all the same.
JudgedUnread ==
  [none             |-> {},
   policies         |-> {"CA-MFA-ADMIN-001", "CA-MFA-ALL-001", "CA-LEGACYAUTH-001",
                         "CA-SIGNIN-FREQ-001", "CA-PHISHRES-001", "CA-USERRISK-001",
                         "CA-SIGNINRISK-001", "CA-SIGNINRISK-002", "CA-DEVICE-001",
                         "CA-DEVICE-002", "CA-INTUNE-001", "CA-DEVICECODE-001",
                         "CA-REPORTONLY-001", "CA-SESSION-001", "CA-RISKPOLICY-001",
                         "CA-FALLBACK-001", "CA-NAMEDLOC-002", "CA-STALEREF-001",
                         "ENTRA-BREAKGLASS-001"},
   defaults         |-> {"CA-MFA-ADMIN-001", "CA-MFA-ALL-001", "CA-LEGACYAUTH-001",
                         "CA-SIGNINRISK-002"},
   groups           |-> {"CA-STALEREF-001"},
   eligible         |-> {"ENTRA-PIM-001"},
   organization     |-> ForeignIds \cup {"ENTRA-ENTAPP-010"},
   servicePrincipals |-> PrincipalIds,
   roleAssignments  |-> {"ENTRA-ENTAPP-005", "ENTRA-ENTAPP-009", "ENTRA-ENTAPP-015",
                         "ENTRA-ENTAPP-017"},
   permissions      |-> {"ENTRA-ENTAPP-003", "ENTRA-ENTAPP-006", "ENTRA-ENTAPP-008",
                         "ENTRA-ENTAPP-010", "ENTRA-ENTAPP-011", "ENTRA-ENTAPP-016",
                         "ENTRA-ENTAPP-019"},
   oauth2Grants     |-> {"ENTRA-ENTAPP-004"},
   applications     |-> RegistrationIds]

\* No verdict on the tenant comes of what Graph did not tell.  A call that is refused or
\* fails gives none; and where a collector goes on without a read that failed, a check
\* outside JudgedUnread passes or fails only if it would whatever that read had told.
UnreadIsNotJudged ==
  /\ how \in Failures => \A row \in Judged(verdicts) : row[2] \notin {"Pass", "Fail"}
  /\ how = "answered" /\ checked > 0 /\ answer \in DOMAIN now.untold =>
       \A row \in Judged(verdicts) :
         row[2] \in {"Pass", "Fail"} /\ row[1] \notin JudgedUnread[unreadOf(answer)] =>
           \A b \in now.untold[answer] : row \in Verdict(b)

\* Verdicts that are about policies that are not enforced on purpose.
AboutUnenforced == {"CA-REPORTONLY-001", "ENTRA-CA-002"}

\* And the verdict on the groups that policies name, when they are too many to look up
\* all: the order of the policies then decides which of them are.
AboutMore(a) ==
  AboutUnenforced
    \cup {id \in {"CA-STALEREF-001"} : Cardinality(namedGroups(a)) > MaxProbes}

\* No check passes on the strength of a policy that is disabled or only reports, nor by
\* the order in which Graph lists the policies: it passes as well with any other answer
\* of which the same policies are enforced.
OnlyEnforcedPoliciesCount ==
  HasJudged("policies") =>
    \A list \in PolicyLists :
      LET other == [answer EXCEPT !.policies = list]
      IN  enabledPolicies(other) = enabledPolicies(answer) /\ other \in DOMAIN now.checks =>
            \A id \in Ids(verdicts) \ AboutMore(answer) :
              Worst(verdicts, id) = 3 /\ id \in Ids(Verdict(other)) => Worst(Verdict(other), id) = 3

\* Pairs of checks of one answer of which the first demands more.
Demands ==
  {<<"CA-DEVICE-002", "CA-DEVICE-001">>, <<"CA-SIGNINRISK-002", "CA-SIGNINRISK-001">>,
   <<"ENTRA-SECDEFAULT-002", "ENTRA-SECDEFAULT-001">>, <<"ENTRA-PIM-006", "ENTRA-PIM-009">>,
   <<"PURVIEW-RETENTION-005", "PURVIEW-RETENTION-001">>}

\* A check that demands more of the same answer never passes where the one that
\* demands less does not.
DemandsAreNested ==
  how = "answered" /\ checked > 0 =>
    \A demand \in Demands :
      demand[1] \in Ids(verdicts) /\ Worst(verdicts, demand[1]) = 3 =>
        \A k \in 1..Len(now.checks[answer]) :
          LET other == now.checks[answer][k]
          IN  demand[2] \in Ids(other) => Worst(other, demand[2]) = 3
=============================================================================
