------------------------------ MODULE Workloads -------------------------------
(***************************************************************************)
(* The collectors of the sections tenant, licensing, security, exchange    *)
(* (without DNS, see DnsChecks), purview, inventory and powerbi.           *)
(***************************************************************************)
EXTENDS CollectorRows

\* A list that may be empty, reported as it is.
Reported == [listed : BOOLEAN]
reported(a) == IF a.listed THEN Row(NoId, "Info") ELSE NoRows

-----------------------------------------------------------------------------
(* tenant-info, license-report: a failed call is not caught *)

\* A look at the security defaults may fail in any way.
organization(a) == reported(a)
runTenantInfo ==
  <<Request(Always(<<>>), Leaves, Leaves), Request(Always(<<>>), Leaves, Leaves),
    Swallowing(Request(Always(<<>>), NoRows, NoRows)),
    Local(Request([a \in Reported |-> <<organization(a)>>], NoRows, NoRows))>>

licences(a) == reported(a)
runLicenseReport == <<Request([a \in Reported |-> <<licences(a)>>], Leaves, Leaves)>>

-----------------------------------------------------------------------------
(* secure-score-report, defender-security-config *)

\* Of the control profiles a score is only made more precise.
secureScores(a)  == IF a.listed THEN NoRows ELSE Returns
scoreReported(a) == Row("DEFENDER-SECURESCORE-001", "Info")
runSecureScoreReport ==
  LET Skipped == Row("DEFENDER-SECURESCORE-001", "Skipped") \cup Returns
      Score   == Row("DEFENDER-SECURESCORE-001", "Info")
  IN <<Request([a \in Reported |-> <<secureScores(a)>>],
               Skipped, Returns), Request([a \in {<<>>} |-> <<scoreReported(a)>>], Score, Score)>>

DefenderIds == {"DEFENDER-ANTIPHISH-001", "DEFENDER-ANTISPAM-001", "DEFENDER-SAFELINKS-001",
                "DEFENDER-SAFEATTACH-001"}

\* What the profile of a control says: there may be none, it may be managed by a preset
\* policy, or give a status, of which the code looks for "implemented" anywhere in it.
Statuses        == <<"NotImplemented", "Implemented">>
ControlProfiles == [control : {"missing", "preset", "noStatus"} \cup {Statuses[i] : i \in 1..2}]
matchesImplemented(status) == status \in {"NotImplemented", "Implemented"}
control(id, a, else) ==
  Row(id, IF a.control = "missing" THEN "Warning"
          ELSE IF a.control = "preset" \/ matchesImplemented(a.control) THEN "Pass" ELSE else)

controlProfiles(a) == IF a.listed THEN NoRows ELSE Returns
antiPhishing(a)    == control("DEFENDER-ANTIPHISH-001", a, "Fail")
antiSpam(a)        == control("DEFENDER-ANTISPAM-001", a, "Warning")
safeLinks(a)       == control("DEFENDER-SAFELINKS-001", a, "Warning")
safeAttachments(a) == control("DEFENDER-SAFEATTACH-001", a, "Warning")

runDefenderSecurityConfig ==
  LET Control(checks) == Local(Ordered([control |-> Statuses], Request(checks, NoRows, NoRows)))
  IN <<Request([a \in Reported |-> <<controlProfiles(a)>>],
               AllRows(DefenderIds, "Skipped") \cup Returns, Returns),
       Control([a \in ControlProfiles |-> <<antiPhishing(a)>>]),
       Control([a \in ControlProfiles |-> <<antiSpam(a)>>]),
       Control([a \in ControlProfiles |-> <<safeLinks(a)>>]),
       Control([a \in ControlProfiles |-> <<safeAttachments(a)>>])>>

DEFENDER_DROP ==
  {"DEFENDER-ANTIMALWARE-001", "DEFENDER-ANTIMALWARE-002", "DEFENDER-ANTISPAM-002",
   "DEFENDER-CFGDETECT-001", "DEFENDER-CLOUDAPPS-001", "DEFENDER-MALWARE-002",
   "DEFENDER-OUTBOUND-001", "DEFENDER-PRIORITY-001", "DEFENDER-PRIORITY-002",
   "DEFENDER-REALTIMESCAN-001", "DEFENDER-SAFEATTACH-002", "DEFENDER-SECUREMON-001",
   "DEFENDER-VULNSCAN-001", "DEFENDER-ZAP-001"}
runDefenderDropBatch == <<Static(AllRows(DEFENDER_DROP, "Skipped"))>>

-----------------------------------------------------------------------------
(* compliance-security-config *)

\* An answer is enough for a pass, whatever it says.
unifiedAudit(a)  == Row("COMPLIANCE-AUDIT-001", "Pass")
dlpPolicies(a)   == Row("COMPLIANCE-DLP-001", "Review")
dlpTeams(a)      == Row("COMPLIANCE-DLP-002", "Review")
dlpWorkloads(a)  == Row("COMPLIANCE-DLP-003", "Review")
labels(a)        == PassIf("COMPLIANCE-LABELS-001", a.listed)
activeAlerts(a)  == PassIf("COMPLIANCE-ALERTPOLICY-001", "active" \in a.alerts)

runComplianceSecurityConfig ==
  LET DlpIds == {"COMPLIANCE-DLP-001", "COMPLIANCE-DLP-002", "COMPLIANCE-DLP-003"}
  IN <<Request([a \in Reported |-> <<unifiedAudit(a)>>],
               Row("COMPLIANCE-AUDIT-001", "Review"), NoRows),
       Request([a \in {<<>>} |-> <<dlpPolicies(a), dlpTeams(a), dlpWorkloads(a)>>],
               AllRows(DlpIds, "Skipped"), AllRows(DlpIds, "Review")),
       Ordered([listed |-> YesIsSafe],
         Request([a \in Reported |-> <<labels(a)>>],
                 Row("COMPLIANCE-LABELS-001", "Skipped"), NoRows)),
       Request([a \in [alerts : SUBSET {"active", "closed"}] |-> <<activeAlerts(a)>>],
               Row("COMPLIANCE-ALERTPOLICY-001", "Skipped"), NoRows),
       Static(AllRows({"COMPLIANCE-LABELS-002", "COMPLIANCE-COMMS-001"}, "Review"))>>

-----------------------------------------------------------------------------
(* exchange-security-config *)

OrgSettings == [modernAuth : {"unset", "off", "on"}, audit : {"unset", "off", "on"}]
onOff(id, v) ==
  Row(id, IF v = "on" THEN "Pass" ELSE IF v = "off" THEN "Fail" ELSE "Warning")
modernAuth(a) == onOff("EXO-AUTH-001", a.modernAuth)
orgAudit(a)   == onOff("EXO-AUDIT-001", a.audit)
lockbox(a)    == Row("EXO-LOCKBOX-001", "Review")

\* The first users are a stand-in for shared mailboxes.
Users == {a \in [users : BOOLEAN, enabled : BOOLEAN] : a.enabled => a.users}
sharedMailboxes(a) == PassElse("EXO-SHAREDMBX-001", a.users /\ ~a.enabled, "Review")
mailboxAudit(a)    == Row("EXO-AUDIT-003", "Review")
hiddenMailboxes(a) == Row("EXO-HIDDEN-001", "Review")

ManualIds == {"EXO-MAILTIPS-001", "EXO-EXTTAG-001", "EXO-FORWARD-001", "EXO-OWA-001",
              "EXO-SHARING-001", "EXO-AUDIT-002", "EXO-AUTH-002", "EXO-ADDINS-001",
              "EXO-CONNFILTER-001", "EXO-CONNFILTER-002", "EXO-TRANSPORT-001",
              "EXO-DIRECTSEND-001"}

runExchangeSecurityConfig ==
  LET OrgIds  == {"EXO-AUTH-001", "EXO-AUDIT-001"}
      UserIds == {"EXO-SHAREDMBX-001", "EXO-AUDIT-003", "EXO-HIDDEN-001"}
  IN <<Declining(AllRows(OrgIds, "Warning"),
         Ordered([modernAuth |-> <<"off", "unset", "on">>, audit |-> <<"off", "unset", "on">>],
           Request([a \in OrgSettings |-> <<modernAuth(a), orgAudit(a)>>],
                   AllRows(OrgIds, "Skipped"), NoRows))),
       Request([a \in Reported |-> <<lockbox(a)>>],
               Row("EXO-LOCKBOX-001", "Skipped"), Row("EXO-LOCKBOX-001", "Review")),
       Static(AllRows(ManualIds, "Review")),
       Ordered([enabled |-> NoIsSafe],
         Request([a \in Users |-> <<sharedMailboxes(a), mailboxAudit(a), hiddenMailboxes(a)>>],
                 AllRows(UserIds, "Skipped"), AllRows(UserIds, "Review")))>>

EXO_DROP ==
  (ManualIds \ {"EXO-MAILTIPS-001"})
    \cup {"EXO-ANTIPHISH-001", "EXO-ANTISPAM-001", "EXO-DKIM-001", "EXO-MALWARE-001",
          "EXO-TRANSPORT-002", "EXO-SHAREDMBX-001", "EXO-AUDIT-003", "EXO-HIDDEN-001"}
runExchangeDropBatch == <<Static(AllRows(EXO_DROP, "Review"))>>

-----------------------------------------------------------------------------
(* purview-retention-config *)

RetentionIds == {"PURVIEW-RETENTION-001", "PURVIEW-RETENTION-002", "PURVIEW-RETENTION-003",
                 "PURVIEW-RETENTION-004", "PURVIEW-RETENTION-005"}

\* A label is switched on or off, of a workload by its texts, and in test mode or not.
Labels ==
  [enabled : BOOLEAN, workload : {"exchange", "teams", "sharepoint", "none"}, test : BOOLEAN]
LabelSets == {[labels |-> {}]} \cup {[labels |-> {l, m}] : l, m \in Labels}
enabledLabels(a)            == {l \in a.labels : l.enabled}
coversWorkload(a, workload) == \E l \in a.labels : l.workload = workload

retentionPolicies(a) == PassIf("PURVIEW-RETENTION-001", enabledLabels(a) # {})
exchangeRetention(a) ==
  Row("PURVIEW-RETENTION-002",
    IF coversWorkload(a, "exchange") THEN "Pass"
    ELSE IF enabledLabels(a) # {} THEN "Review" ELSE "Fail")
\* Labels that are switched off count for the workload.
workloadRetention(id, a, workload) ==
  Row(id,
    IF a.labels = {} THEN "Fail" ELSE IF coversWorkload(a, workload) THEN "Pass" ELSE "Review")
teamsRetention(a)      == workloadRetention("PURVIEW-RETENTION-003", a, "teams")
sharePointRetention(a) == workloadRetention("PURVIEW-RETENTION-004", a, "sharepoint")
testMode(a) ==
  Row("PURVIEW-RETENTION-005",
    IF enabledLabels(a) = {} THEN "Review"
    ELSE IF \E l \in enabledLabels(a) : l.test THEN "Warning" ELSE "Pass")

runPurviewRetentionConfig ==
  LET Skipped == AllRows(RetentionIds, "Skipped")
  IN <<Request([a \in LabelSets |-> <<retentionPolicies(a), exchangeRetention(a),
                                      teamsRetention(a), sharePointRetention(a), testMode(a)>>],
               Skipped, Skipped)>>

-----------------------------------------------------------------------------
(* The inventories, and the checks that no collector can make *)

\* An inventory that cannot be read ends itself, not the next one; the mailboxes'
\* groups may be missing.
inventoried(a) == Row(NoId, "Info")
Inventory ==
  Request([a \in Reported |-> <<inventoried(a)>>],
          Row(NoId, "Skipped") \cup Returns, Returns)
runMailboxInventory ==
  <<Request(Always(<<>>), Row(NoId, "Skipped") \cup Returns, Returns),
    Request([a \in Reported |-> <<inventoried(a)>>], Row(NoId, "Info"), Row(NoId, "Info"))>>
runOneDriveInventory   == <<Inventory>>
runSharePointInventory == <<Inventory>>
runTeamsInventory      == <<Inventory>>
runGroupInventory      == <<Inventory>>

REMAINING_DROP ==
  {"BACKUP-ENABLED-001", "CA-EXCLUSION-001", "CA-REMOTEDEVICE-001", "DEFENDER-CFGDETECT-001",
   "DEFENDER-CLOUDAPPS-001", "DEFENDER-MALWARE-002", "SPO-CUIACCESS-001", "SPO-SWAY-001",
   "PURVIEW-DLP-001", "FORMS-CONFIG-003", "INTUNE-INVENTORY-001", "POWERBI-SERVICEPRINCIPAL-001"}
runRemainingDropBatch == <<Static(AllRows(REMAINING_DROP, "Skipped"))>>

-----------------------------------------------------------------------------
(* powerbi-security-config *)

\* For each tenant setting the value that is safe.
wanted ==
  LET on  == {"POWERBI-SHARING-001", "POWERBI-INFOPROT-001", "POWERBI-AUTH-001"}
      off == {"POWERBI-GUEST-001", "POWERBI-GUEST-002", "POWERBI-GUEST-003",
              "POWERBI-SHARING-002", "POWERBI-SHARING-003", "POWERBI-SHARING-004",
              "POWERBI-AUTH-002", "POWERBI-AUTH-003"}
  IN  [id \in on \cup off |-> IF id \in on THEN "on" ELSE "off"]

\* A setting that is absent, or no switch, is null.
getTenantSetting == {"null", "off", "on"}
tenantSetting(id, a) ==
  Row(id,
    IF a.setting = wanted[id] THEN "Pass" ELSE IF a.setting = "null" THEN "Review" ELSE "Fail")

\* The role that is not granted, usually fatal, is a refusal here.
emitNotLicensed    == AllRows(DOMAIN wanted, "NotLicensed") \cup Returns
\* Seeded fault: settings that could not be read count against the tenant.
emitSkippedGenericFault == AllRows(DOMAIN wanted, "Fail") \cup Returns

emitSkippedGeneric == AllRows(DOMAIN wanted, "Skipped") \cup Returns

judgedSetting(id) ==
  LET scale == IF wanted[id] = "on" THEN <<"off", "on">> ELSE <<"on", "off">>
  IN  Local(Ordered([setting |-> scale],
        Request([a \in [setting : getTenantSetting] |-> <<tenantSetting(id, a)>>],
                NoRows, NoRows)))

runPowerBISecurityConfig ==
  <<Request(Always(<<>>), emitNotLicensed, emitSkippedGeneric),
    judgedSetting("POWERBI-GUEST-001"), judgedSetting("POWERBI-GUEST-002"),
    judgedSetting("POWERBI-GUEST-003"),
    judgedSetting("POWERBI-SHARING-001"), judgedSetting("POWERBI-SHARING-002"),
    judgedSetting("POWERBI-INFOPROT-001"), judgedSetting("POWERBI-SHARING-003"),
    judgedSetting("POWERBI-SHARING-004"), judgedSetting("POWERBI-AUTH-001"),
    judgedSetting("POWERBI-AUTH-002"), judgedSetting("POWERBI-AUTH-003")>>
=============================================================================
