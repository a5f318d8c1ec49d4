----------------------------- MODULE DeviceChecks -----------------------------
(***************************************************************************)
(* The collectors of the Intune section: device-compliance-report,         *)
(* config-profile-report, intune-security-config and intune-fips-config.   *)
(*                                                                         *)
(* Profiles of a list are what the check tells apart: a list is the set of *)
(* kinds that occur in it.                                                 *)
(***************************************************************************)
EXTENDS CollectorRows

-----------------------------------------------------------------------------
(* device-compliance-report, config-profile-report *)

Lists == [listed : BOOLEAN]
listedOnly(a) == IF a.listed THEN Row(NoId, "Info") ELSE NoRows
devicesListed(a)  == listedOnly(a)
profilesListed(a) == listedOnly(a)

deviceComplianceReport == <<Request([a \in Lists |-> <<devicesListed(a)>>],
                                    Row(NoId, "Skipped"), NoRows)>>
configProfileReport    == <<Request([a \in Lists |-> <<profilesListed(a)>>],
                                    Row(NoId, "Skipped"), NoRows)>>

-----------------------------------------------------------------------------
(* intune-security-config *)

\* Lists of what is wrong, of what is wrong and right, and of what is right.
Cleared(wrong, right) == <<{wrong}, {wrong, right}, {right}>>

\* text: a threshold that is no number.
CheckinThresholds == {"unset", "text", "31", "30"}
checkinThreshold(a) ==
  Row("INTUNE-COMPLIANCE-001",
    IF a.days = "unset" THEN "Review" ELSE IF a.days = "30" THEN "Pass" ELSE "Warning")

\* Per restriction, whether a platform that it configures admits personal devices.  A
\* platform that is missing from a restriction counts as blocked.
personalDevices(a) ==
  PassIf("INTUNE-ENROLL-001", a.restrictions # {} /\ "admits" \notin a.restrictions)

runIntuneSecurityConfig ==
  LET Thresholds == [days : CheckinThresholds] IN
  <<Ordered([days |-> <<"31", "30">>],
      Request([a \in Thresholds |-> <<checkinThreshold(a)>>],
              Row("INTUNE-COMPLIANCE-001", "Skipped"), NoRows)),
    Ordered([restrictions |-> Cleared("admits", "blocks")],
      Request([a \in [restrictions : SUBSET {"admits", "blocks"}] |-> <<personalDevices(a)>>],
              Row("INTUNE-ENROLL-001", "Skipped"), NoRows))>>

-----------------------------------------------------------------------------
(* intune-fips-config *)

\* One row for each profile that mentions FIPS; a profile is judged by its first setting.
fips(a) ==
  (IF a.profiles = {} THEN Row("INTUNE-FIPS-001", "Fail") ELSE NoRows)
    \cup (IF "customOn" \in a.profiles THEN Row("INTUNE-FIPS-001", "Pass") ELSE NoRows)
    \cup (IF "customOff" \in a.profiles THEN Row("INTUNE-FIPS-001", "Fail") ELSE NoRows)
    \cup (IF "named" \in a.profiles THEN Row("INTUNE-FIPS-001", "Warning") ELSE NoRows)

appControl(a) == PassIf("INTUNE-APPCONTROL-001", a.profiles # {})

\* Each policy of a platform is judged, and a platform without one fails.
mobileEncryption(a) ==
  LET platform(policies) ==
        IF policies = {} THEN Row("INTUNE-MOBILEENCRYPT-001", "Fail")
        ELSE UNION {PassIf("INTUNE-MOBILEENCRYPT-001", p = "encrypted") : p \in policies}
  IN  platform(a.ios) \cup platform(a.android)

\* Only a profile that meets every demand and is assigned to somebody counts.
Profiles == {"compliant", "unassigned", "other"}
wifi(a)      == PassIf("INTUNE-WIFI-001", "compliant" \in a.profiles)
remoteVpn(a) == PassIf("INTUNE-REMOTEVPN-001", "compliant" \in a.profiles)

\* Each profile is judged, and having none fails.
eachProfile(id, a) ==
  IF a.profiles = {} THEN Row(id, "Fail")
  ELSE UNION {PassIf(id, p = "blocked") : p \in a.profiles}
portStorage(a)    == eachProfile("INTUNE-PORTSTORAGE-001", a)
removableMedia(a) == eachProfile("INTUNE-REMOVABLEMEDIA-001", a)

\* The read of the Autopilot profiles may fail in any way, and then there are none.
Discovery == [enrolled : BOOLEAN, autopilot : {"none", "profiles", "failed"}]
DiscoveryScales == [enrolled |-> YesIsSafe, autopilot |-> <<"none", "profiles">>]
DiscoveryTold ==
  [a \in {b \in Discovery : b.autopilot = "failed"} |->
     {b \in Discovery : b.autopilot # "failed" /\ b.enrolled = a.enrolled}]
autoDiscovery(a) ==
  PassElse("INTUNE-AUTODISC-001", a.enrolled \/ a.autopilot = "profiles", "Warning")

\* A single profile without split tunnelling is enough, assigned or not.
vpnConfig(a) == PassIf("INTUNE-VPNCONFIG-001", "fullTunnel" \in a.profiles)

UnreadableIds == {"INTUNE-ENCRYPTION-001", "INTUNE-UPDATE-001", "INTUNE-SECURITY-001",
                  "INTUNE-MOBILECODE-001", "INTUNE-MAA-001", "INTUNE-RBAC-001",
                  "INTUNE-WIPEAUDIT-001", "INTUNE-INVENTORY-001", "INTUNE-ENROLLMENT-001"}

runIntuneFipsConfig ==
  LET Kinds(kinds)     == [profiles : SUBSET kinds]
      Scale(order)     == [profiles |-> order]
      Encryption       == Cleared("open", "encrypted")
      Policies         == SUBSET {"encrypted", "open"}
      ProfileScale     == <<{"other"}, {"unassigned"}, {"compliant"}>>
      Each(id, scales, checks) == Ordered(scales, Request(checks, Row(id, "Skipped"), NoRows))
  IN
  <<Each("INTUNE-FIPS-001", Scale(Cleared("customOff", "customOn")),
      [a \in Kinds({"customOn", "customOff", "named"}) |-> <<fips(a)>>]),
    Each("INTUNE-APPCONTROL-001", Scale(<<{}, {"AppLocker"}, {"AppLocker", "custom"}>>),
      [a \in Kinds({"AppLocker", "custom"}) |-> <<appControl(a)>>]),
    Each("INTUNE-MOBILEENCRYPT-001", [ios |-> Encryption, android |-> Encryption],
      [a \in [ios : Policies, android : Policies] |-> <<mobileEncryption(a)>>]),
    Each("INTUNE-WIFI-001", Scale(ProfileScale), [a \in Kinds(Profiles) |-> <<wifi(a)>>]),
    Each("INTUNE-PORTSTORAGE-001", Scale(Cleared("open", "blocked")),
      [a \in Kinds({"blocked", "open"}) |-> <<portStorage(a)>>]),
    Untold(DiscoveryTold, Each("INTUNE-AUTODISC-001", DiscoveryScales,
      [a \in Discovery |-> <<autoDiscovery(a)>>])),
    Each("INTUNE-REMOTEVPN-001", Scale(ProfileScale),
      [a \in Kinds(Profiles) |-> <<remoteVpn(a)>>]),
    Each("INTUNE-REMOVABLEMEDIA-001", Scale(Cleared("open", "blocked")),
      [a \in Kinds({"blocked", "open"}) |-> <<removableMedia(a)>>]),
    Each("INTUNE-VPNCONFIG-001", Scale(Cleared("splitTunnel", "fullTunnel")),
      [a \in Kinds({"fullTunnel", "splitTunnel"}) |-> <<vpnConfig(a)>>]),
    Static(AllRows(UnreadableIds, "Skipped"))>>
=============================================================================
