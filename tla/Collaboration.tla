---------------------------- MODULE Collaboration -----------------------------
(***************************************************************************)
(* The collectors of the collaboration section: sharepoint-security-config, *)
(* teams-security-config and forms-security-config.                        *)
(*                                                                         *)
(* The settings of SharePoint are independent fields of one answer: each   *)
(* check is a request of its own that asks Graph for nothing, and fields   *)
(* that two checks read are kept.                                          *)
(***************************************************************************)
EXTENDS CollectorRows

Given(v) == v # "unset"

\* A switch that may be missing from the answer.
Switch == {"unset", "on", "off"}
wants(id, value, right, wrong, v) ==
  Row(id, IF ~Given(v) THEN "Review" ELSE IF v = value THEN right ELSE wrong)

-----------------------------------------------------------------------------
(* sharepoint-security-config *)

\* When the settings cannot be read there is nothing else to judge.
SettingsIds == {"SPO-SHARING-001", "SPO-SHARING-002", "SPO-SHARING-003", "SPO-SHARING-004",
                "SPO-AUTH-001"}
spoSettings ==
  Declining(AllRows(SettingsIds, "Review") \cup Returns,
    Request(Always(<<NoRows>>),
            AllRows(SettingsIds, "Skipped") \cup Returns, Returns))

SharingScale == <<"externalUserAndGuestSharing", "externalUserSharingOnly", "restricted">>
sharingLevel(a) ==
  Row("SPO-SHARING-001",
    IF a.sharing = "restricted" THEN "Pass"
    ELSE IF a.sharing = "externalUserSharingOnly" THEN "Warning"
    ELSE IF a.sharing = "externalUserAndGuestSharing" THEN "Fail" ELSE "Review")

resharing(a)    == wants("SPO-SHARING-002", "off", "Pass", "Warning", a.resharing)
domainMode(a)   == wants("SPO-SHARING-003", "none", "Warning", "Pass", a.mode)
linkType(a) ==
  Row("SPO-SHARING-004",
    IF a.link = "specificPeople" THEN "Pass" ELSE IF a.link = "anyone" THEN "Fail" ELSE "Review")
unmanagedSync(a) == PassElse("SPO-SYNC-001", a.unmanagedSync = "on", "Warning")
legacyProtocols(a) == wants("SPO-AUTH-001", "off", "Pass", "Fail", a.legacy)

\* NotNumber: a number of days that is missing.
NotNumber == -1
GuestExpiry == {a \in [required : Switch, days : {NotNumber, 30, 31}] :
                  a.required # "on" => a.days = NotNumber}
\* Seeded fault: the comparison is the wrong way round.
guestExpirationFault(a) ==
  wants("SPO-SHARING-005", "on", IF a.days \in 0..30 THEN "Warning" ELSE "Pass", "Fail",
        a.required)

guestExpiration(a) ==
  wants("SPO-SHARING-005", "on", IF a.days \in 0..30 THEN "Pass" ELSE "Warning", "Fail",
        a.required)

linkPermission(a) ==
  Row("SPO-SHARING-007",
    IF a.permission = "view" THEN "Pass" ELSE IF a.permission = "edit" THEN "Fail" ELSE "Review")
domainLists(a)    == PassElse("SPO-SITE-001", a.listed, "Warning")
reattestation(a)  == wants("SPO-SHARING-006", "on", "Pass", "Fail", a.attestation)

\* What the best of the first sites allows.
Sites == [sites : {"none", "open", "restricted"}]
siteSharing(a) ==
  Row("SPO-SITE-002",
    IF a.sites = "restricted" THEN "Pass" ELSE IF a.sites = "open" THEN "Warning" ELSE "Review")

\* The setting for Macs, or else the one for unmanaged clients, must be there; sync
\* counts as on when either says so.
syncClients(a) ==
  Row("SPO-SYNC-002",
    IF ~Given(a.mac) /\ ~Given(a.unmanagedSync) THEN "Review"
    ELSE IF a.mac = "on" \/ a.unmanagedSync = "off" THEN "Warning" ELSE "Pass")

loop(a)             == wants("SPO-LOOP-001", "off", "Pass", "Warning", a.loop)
loopInOneDrive(a)   == wants("SPO-LOOP-002", "off", "Pass", "Warning", a.oneDriveLoop)
infectedDownload(a) == wants("SPO-MALWARE-002", "on", "Pass", "Fail", a.disallowInfected)

\* OneDrive's own level, or else that of SharePoint.
oneDriveSharing(a) ==
  LET level == IF Given(a.oneDrive) THEN a.oneDrive ELSE a.sharing
  IN  wants("SPO-OD-001", "restricted", "Pass", "Warning", level)

idleSignOut(a) == wants("SPO-SESSION-001", "on", "Pass", "Warning", a.idle)
versioning(a)  == wants("SPO-VERSIONING-001", "on", "Pass", "Warning", a.versioning)
sway(a)        == wants("SPO-SWAY-001", "off", "Pass", "Fail", a.sway)

\* A setting of the settings that were read.
Setting(scales, checks) == Local(Ordered(scales, Request(checks, NoRows, NoRows)))
SyncSettings == [mac : Switch, unmanagedSync : Switch]
OneDriveLevels ==
  [oneDrive : {"unset"} \cup {SharingScale[i] : i \in 1..3},
   sharing : {"unset"} \cup {SharingScale[i] : i \in 1..3}]

runSharePointSecurityConfig ==
  LET OffIsSafe == <<"on", "off">>
      OnIsSafe  == <<"off", "on">>
      SharingLevels == {"unset"} \cup {SharingScale[i] : i \in 1..3}
  IN
  <<spoSettings,
    Keeping({"sharing"}, Setting([sharing |-> SharingScale],
          [a \in [sharing : SharingLevels] |-> <<sharingLevel(a)>>])),
    Setting([resharing |-> OffIsSafe], [a \in [resharing : Switch] |-> <<resharing(a)>>]),
    Setting([mode |-> <<"none", "listed">>],
          [a \in [mode : {"none", "listed", "unset"}] |-> <<domainMode(a)>>]),
    Setting([link |-> <<"anyone", "organization", "specificPeople">>],
          [a \in [link : {"anyone", "organization", "specificPeople", "unset"}] |->
             <<linkType(a)>>]),
    Keeping({"unmanagedSync"}, Setting([unmanagedSync |-> OnIsSafe],
          [a \in [unmanagedSync : Switch] |-> <<unmanagedSync(a)>>])),
    Setting([legacy |-> OffIsSafe], [a \in [legacy : Switch] |-> <<legacyProtocols(a)>>]),
    Setting([days |-> <<31, 30>>, required |-> OnIsSafe],
            [a \in GuestExpiry |-> <<guestExpiration(a)>>]),
    Setting([permission |-> <<"edit", "view">>],
          [a \in [permission : {"edit", "view", "none", "unset"}] |-> <<linkPermission(a)>>]),
    Setting([listed |-> YesIsSafe], [a \in [listed : BOOLEAN] |-> <<domainLists(a)>>]),
    Setting([attestation |-> OnIsSafe], [a \in [attestation : Switch] |-> <<reattestation(a)>>]),
    Static(Row("SPO-SHARING-008", "Skipped")),
    Ordered([sites |-> <<"open", "restricted">>],
      Request([a \in Sites |-> <<siteSharing(a)>>], Row("SPO-SITE-002", "Skipped"), NoRows)),
    Static(Row("SPO-SITE-003", "Skipped")),
    Forgetting({"unmanagedSync"}, Sharing({"unmanagedSync"},
      Setting([mac |-> OffIsSafe, unmanagedSync |-> OnIsSafe],
              [a \in SyncSettings |-> <<syncClients(a)>>]))),
    Setting([loop |-> OffIsSafe], [a \in [loop : Switch] |-> <<loop(a)>>]),
    Setting([oneDriveLoop |-> OffIsSafe],
          [a \in [oneDriveLoop : Switch] |-> <<loopInOneDrive(a)>>]),
    Setting([disallowInfected |-> OnIsSafe],
          [a \in [disallowInfected : Switch] |-> <<infectedDownload(a)>>]),
    Forgetting({"sharing"}, Sharing({"sharing"},
      Setting([oneDrive |-> SharingScale, sharing |-> SharingScale],
              [a \in OneDriveLevels |-> <<oneDriveSharing(a)>>]))),
    Setting([idle |-> OnIsSafe], [a \in [idle : Switch] |-> <<idleSignOut(a)>>]),
    Setting([versioning |-> OnIsSafe], [a \in [versioning : Switch] |-> <<versioning(a)>>]),
    Setting([sway |-> OffIsSafe], [a \in [sway : Switch] |-> <<sway(a)>>])>>

-----------------------------------------------------------------------------
(* teams-security-config *)

\* present: the answer is an object.
Teamwork == {a \in [present : BOOLEAN, consent : Switch] : ~a.present => a.consent = "unset"}
workload(a) == IF a.present THEN Row("TEAMS-INFO-001", "Info") ELSE NoRows
chatConsent(a) ==
  IF a.present THEN PassElse("TEAMS-APPS-001", a.consent = "off", "Review") ELSE NoRows

\* The setting for access by guests decides when it is there, whatever the other says.
GuestSettings == [access : Switch, adding : Switch]
guestAccess(a) ==
  wants("TEAMS-GUEST-001", "off", "Pass", "Warning", IF Given(a.access) THEN a.access ELSE a.adding)

runTeamsSecurityConfig ==
  LET GuestScales == [access |-> <<"on", "off">>, adding |-> <<"on", "off">>] IN
  <<Ordered([consent |-> <<"on", "off">>],
      Request([a \in Teamwork |-> <<workload(a), chatConsent(a)>>],
              AllRows({"TEAMS-INFO-001", "TEAMS-APPS-001"}, "Skipped"), NoRows)),
    Ordered(GuestScales,
      Request([a \in GuestSettings |-> <<guestAccess(a)>>],
              Row("TEAMS-GUEST-001", "Skipped"), NoRows)),
    Static(AllRows({"TEAMS-EXTACCESS-001", "TEAMS-MEETING-001", "TEAMS-MEETING-002"}, "Skipped"))>>

-----------------------------------------------------------------------------
(* forms-security-config *)

FormsIds == {"FORMS-CONFIG-001", "FORMS-CONFIG-002", "FORMS-CONFIG-004", "FORMS-CONFIG-005"}
FormsSettings == [send : Switch, share : Switch, phishing : Switch, identity : Switch]

\* Without the first setting none is judged, and an unset one counts as unsafe after that.
externalSend(a) ==
  IF a.send = "unset" THEN AllRows(FormsIds, "Skipped") \cup Returns
  ELSE PassIf("FORMS-CONFIG-001", a.send = "off")
externalShare(a)  == PassIf("FORMS-CONFIG-002", a.share = "off")
phishingScan(a)   == PassIf("FORMS-CONFIG-004", a.phishing = "on")
recordIdentity(a) == PassElse("FORMS-CONFIG-005", a.identity = "on", "Review")

runFormsSecurityConfig ==
  LET scales == [send |-> <<"on", "off">>, share |-> <<"on", "off">>,
                 phishing |-> <<"off", "on">>, identity |-> <<"off", "on">>]
  IN <<Declining(AllRows(FormsIds, "Review"),
         Ordered(scales,
           Request([a \in FormsSettings |->
                      <<externalSend(a), externalShare(a), phishingScan(a), recordIdentity(a)>>],
                   AllRows(FormsIds, "Skipped"), AllRows(FormsIds, "Skipped"))))>>
=============================================================================
