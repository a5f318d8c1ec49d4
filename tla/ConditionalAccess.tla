-------------------------- MODULE ConditionalAccess --------------------------
(***************************************************************************)
(* The collectors that judge Conditional Access: ca-security-config, the   *)
(* checks of conditional-access-checks and entra-ca-remote-device, and the *)
(* break-glass accounts of entra-breakglass-config.                        *)
(*                                                                         *)
(* A policy is a record of what the checks look at.  A missing field is    *)
(* the empty set, as it is for the helpers of the code.                    *)
(***************************************************************************)
EXTENDS CollectorRows

CONSTANTS
  PolicyLists,  \* lists of policies Graph may answer
  AdminRoles,   \* ADMIN_ROLE_IDS
  OtherReads,   \* what the reads beside that of the policies may leave behind
  MaxProbes     \* groups that are looked up at most (50)

\* Graph lists policies and the groups that they name.  rest tells of which groups the
\* look-up ends in a 404, the roles assigned and the named locations, if they were read,
\* and whether Security Defaults are on.
ASSUME ConditionalAccessAssumption ==
  /\ MaxProbes \in Nat \ {0}
  /\ <<>> \in PolicyLists
  /\ \A list \in PolicyLists :
       /\ Len(list) \in Nat
       /\ \A i \in 1..Len(list) :
            {list[i].includeGroups, list[i].excludeGroups} \subseteq Seq(STRING)
  /\ \A rest \in OtherReads :
       /\ {rest.defaults, rest.located} \subseteq BOOLEAN
       /\ rest.located \/ rest.locations = {}

enabledPolicies(w) ==
  {w.policies[i] : i \in {j \in 1..Len(w.policies) : w.policies[j].state = "enabled"}}

groupRefs(p)   == {(p.includeGroups \o p.excludeGroups)[i] :
                     i \in 1..Len(p.includeGroups \o p.excludeGroups)}
namedGroups(w) == UNION {groupRefs(p) : p \in enabledPolicies(w)}

\* What the reads of ca-security-config leave behind.  One may have failed: there are no
\* policies then, no Security Defaults, or a group that is gone is not among the gone.
Reads ==
  {w \in [unread : {"none", "policies", "defaults", "groups"}, policies : PolicyLists,
          rest : OtherReads] :
     /\ w.unread = "policies" => w.policies = <<>>
     /\ w.unread = "defaults" => ~w.rest.defaults
     /\ w.unread = "groups"   => namedGroups(w) # {}}

-----------------------------------------------------------------------------
(* The helpers on one policy *)

targetsAdminRole(p)       == p.includeRoles \cap AdminRoles # {}
targetsAllUser(p)         == "All" \in p.includeUsers
excludesAdminRole(p)      == p.excludeRoles \cap AdminRoles # {}
hasUserOrGroupExclusion(p) == p.excludeUsers # {} \/ p.excludeGroups # <<>>

\* "mfa" beside other controls under OR does not require MFA.
requiresMfa(p) ==
  "mfa" \in p.controls /\ (Cardinality(p.controls) = 1 \/ p.operator = "AND")

requiresDevice(p) == p.controls \cap {"compliantDevice", "domainJoinedDevice"} # {}

-----------------------------------------------------------------------------
(* The checks of ca-security-config, in its order *)

\* Most checks pass when a policy does the job, or are left to Security Defaults.
Covered(id, w, policies) ==
  Row(id, IF policies # {} THEN "Pass" ELSE IF w.rest.defaults THEN "Info" ELSE "Fail")

mfaAdmin(w) ==
  LET mfaAdminPolicies == {p \in enabledPolicies(w) :
        (targetsAdminRole(p) \/ targetsAllUser(p)) /\ ~excludesAdminRole(p) /\ requiresMfa(p)}
      clean == {p \in mfaAdminPolicies : targetsAdminRole(p) \/ ~hasUserOrGroupExclusion(p)}
  IN IF clean = {} /\ mfaAdminPolicies # {} THEN Row("CA-MFA-ADMIN-001", "Review")
     ELSE Covered("CA-MFA-ADMIN-001", w, clean)

\* Seeded fault: report-only policies count too.
mfaAllFault(w) ==
  Covered("CA-MFA-ALL-001", w,
    {w.policies[i] : i \in {j \in 1..Len(w.policies) :
       targetsAllUser(w.policies[j]) /\ "mfa" \in w.policies[j].controls}})

\* Unlike mfaAdmin, whatever the operator and the exclusions.
mfaAll(w) ==
  Covered("CA-MFA-ALL-001", w,
    {p \in enabledPolicies(w) : targetsAllUser(p) /\ "mfa" \in p.controls})

legacyAuth(w) ==
  Covered("CA-LEGACYAUTH-001", w,
    {p \in enabledPolicies(w) :
       p.clientApps \cap {"exchangeActiveSync", "other"} # {} /\ "block" \in p.controls})

signinFreq(w) ==
  PassIf("CA-SIGNIN-FREQ-001",
    \E p \in enabledPolicies(w) :
      targetsAdminRole(p) /\ p.frequency # "off" /\ p.browser = "never")

phishRes(w) ==
  PassIf("CA-PHISHRES-001", \E p \in enabledPolicies(w) : targetsAdminRole(p) /\ p.strength)

userRisk(w) == PassIf("CA-USERRISK-001", \E p \in enabledPolicies(w) : p.userRisk # {})

signinRisk(w) == PassIf("CA-SIGNINRISK-001", \E p \in enabledPolicies(w) : p.signInRisk # {})

signinRiskBlock(w) ==
  Covered("CA-SIGNINRISK-002", w,
    {p \in enabledPolicies(w) :
       p.signInRisk \cap {"medium", "high"} # {} /\ p.controls \cap {"block", "mfa"} # {}})

\* Seeded fault: a joined device is forgotten.
deviceFault(w) ==
  PassIf("CA-DEVICE-001", \E p \in enabledPolicies(w) : "compliantDevice" \in p.controls)

device(w) == PassIf("CA-DEVICE-001", \E p \in enabledPolicies(w) : requiresDevice(p))

secInfoDevice(w) ==
  PassIf("CA-DEVICE-002",
    \E p \in enabledPolicies(w) : p.registersSecurityInfo /\ requiresDevice(p))

intuneFreq(w) ==
  PassIf("CA-INTUNE-001",
    \E p \in enabledPolicies(w) :
      p.apps \cap {"intune", "All"} # {} /\ p.frequency = "everyTime")

deviceCode(w) ==
  PassIf("CA-DEVICECODE-001",
    \E p \in enabledPolicies(w) : p.deviceCode /\ "block" \in p.controls)

reportOnly(w) ==
  PassElse("CA-REPORTONLY-001",
    \A i \in 1..Len(w.policies) : w.policies[i].state # "enabledForReportingButNotEnforced",
    "Warning")

namedLoc(w) ==
  IF ~w.rest.located THEN NoRows
  ELSE PassElse("CA-NAMEDLOC-001", \A l \in w.rest.locations : ~(l.ip /\ l.trusted), "Review")

persistentBrowser(w) ==
  PassElse("CA-SESSION-001",
    \A p \in enabledPolicies(w) : p.browser = "always" => requiresDevice(p), "Warning")

combinedRisk(w) ==
  PassElse("CA-RISKPOLICY-001",
    \A p \in enabledPolicies(w) : p.signInRisk = {} \/ p.userRisk = {}, "Warning")

roleCoverage(w) ==
  LET covered == UNION {p.includeRoles : p \in enabledPolicies(w)}
      tier0   == AdminRoles \cap w.rest.assigned
  IN IF w.rest.assigned = {Unread} THEN NoRows
     ELSE IF covered = {} THEN Row("CA-ROLECOVERAGE-001", "Review")
     ELSE PassElse("CA-ROLECOVERAGE-001", tier0 \subseteq covered, "Warning")

emptyTarget(w) ==
  PassElse("CA-FALLBACK-001",
    \A p \in enabledPolicies(w) :
      \/ p.includeUsers # {} /\ "None" \notin p.includeUsers
      \/ p.includeGroups # <<>>
      \/ p.includeRoles # {},
    "Warning")

\* Skipped when no named location is known, for want of them or of an answer.
staleLocations(w) ==
  LET known == IF w.rest.located THEN {l.id : l \in w.rest.locations} ELSE {}
  IN IF known = {} THEN NoRows
     ELSE PassIf("CA-NAMEDLOC-002",
            \A p \in enabledPolicies(w) :
              (p.includeLocations \cup p.excludeLocations) \ {"All", "AllTrusted"} \subseteq known)

\* Groups are looked up in the order of the policies that name them, only the
\* first MaxProbes of them, and only a 404 tells that one is gone.
staleGroups(w) ==
  LET refs(i)  == IF w.policies[i].state = "enabled"
                  THEN w.policies[i].includeGroups \o w.policies[i].excludeGroups ELSE <<>>
      places   == UNION {{i} \X (1..Len(refs(i))) : i \in 1..Len(w.policies)}
      ref(a)   == refs(a[1])[a[2]]
      before(a) == {b \in places : b[1] < a[1] \/ (b[1] = a[1] /\ b[2] < a[2])}
      probed   == {ref(a) : a \in {b \in places :
                              Cardinality({ref(c) : c \in before(b)}) < MaxProbes}}
      stale    == probed \cap w.rest.gone
  IN PassIf("CA-STALEREF-001", \A p \in enabledPolicies(w) : groupRefs(p) \cap stale = {})

\* A failed read is one more answer, and what it would have told is any of these.
otherwise(a) ==
  {rest \in OtherReads :
     /\ rest.located = a.rest.located /\ rest.locations = a.rest.locations
     /\ rest.assigned = a.rest.assigned
     /\ rest.defaults = a.rest.defaults \/ a.unread = "defaults"
     /\ rest.gone = a.rest.gone \/ (a.unread = "groups" /\ a.rest.gone \subseteq rest.gone)}

ReadsTold ==
  [a \in {b \in Reads : b.unread # "none"} |->
     {[unread |-> "none", policies |-> list, rest |-> rest] :
        list \in IF a.unread = "policies" THEN PolicyLists ELSE {a.policies},
        rest \in otherwise(a)}]

caSecurityConfig ==
  <<Telling(ReadsTold, Request([w \in Reads |->
      <<mfaAdmin(w), mfaAll(w), legacyAuth(w), signinFreq(w), phishRes(w), userRisk(w),
        signinRisk(w), signinRiskBlock(w), device(w), secInfoDevice(w), intuneFreq(w),
        deviceCode(w), reportOnly(w), namedLoc(w), persistentBrowser(w), combinedRisk(w),
        roleCoverage(w), emptyTarget(w), staleLocations(w), staleGroups(w)>>],
      NoRows, NoRows))>>

-----------------------------------------------------------------------------
(* conditional-access-checks *)

policyCount(a) ==
  Row("ENTRA-CA-002", "Info") \cup
  PassElse("ENTRA-CA-003", \E i \in 1..Len(a.policies) : a.policies[i].state = "enabled", "Warning")

\* A missing quota counts as 0; one that is no number ends the judging.
NaN == -1
DeviceScales ==
  [join |-> <<"all", "restricted">>, quota |-> <<NaN, 16, 15, 0>>, adminsJoin |-> NoIsSafe]

deviceJoin(a)   == PassIf("ENTRA-DEVICE-001", a.join # "all")
deviceQuota(a)  == IF a.quota = NaN THEN Stops ELSE PassIf("ENTRA-DEVICE-002", a.quota <= 15)
deviceAdmins(a) == PassIf("ENTRA-DEVICE-003", ~a.adminsJoin)

ExtendedScales == [localAdmins |-> <<1, 0, NaN>>, laps |-> YesIsSafe]

deviceExtended(a) ==
  PassElse("ENTRA-DEVICE-004", a.localAdmins <= 0, "Review")
    \cup PassIf("ENTRA-DEVICE-005", a.laps) \cup Row("ENTRA-DEVICE-006", "Review")

conditionalAccessChecks ==
  <<Request([a \in [policies : PolicyLists] |-> <<policyCount(a)>>], NoRows, NoRows),
    Ordered(DeviceScales,
      Request([a \in Answers(DeviceScales) |-> <<deviceJoin(a), deviceQuota(a), deviceAdmins(a)>>],
              NoRows, NoRows)),
    Ordered(ExtendedScales,
      Request([a \in Answers(ExtendedScales) |-> <<deviceExtended(a)>>], NoRows, NoRows))>>

-----------------------------------------------------------------------------
(* entra-ca-remote-device, conditional-access-report *)

remoteDevice(a) ==
  LET Matches(state) ==
        \E i \in 1..Len(a.policies) :
          /\ a.policies[i].state = state
          /\ "compliantDevice" \in a.policies[i].controls
          /\ a.policies[i].excludeLocations # {}
  IN Row("CA-REMOTEDEVICE-001",
       IF Matches("enabled") THEN "Pass"
       ELSE IF Matches("enabledForReportingButNotEnforced") THEN "Warning" ELSE "Fail")

entraCaRemoteDevice ==
  <<Request([a \in [policies : PolicyLists] |-> <<remoteDevice(a)>>],
            Row("CA-REMOTEDEVICE-001", "Review"), NoRows)>>

\* A report lists what there is, and leaves by an exception when it cannot.
listed(a) == IF a.policies = <<>> THEN NoRows ELSE Row(NoId, "Info")
conditionalAccessReport == <<Request([a \in [policies : PolicyLists] |-> <<listed(a)>>],
                                     Leaves, Leaves)>>

-----------------------------------------------------------------------------
(* entra-breakglass-config *)

\* Accounts with a telling name, or else those that enabled policies exclude; when
\* the policies cannot be read for whatever reason there are none of the latter.
BreakglassScales ==
  [activated |-> YesIsSafe, named |-> <<0, 1, 2>>, excluded |-> <<0, 1, 2>>,
   policiesRead |-> YesIsSafe]

breakglass(a) ==
  LET excluded == IF a.policiesRead THEN a.excluded ELSE 0
      detected == IF a.named > 0 THEN a.named ELSE excluded
  IN Row("ENTRA-BREAKGLASS-001",
       IF ~a.activated \/ detected = 0 THEN "Fail"
       ELSE IF detected >= 2 /\ a.named > 0 THEN "Pass" ELSE "Warning")

BreakglassTold ==
  [a \in {b \in Answers(BreakglassScales) : ~b.policiesRead} |->
     {b \in Answers(BreakglassScales) :
        b.policiesRead /\ b.activated = a.activated /\ b.named = a.named}]

entraBreakglassConfig ==
  <<Untold(BreakglassTold, Ordered(BreakglassScales,
      Request([a \in Answers(BreakglassScales) |-> <<breakglass(a)>>],
              Row("ENTRA-BREAKGLASS-001", "Review"), Row("ENTRA-BREAKGLASS-001", "Review"))))>>
=============================================================================
