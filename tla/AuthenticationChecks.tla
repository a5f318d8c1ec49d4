------------------------ MODULE AuthenticationChecks -------------------------
(***************************************************************************)
(* The collectors that judge how users sign in: password-auth-checks,      *)
(* mfa-report, password-policy-report and entra-authmethod-additional.     *)
(*                                                                         *)
(* password-auth-checks fetches the authentication methods policy and the  *)
(* directory settings once and judges them in several places; what later   *)
(* checks need of them goes through the store.                             *)
(***************************************************************************)
EXTENDS ConditionalAccess

CONSTANT DefaultsRoles  \* SD_ADMIN_ROLES, the roles Security Defaults protect

-----------------------------------------------------------------------------
(* Security Defaults, and what the policies cover of them *)

\* The policies are read only with Security Defaults off; none when that fails.
Defaults == {a \in [defaults : BOOLEAN, policies : PolicyLists] : a.defaults => a.policies = <<>>}

securityDefaults(a) ==
  PassIf("ENTRA-SECDEFAULT-001", a.defaults \/ enabledPolicies(a) # {})

coverageAreas(a) ==
  LET mfa == {p \in enabledPolicies(a) : "mfa" \in p.controls}
      covered ==
        [users      |-> \E p \in mfa : "All" \in p.includeUsers,
         legacy     |-> \E p \in enabledPolicies(a) :
                          /\ p.clientApps \cap {"exchangeActiveSync", "other"} # {}
                          /\ "block" \in p.controls,
         admins     |-> \E p \in mfa : p.includeRoles \cap DefaultsRoles # {},
         management |-> \E p \in mfa : p.apps \cap {"management", "All"} # {}]
  IN  {area \in DOMAIN covered : covered[area]}

defaultsGap(a) ==
  IF a.defaults THEN NoRows
  ELSE Row("ENTRA-SECDEFAULT-002",
         IF Cardinality(coverageAreas(a)) = 4 THEN "Pass"
         ELSE IF coverageAreas(a) # {} THEN "Review" ELSE "Fail")

-----------------------------------------------------------------------------
(* The authentication methods policy *)

\* A policy that lists no methods has no authenticator either.
Methods ==
  {a \in [campaign : BOOLEAN, listed : BOOLEAN, sms : {"notFound", "enabled", "disabled"},
          voice : {"enabled", "disabled"}, email : {"enabled", "disabled"},
          authenticator : {"missing", "bare", "weak", "strong"},
          systemPreferred : {"unset", "on", "off"}] :
     ~a.listed => /\ a.sms = "notFound" /\ a.voice = "enabled" /\ a.email = "enabled"
                  /\ a.authenticator = "missing"}

AuthenticatorScale   == <<"weak", "strong">>
SystemPreferredScale == <<"off", "on">>
MethodScales ==
  [campaign |-> YesIsSafe, sms |-> <<"notFound", "enabled", "disabled">>,
   voice |-> <<"enabled", "disabled">>, email |-> <<"enabled", "disabled">>,
   authenticator |-> AuthenticatorScale, systemPreferred |-> SystemPreferredScale]

registrationCampaign(a) == PassElse("ENTRA-MFA-001", a.campaign, "Warning")

weakMethods(a) ==
  IF ~a.listed THEN NoRows
  ELSE PassIf("ENTRA-AUTHMETHOD-001", a.sms = "disabled")
         \cup PassIf("ENTRA-AUTHMETHOD-001", a.voice = "disabled")
         \cup PassIf("ENTRA-AUTHMETHOD-002", a.email = "disabled")

\* weak and strong tell whether number matching and the app are shown together.
authenticatorFatigue(a) ==
  IF a.authenticator = Unread THEN NoRows
  ELSE Row("ENTRA-AUTHMETHOD-003",
         IF a.authenticator = "strong" THEN "Pass"
         ELSE IF a.authenticator = "weak" THEN "Fail" ELSE "Review")

systemPreferred(a) ==
  IF a.systemPreferred = Unread THEN NoRows
  ELSE PassIf("ENTRA-AUTHMETHOD-004", a.systemPreferred # "off")

-----------------------------------------------------------------------------
(* The directory settings *)

\* The length of the banned list is that of its text split at commas, which is 1
\* for an empty text; a missing threshold counts as 0.
SettingScales ==
  [onPremises |-> <<"off", "on">>, enforced |-> YesIsSafe,
   banned |-> <<"unset", "empty", "listed">>, lockout |-> <<NaN, 11, 10, 0>>]
Unconfigured == [onPremises : {Unread}, enforced : {FALSE}, banned : {"unset"}, lockout : {0}]
DirectorySettings == Answers(SettingScales) \cup Unconfigured

configured(a) == a.onPremises # Unread
bannedEnforced(a) ==
  IF configured(a) THEN PassElse("ENTRA-PASSWORD-002", a.enforced, "Warning") ELSE NoRows
bannedList(a) ==
  IF configured(a) THEN PassElse("ENTRA-PASSWORD-004", a.banned # "unset", "Warning") ELSE NoRows
lockoutThreshold(a) ==
  IF ~configured(a) THEN NoRows
  ELSE IF a.lockout = NaN THEN Stops ELSE PassElse("ENTRA-PASSWORD-003", a.lockout <= 10, "Review")

\* orgSettings is what the LinkedIn check of user-group-checks stores.
onPremisesProtection(a) ==
  Row("ENTRA-PASSWORD-005",
    IF a.orgSettings = "cloud" THEN "Info"
    ELSE IF a.onPremises = "on" THEN "Pass"
    ELSE IF a.onPremises = "off" THEN "Fail" ELSE "Review")

-----------------------------------------------------------------------------
(* Domains and password hash synchronisation *)

\* Fewer domains whose passwords expire, until none is left.
ExpirationScale == <<{"expires"}, {"expires", "neverExpires"}, {"neverExpires"}>>
passwordExpiration(a) ==
  UNION {IF d = "unverified" THEN NoRows ELSE PassIf("ENTRA-PASSWORD-001", d = "neverExpires") :
           d \in a.domains}

HashSync == [noOrganization |-> "Review", notSynced |-> "Info", syncedWithHashes |-> "Pass",
             syncedWithoutHashes |-> "Warning"]
SyncScale == <<"syncedWithoutHashes", "syncedWithHashes">>
passwordHashSync(a) == Row("ENTRA-HYBRID-001", HashSync[a.sync])

\* What was stored is judged without another call, for the last time.
Judging(fields, request) == Local(Forgetting(fields, Sharing(fields, request)))

runPasswordAuthChecks ==
  <<Ordered([defaults |-> YesIsSafe],
      Request([a \in Defaults |-> <<securityDefaults(a), defaultsGap(a)>>],
              Row("ENTRA-SECDEFAULT-001", "Review"), Row("ENTRA-SECDEFAULT-001", "Review"))),
    Keeping({"authenticator", "systemPreferred"},
      Ordered(MethodScales,
        Request([a \in Methods |-> <<registrationCampaign(a), weakMethods(a)>>],
                NoRows, NoRows))),
    Static(Row("ENTRA-SSPR-001", "Review")),
    Keeping({"onPremises"},
      Ordered(SettingScales,
        Request([a \in DirectorySettings |->
                   <<bannedEnforced(a), bannedList(a), lockoutThreshold(a)>>],
                Row("ENTRA-PASSWORD-002", "Info"), NoRows))),
    Ordered([domains |-> ExpirationScale],
      Request([a \in [domains : SUBSET {"unverified", "expires", "neverExpires"}] |->
                 <<passwordExpiration(a)>>],
              NoRows, NoRows)),
    Judging({"authenticator"}, Ordered([authenticator |-> AuthenticatorScale],
      Request([a \in [authenticator : {Unread, "missing", "bare", "weak", "strong"}] |->
                 <<authenticatorFatigue(a)>>],
              NoRows, NoRows))),
    Judging({"systemPreferred"}, Ordered([systemPreferred |-> SystemPreferredScale],
      Request([a \in [systemPreferred : {Unread, "unset", "on", "off"}] |-> <<systemPreferred(a)>>],
              NoRows, NoRows))),
    Judging({"orgSettings", "onPremises"}, Ordered([onPremises |-> <<"off", "on">>],
      Request([a \in [orgSettings : {Unread, "cloud", "synced"}, onPremises : {Unread, "off", "on"}] |->
                 <<onPremisesProtection(a)>>],
              NoRows, NoRows))),
    Ordered([sync |-> SyncScale],
      Request([a \in [sync : DOMAIN HashSync] |-> <<passwordHashSync(a)>>], NoRows, NoRows))>>

-----------------------------------------------------------------------------
(* mfa-report, password-policy-report *)

\* An Info row for each user; no answer of any kind adds rows or leaves.
users(a) == IF a.users = 0 THEN NoRows ELSE Row(NoId, "Info")
mfaReport == <<Swallowing(Request([a \in [users : 0..1] |-> <<users(a)>>], NoRows, NoRows))>>

\* The domains are reported only after the second call.
domainsListed(a) == IF a.domains = "none" THEN NoRows ELSE Row(NoId, "Info")
passwordPolicyReport ==
  LET Domains == [domains : {"none", "some"}] IN
  <<Keeping({"domains"}, Request([a \in Domains |-> <<>>], Leaves, Leaves)),
    Forgetting({"domains"}, Sharing({"domains"},
        Request([a \in Domains |-> <<domainsListed(a)>>],
                Leaves, Leaves)))>>

-----------------------------------------------------------------------------
(* entra-authmethod-additional *)

\* A setting the policy lacks is looked for in the authenticator's own.
AdditionalScales ==
  [migrated |-> YesIsSafe, suspicious |-> YesIsSafe, pass |-> <<"off", "on">>,
   once |-> <<"often", "once">>]
Additional ==
  {a \in [migrated : BOOLEAN, suspicious : BOOLEAN, pass : {"missing", "off", "on"},
          once : {"unset", "often", "once"}] : a.pass = "missing" => a.once = "unset"}

migration(a)   == PassElse("ENTRA-AUTHMETHOD-005", a.migrated, "Warning")
suspicious(a)  == PassIf("ENTRA-AUTHMETHOD-006", a.suspicious)
accessPass(a)  == PassElse("ENTRA-AUTHMETHOD-007", a.pass = "on", "Review")
singleUse(a) ==
  Row("ENTRA-AUTHMETHOD-008",
    IF a.once = "unset" THEN "Review" ELSE IF a.once = "once" THEN "Pass" ELSE "Fail")

entraAuthMethodAdditional ==
  <<Ordered(AdditionalScales,
      Request([a \in Additional |-> <<migration(a), suspicious(a), accessPass(a), singleUse(a)>>],
              AllRows({"ENTRA-AUTHMETHOD-005", "ENTRA-AUTHMETHOD-006", "ENTRA-AUTHMETHOD-007",
                       "ENTRA-AUTHMETHOD-008"}, "Review"), NoRows))>>
=============================================================================
