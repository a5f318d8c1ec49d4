--------------------------- MODULE EnterpriseApps ----------------------------
(***************************************************************************)
(* The collectors that judge applications: ent-app-security-config,        *)
(* app-registration-report and entra-mfa-consent-additional.               *)
(*                                                                         *)
(* A service principal is a record of what the checks look at; permissions *)
(* are the tiers of its application permissions, and an app registration   *)
(* is its redirect URIs, as pairs of a bucket and a kind, and its audience. *)
(***************************************************************************)
EXTENDS CollectorRows

CONSTANTS
  PrincipalSets,    \* sets of service principals Graph may answer
  RegistrationSets, \* sets of app registrations Graph may answer
  FewApps           \* apps with credentials that are still only noted (10)

ASSUME EnterpriseAppsAssumption ==
  FewApps \in Nat /\ \A apps \in PrincipalSets : IsFiniteSet(apps)

\* One of the supporting reads may fail; its result is then empty.
Supports == {"organization", "servicePrincipals", "roleAssignments", "permissions",
             "oauth2Grants", "applications", "none"}

\* No check judges both principals and registrations, which vary in turn.
AppReads ==
  {w \in [principals : PrincipalSets, registrations : RegistrationSets,
          unread : Supports, lock : {"on", "off", "unread"}] :
     \/ w.registrations = {} /\ w.lock = "on"
     \/ w.principals = {} /\ w.unread \in {"applications", "none"}}

servicePrincipals(w) == IF w.unread = "servicePrincipals" THEN {} ELSE w.principals
regularApps(w)       == {sp \in servicePrincipals(w) : ~sp.managedIdentity}
managedIdentities(w) == {sp \in servicePrincipals(w) : sp.managedIdentity}
registrations(w)     == IF w.unread = "applications" THEN {} ELSE w.registrations

\* What the joined answers say of one principal.
permissions(w, sp) == IF w.unread = "permissions" THEN {} ELSE sp.permissions
holdsRole(w, sp)   == w.unread # "roleAssignments" /\ sp.role
grantsScopes(w, sp) == w.unread # "oauth2Grants" /\ sp.dangerousScopes
hasCredentials(sp) == sp.secret # "none" \/ sp.key # "none"

enabledAppsWithCreds(w) == {sp \in regularApps(w) : sp.enabled /\ hasCredentials(sp)}

isFirstPartyApp(sp) == sp.listed \/ sp.owner = "microsoft"

\* Without the tenant's own id no app is foreign.
foreignApps(w) ==
  IF w.unread = "organization" THEN {}
  ELSE {sp \in regularApps(w) : sp.owner \notin {"none", "tenant"} /\ sp.enabled}
thirdPartyForeignApps(w) == {sp \in foreignApps(w) : ~isFirstPartyApp(sp)}

\* An app without an owner is internal exactly when the tenant's id is unknown.
internalApps(w) ==
  {sp \in regularApps(w) :
     sp.owner = IF w.unread = "organization" THEN "none" ELSE "tenant"}

NoneOf(id, apps, else) == PassElse(id, apps = {}, else)

\* What the checks are about: foreign apps, any principals, or registrations.
ForeignIds ==
  {"ENTRA-ENTAPP-003", "ENTRA-ENTAPP-004", "ENTRA-ENTAPP-005", "ENTRA-ENTAPP-011",
   "ENTRA-ENTAPP-020"}
PrincipalIds ==
  ForeignIds \cup
  {"ENTRA-ENTAPP-001", "ENTRA-ENTAPP-002", "ENTRA-ENTAPP-006", "ENTRA-ENTAPP-008",
   "ENTRA-ENTAPP-009", "ENTRA-ENTAPP-010", "ENTRA-ENTAPP-012", "ENTRA-ENTAPP-013",
   "ENTRA-ENTAPP-014", "ENTRA-ENTAPP-015", "ENTRA-ENTAPP-016", "ENTRA-ENTAPP-017",
   "ENTRA-ENTAPP-018", "ENTRA-ENTAPP-019"}
RegistrationIds ==
  {"ENTRA-APPREG-002", "ENTRA-APPREG-003", "ENTRA-APPREG-004", "ENTRA-ENTAPP-021"}

-----------------------------------------------------------------------------
(* The checks, in their order *)

appsWithCredentials(w) ==
  Row("ENTRA-ENTAPP-001",
    IF enabledAppsWithCreds(w) = {} THEN "Pass"
    ELSE IF Cardinality(enabledAppsWithCreds(w)) <= FewApps THEN "Info" ELSE "Warning")

\* A sign-in that could not be looked up leaves the app out.
inactiveApps(w) ==
  NoneOf("ENTRA-ENTAPP-002",
    {sp \in enabledAppsWithCreds(w) : sp.activity \in {"none", "old"}}, "Fail")

foreignTiers(w) ==
  NoneOf("ENTRA-ENTAPP-003",
    {sp \in thirdPartyForeignApps(w) : "tier0" \in permissions(w, sp)}, "Fail") \cup
  NoneOf("ENTRA-ENTAPP-011",
    {sp \in thirdPartyForeignApps(w) : "tier1" \in permissions(w, sp)}, "Warning")

foreignDelegated(w) ==
  NoneOf("ENTRA-ENTAPP-004", {sp \in thirdPartyForeignApps(w) : grantsScopes(w, sp)}, "Fail")

foreignRoles(w) ==
  NoneOf("ENTRA-ENTAPP-005", {sp \in thirdPartyForeignApps(w) : holdsRole(w, sp)}, "Fail")

excessive(w) ==
  NoneOf("ENTRA-ENTAPP-006",
    {sp \in regularApps(w) : sp.enabled /\ "many" \in permissions(w, sp)}, "Warning")

propertyLock(w) == PassElse("ENTRA-ENTAPP-007", w.lock = "on", "Info")

managedPermissions(w) ==
  NoneOf("ENTRA-ENTAPP-008",
    {sp \in managedIdentities(w) : permissions(w, sp) \cap {"tier0", "tier1"} # {}}, "Fail")

managedRoles(w) ==
  NoneOf("ENTRA-ENTAPP-009", {sp \in managedIdentities(w) : holdsRole(w, sp)}, "Warning")

internalTier0(w) ==
  NoneOf("ENTRA-ENTAPP-010", {sp \in internalApps(w) : "tier0" \in permissions(w, sp)}, "Warning")

secretOnly(w) ==
  NoneOf("ENTRA-ENTAPP-012",
    {sp \in regularApps(w) : sp.enabled /\ sp.secret # "none" /\ sp.key = "none"}, "Warning")

expiredCredentials(w) ==
  NoneOf("ENTRA-ENTAPP-013",
    {sp \in regularApps(w) : "expired" \in {sp.secret, sp.key}}, "Warning")

dualCredentials(w) ==
  NoneOf("ENTRA-ENTAPP-014",
    {sp \in regularApps(w) : sp.secret # "none" /\ sp.key # "none"}, "Info")

secretWithRole(w) ==
  NoneOf("ENTRA-ENTAPP-015",
    {sp \in regularApps(w) : sp.secret # "none" /\ holdsRole(w, sp)}, "Fail")

\* Owners that could not be looked up are as good as none, here and in 017.
privilegedOwners(w) ==
  NoneOf("ENTRA-ENTAPP-016",
    {sp \in regularApps(w) : "tier0" \in permissions(w, sp) /\ sp.owners = "some"}, "Fail")

roleOwners(w) ==
  NoneOf("ENTRA-ENTAPP-017",
    {sp \in regularApps(w) : holdsRole(w, sp) /\ sp.owners = "some"}, "Warning")

\* Here they are as good as one.
orphaned(w) ==
  NoneOf("ENTRA-ENTAPP-018",
    {sp \in regularApps(w) : hasCredentials(sp) /\ sp.owners = "none"}, "Warning")

\* lastSignInActivity is not among the properties asked for.
unusedPrivileged(w) ==
  NoneOf("ENTRA-ENTAPP-019",
    {sp \in regularApps(w) : "tier0" \in permissions(w, sp)}, "Warning")

localhostUris(w) ==
  NoneOf("ENTRA-APPREG-002",
    {app \in registrations(w) : \E uri \in app.uris : uri[2] = "localhost"}, "Warning")

httpUris(w) ==
  NoneOf("ENTRA-APPREG-003",
    {app \in registrations(w) : app.uris \cap {<<"web", "http">>, <<"spa", "http">>} # {}}, "Fail")

wildcardUris(w) ==
  NoneOf("ENTRA-APPREG-004",
    {app \in registrations(w) :
       app.uris \cap {<<"web", "wildcard">>, <<"spa", "wildcard">>} # {}}, "Fail")

impersonators(w) ==
  NoneOf("ENTRA-ENTAPP-020", {sp \in thirdPartyForeignApps(w) : sp.microsoftName}, "Fail")

multiTenant(w) ==
  NoneOf("ENTRA-ENTAPP-021", {app \in registrations(w) : app.multiTenant}, "Info")

\* The lock is the only setting; the other reads tell of apps.
LockScale == [lock |-> <<"off", "on">>]
AppsTold ==
  [a \in {b \in AppReads : b.unread # "none" \/ b.lock = "unread"} |->
     {b \in AppReads : /\ b.principals = a.principals /\ b.registrations = a.registrations
                       /\ b.unread = "none" /\ b.lock # "unread"
                       /\ b.lock = a.lock \/ a.lock = "unread"}]

entAppSecurityConfig ==
  <<Telling(AppsTold, Ordered(LockScale, Request([w \in AppReads |->
      <<appsWithCredentials(w), inactiveApps(w), foreignTiers(w), foreignDelegated(w),
        foreignRoles(w), excessive(w), propertyLock(w), managedPermissions(w),
        managedRoles(w), internalTier0(w), secretOnly(w), expiredCredentials(w),
        dualCredentials(w), secretWithRole(w), privilegedOwners(w), roleOwners(w),
        orphaned(w), unusedPrivileged(w), localhostUris(w), httpUris(w),
        wildcardUris(w), impersonators(w), multiTenant(w)>>],
      NoRows, NoRows)))>>

-----------------------------------------------------------------------------
(* app-registration-report, entra-mfa-consent-additional *)

registered(a) == IF a.registrations = {} THEN NoRows ELSE Row(NoId, "Info")
appRegistrationReport == <<
    Request([a \in [registrations : RegistrationSets] |-> <<registered(a)>>],
            Leaves, Leaves)>>

\* Users without MFA in percent, rounded; -1 when there are no users.
MfaScales == [withoutMfa |-> <<21, 20, 6, 5, 0>>]
NoUsers   == -1

mfaShare(a) ==
  Row("ENTRA-MFA-002",
    IF a.withoutMfa = NoUsers THEN "Review"
    ELSE IF a.withoutMfa <= 5 THEN "Pass" ELSE IF a.withoutMfa <= 20 THEN "Warning" ELSE "Fail")

\* notifyReviewers, when it is there, decides alone.
ConsentScales == [reviewers |-> YesIsSafe, enabled |-> YesIsSafe]
NotifyScales  == [enabled |-> YesIsSafe, notify |-> <<"off", "on">>]

consentReviewers(a) == PassIf("ENTRA-CONSENT-005", a.reviewers \/ a.enabled)
consentNotifies(a) ==
  PassElse("ENTRA-CONSENT-006", a.notify = "on" \/ (a.notify = "absent" /\ a.enabled), "Warning")

\* Members with a telling name are counted, and only without any the cloud-only ones.
EmergencyScales ==
  [activated |-> YesIsSafe, emergency |-> <<0, 1, 2>>, cloudOnly |-> <<0, 1, 2>>]
Emergency == [activated : BOOLEAN, emergency : 0..2, cloudOnly : 0..2]
emergencyAdmins(a) ==
  PassIf("ENTRA-ADMIN-003",
    a.activated /\ (IF a.emergency > 0 THEN a.emergency ELSE a.cloudOnly) >= 2)

intuneWrite(a) == PassIf("ENTRA-APPS-002", ~a.mentionsIntuneWrite)

entraMfaConsentAdditional ==
  LET Notify == Answers(NotifyScales) \cup [enabled : BOOLEAN, notify : {"absent"}]
      Refused(id) == Row(id, "Review")
  IN <<Ordered(MfaScales,
         Request([a \in Answers(MfaScales) \cup [withoutMfa : {NoUsers}] |-> <<mfaShare(a)>>],
                 Refused("ENTRA-MFA-002"), NoRows)),
       Ordered(ConsentScales,
      Request([a \in Answers(ConsentScales) |-> <<consentReviewers(a)>>],
              Refused("ENTRA-CONSENT-005"), NoRows)),
       Ordered(NotifyScales,
      Request([a \in Notify |-> <<consentNotifies(a)>>], Refused("ENTRA-CONSENT-006"), NoRows)),
       Ordered(EmergencyScales,
      Request([a \in Emergency |-> <<emergencyAdmins(a)>>], Refused("ENTRA-ADMIN-003"), NoRows)),
       Ordered([mentionsIntuneWrite |-> NoIsSafe],
      Request([a \in [mentionsIntuneWrite : BOOLEAN] |-> <<intuneWrite(a)>>],
              Refused("ENTRA-APPS-002"), NoRows))>>
=============================================================================
