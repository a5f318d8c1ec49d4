-------------------------- MODULE DirectorySettings --------------------------
(***************************************************************************)
(* The collectors that judge users, guests and groups: user-group-checks,  *)
(* entra-group-additional, entra-tou-config, entra-final-batch and         *)
(* user-summary, and the order of entra-security-config.                   *)
(*                                                                         *)
(* entra-security-config fetches the authorization policy once, and the    *)
(* checks of several collectors read it from the store of the run.         *)
(***************************************************************************)
EXTENDS AuthenticationChecks, AdminRoles

CONSTANT AuthPolicies  \* authorization policies Graph may answer

\* consent is the list of consent policies that users are assigned.
PolicyFields == {"consent", "apps", "groups", "tenants", "invites", "guestRole", "restricted"}
UnreadPolicy == [f \in PolicyFields |-> Unread]

\* What the checks read of the policy, whether it is in the store or not.
Part(fields) ==
  {[f \in fields |-> a[f]] : a \in AuthPolicies \cup {UnreadPolicy}}

\* From the least to the most secure.
InviteScale == <<"everyone", "adminsGuestInvitersAndAllMembers", "adminsAndGuestInviters", "none">>
PolicyScale ==
  [consent |-> <<"legacy", "low", "nothing">>, apps |-> <<"yes", "no">>,
   groups |-> <<"yes", "no">>, tenants |-> <<"yes", "no">>, invites |-> InviteScale,
   guestRole |-> <<"member", "restricted">>]

\* Reads only the store.
FromPolicy(fields, checks) ==
  Local(Sharing(fields, Ordered(PolicyScale, Request(checks, NoRows, NoRows))))

-----------------------------------------------------------------------------
(* user-group-checks: what the shared policy says *)

userConsent(a) ==
  IF a.consent = Unread THEN NoRows
  ELSE PassIf("ENTRA-CONSENT-001", a.consent = "nothing")
         \cup PassIf("ENTRA-APPREG-001", a.apps = "no")
         \cup PassElse("ENTRA-GROUP-001", a.groups = "no", "Warning")
         \cup PassElse("ENTRA-TENANT-001", a.tenants = "no", "Warning")

InviteStatus == [none |-> "Pass", adminsAndGuestInviters |-> "Pass",
                 adminsGuestInvitersAndAllMembers |-> "Review", everyone |-> "Warning"]
guestInvites(a) ==
  IF a.invites = Unread THEN NoRows
  ELSE Row("ENTRA-GUEST-002",
           IF a.invites \in DOMAIN InviteStatus THEN InviteStatus[a.invites] ELSE "Review")
         \cup PassElse("ENTRA-GUEST-001", a.guestRole = "restricted", "Warning")

appsByUsers(a) == IF a.apps = Unread THEN NoRows ELSE PassIf("ENTRA-APPS-001", a.apps = "no")

-----------------------------------------------------------------------------
(* user-group-checks: what it asks for itself *)

adminConsent(a) == PassElse("ENTRA-CONSENT-002", a.enabled, "Warning")

\* The policy ids are compared without the prefix that Graph gives them.
verifiedPublishers(a) ==
  PassElse("ENTRA-CONSENT-003", a.consent \in {"nothing", "lowUnprefixed"}, "Warning")
orgConsent(a) == PassIf("ENTRA-ORGSETTING-001", a.consent # "legacy")

tenantWideGrants(a) ==
  Row("ENTRA-CONSENT-004",
    IF a.grants <= 5 THEN "Pass" ELSE IF a.grants <= 15 THEN "Info" ELSE "Warning")

guestCount(a) == Row("ENTRA-GUEST-003", "Info")

\* The organization's answer goes into the store.
linkedIn(a) == PassIf("ENTRA-LINKEDIN-001", a.disabled)

\* Without the shared policy the invites are not everyone's.
guestDomains(a) ==
  Row("ENTRA-GUEST-004",
    IF a.invites = "none" \/ (a.invites # "everyone" /\ a.restrictedInbound) THEN "Pass"
    ELSE IF a.invites # "everyone" THEN "Review" ELSE "Fail")

\* Graph does not tell; the call only shows whether the report answers.
perUserMfa == Row("ENTRA-PERUSER-001", "Review")

dynamicGuestGroup(a) == PassIf("ENTRA-GROUP-002", a.found)

\* A failed read of a group's owners leaves those of the group before in place.
ownerless(owners) ==
  LET Answered(i) == {j \in 1..i : owners[j] # "failed"}
      Seen(i)     == IF Answered(i) = {} THEN "none"
                     ELSE owners[CHOOSE j \in Answered(i) : \A k \in Answered(i) : k <= j]
  IN {i \in 1..Len(owners) : Seen(i) = "none"}
ownedGroups(a) == PassIf("ENTRA-GROUP-003", ownerless(a.owners) = {})

OwnerAnswers == {"none", "some", "failed"}

disabledAccounts(a) == IF a.number THEN Row("ENTRA-DISABLED-001", "Info") ELSE Stops

\* A failed call adds a Skipped row for what it would have told.
Skipped(id) == Row(id, "Skipped")

runUserGroupChecks ==
  LET Asked(id, checks) == Request(checks, Skipped(id), Skipped(id))
      Consent == [consent |-> <<"legacy", "low", "lowUnprefixed", "nothing">>]
      Domains == [invites : {a.invites : a \in AuthPolicies \cup {UnreadPolicy}},
                  restrictedInbound : BOOLEAN]
      ConsentFields == {"consent", "apps", "groups", "tenants"}
  IN <<FromPolicy(ConsentFields, [a \in Part(ConsentFields) |-> <<userConsent(a)>>]),
       Ordered([enabled |-> YesIsSafe],
         Asked("ENTRA-CONSENT-002", [a \in [enabled : BOOLEAN] |-> <<adminConsent(a)>>])),
       Ordered(Consent,
         Asked("ENTRA-CONSENT-003", [a \in Answers(Consent) |-> <<verifiedPublishers(a)>>])),
       Ordered([grants |-> <<16, 15, 6, 5, 0>>],
         Asked("ENTRA-CONSENT-004",
               [a \in [grants : {0, 5, 6, 15, 16}] |-> <<tenantWideGrants(a)>>])),
       FromPolicy({"invites", "guestRole"},
         [a \in Part({"invites", "guestRole"}) |-> <<guestInvites(a)>>]),
       Asked("ENTRA-GUEST-003", [a \in [guests : 0..1] |-> <<guestCount(a)>>]),
       Keeping({"orgSettings"},
         Ordered([disabled |-> YesIsSafe], Asked("ENTRA-LINKEDIN-001",
           [a \in [disabled : BOOLEAN, orgSettings : {"cloud", "synced"}] |-> <<linkedIn(a)>>]))),
       Request(Always(<<perUserMfa>>), perUserMfa, perUserMfa),
       FromPolicy({"apps"}, [a \in Part({"apps"}) |-> <<appsByUsers(a)>>]),
       Forgetting(PolicyFields, Sharing({"invites"},
         Ordered([invites |-> InviteScale, restrictedInbound |-> YesIsSafe],
           Asked("ENTRA-GUEST-004", [a \in Domains |-> <<guestDomains(a)>>])))),
       Ordered([found |-> YesIsSafe],
         Asked("ENTRA-GROUP-002", [a \in [found : BOOLEAN] |-> <<dynamicGuestGroup(a)>>])),
       Asked("ENTRA-GROUP-003",
         [a \in [owners : UNION {[1..n -> OwnerAnswers] : n \in 0..3}] |-> <<ownedGroups(a)>>]),
       Ordered(Consent,
         Asked("ENTRA-ORGSETTING-001", [a \in Answers(Consent) |-> <<orgConsent(a)>>])),
       Static(AllRows({"ENTRA-ORGSETTING-002", "ENTRA-ORGSETTING-003", "ENTRA-ORGSETTING-004"},
                      "Review")),
       Asked("ENTRA-DISABLED-001", [a \in [number : BOOLEAN] |-> <<disabledAccounts(a)>>])>>

-----------------------------------------------------------------------------
(* entra-group-additional, entra-tou-config, entra-final-batch, user-summary *)

dynamicMembership(a)    == PassIf("ENTRA-GROUP-004", ~a.selfControlled)
sensitiveGroups(a)      == PassIf("ENTRA-GROUP-005", ~a.unprotected)
publicGroups(a) ==
  Row("ENTRA-GROUP-006",
    IF a.public > 5 THEN "Warning" ELSE IF a.public > 0 THEN "Review" ELSE "Pass")
syncedGlobalAdmins(a)   == PassIf("ENTRA-HYBRID-002", ~a.synced)

entraGroupAdditional ==
  LET Asked(id, scales, checks) == Ordered(scales, Request(checks, Row(id, "Review"), NoRows)) IN
  <<Asked("ENTRA-GROUP-004", [selfControlled |-> NoIsSafe],
          [a \in [selfControlled : BOOLEAN] |-> <<dynamicMembership(a)>>]),
    Asked("ENTRA-GROUP-005", [unprotected |-> NoIsSafe],
          [a \in [unprotected : BOOLEAN] |-> <<sensitiveGroups(a)>>]),
    Asked("ENTRA-GROUP-006", [public |-> <<6, 5, 1, 0>>],
          [a \in [public : {0, 1, 5, 6}] |-> <<publicGroups(a)>>]),
    Asked("ENTRA-HYBRID-002", [synced |-> NoIsSafe],
          [a \in [synced : BOOLEAN] |-> <<syncedGlobalAdmins(a)>>])>>

termsOfUse(a) ==
  Row("ENTRA-TOU-001",
    IF a.agreements = "none" THEN "Fail"
    ELSE IF a.agreements = "others" THEN "Warning" ELSE "Pass")
entraTouConfig ==
  <<Ordered([agreements |-> <<"none", "others", "acceptedBeforeViewing">>],
      Request([a \in [agreements : {"none", "others", "acceptedBeforeViewing"}] |->
                 <<termsOfUse(a)>>],
              Row("ENTRA-TOU-001", "Review"), NoRows))>>

\* Ten calls whose answers nobody looks at.
FinalIds == <<"ENTRA-APPS-003", "ENTRA-BREAKGLASS-002", "ENTRA-CA-001",
              "ENTRA-CA-SESSIONFREQ-001", "ENTRA-ROLEGROUP-001", "ENTRA-SESSION-001",
              "ENTRA-SESSIONAUTH-001", "ENTRA-SSPR-002", "ENTRA-STALEADMIN-001",
              "ENTRA-SYNCADMIN-001">>
entraFinalBatch ==
  [i \in 1..Len(FinalIds) |->
     LET rows == Row(FinalIds[i], "Review")
     IN Request(Always(<<rows>>), rows, rows)]

\* When sign-ins are refused the users are read once more without them.
usersCounted(a) == Row(NoId, "Info")
userSummary == <<Request([a \in [signIns : BOOLEAN] |-> <<usersCounted(a)>>], Leaves, Leaves)>>

-----------------------------------------------------------------------------
(* entra-security-config *)

\* The policy's answer, or null, goes into the store before its collectors run.
authPolicy == Keeping(PolicyFields, Request([a \in AuthPolicies |-> <<>>], NoRows, NoRows))

entraSecurityConfig ==
  <<authPolicy>> \o runPasswordAuthChecks \o runAdminRoleChecks \o conditionalAccessChecks
    \o runUserGroupChecks
=============================================================================
