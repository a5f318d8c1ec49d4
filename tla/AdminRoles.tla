----------------------------- MODULE AdminRoles ------------------------------
(***************************************************************************)
(* The collectors that judge administrators and Privileged Identity        *)
(* Management: admin-role-checks, entra-sod-config,                        *)
(* entra-admin-role-separation, entra-priv-remote,                         *)
(* entra-pim-additional-config and admin-role-report.                      *)
(***************************************************************************)
EXTENDS CollectorRows

-----------------------------------------------------------------------------
(* admin-role-checks *)

\* Break-glass accounts do not count.
GlobalAdmins == {a \in [activated : BOOLEAN, operational : 0..5] :
                   ~a.activated => a.operational = 0}
globalAdminCount(a) ==
  Row("ENTRA-ADMIN-001",
    IF ~a.activated \/ a.operational > 4 THEN "Warning"
    ELSE IF a.operational < 2 THEN "Fail" ELSE "Pass")

\* PIM counts as available with a licence and an answer to the first PIM call.  The
\* eligible are among the members, and nobody is when they are not or cannot be asked.
Pim ==
  {a \in [licensed : BOOLEAN, answers : BOOLEAN, pim : {"available", "unavailable"},
          membersRead : BOOLEAN, members : 0..2, eligibleRead : BOOLEAN, eligible : 0..2] :
     /\ a.pim = IF a.licensed /\ a.answers THEN "available" ELSE "unavailable"
     /\ ~a.licensed => ~a.answers
     /\ ~a.membersRead => a.members = 0
     /\ a.eligible <= a.members}
PimScales == [members |-> <<2, 1, 0>>, eligible |-> <<0, 1, 2>>]
PimTold ==
  [a \in {b \in Pim : ~b.membersRead \/ ~b.eligibleRead} |->
     {b \in Pim : /\ b.membersRead /\ b.eligibleRead
                  /\ b.licensed = a.licensed /\ b.answers = a.answers
                  /\ a.membersRead => b.members = a.members}]

permanentGAs(a) ==
  a.members - (IF a.licensed /\ a.membersRead /\ a.eligibleRead THEN a.eligible ELSE 0)

pimManagesRoles(a) ==
  Row("ENTRA-PIM-001",
    IF ~a.membersRead THEN "Unknown" ELSE IF permanentGAs(a) = 0 THEN "Pass" ELSE "Fail")

\* Reviews are asked for only where PIM is available, and a refusal takes that back.
Reviews ==
  {a \in [pim : {"available", "unavailable"}, reviews : {"read", "refused", "failed", "unasked"},
          guests : BOOLEAN, roles : BOOLEAN, pimNow : {"available", "unavailable"}] :
     /\ (a.pim = "unavailable") = (a.reviews = "unasked")
     /\ a.pimNow = IF a.reviews \in {"refused", "unasked"} THEN "unavailable" ELSE "available"
     /\ a.reviews # "read" => ~a.guests /\ ~a.roles}
ReviewScales == [guests |-> YesIsSafe, roles |-> YesIsSafe]
ReviewsTold ==
  [a \in {b \in Reviews : b.reviews \in {"refused", "failed"}} |->
     {b \in Reviews : b.reviews = "read" /\ b.pim = a.pim}]

accessReviews(a) ==
  IF a.reviews = "read"
  THEN PassIf("ENTRA-PIM-002", a.guests) \cup PassIf("ENTRA-PIM-003", a.roles)
  ELSE IF a.pimNow = "unavailable" THEN AllRows({"ENTRA-PIM-002", "ENTRA-PIM-003"}, "Review")
  ELSE NoRows

\* none: the answer names no assignment; bare: one without an approval rule.
Approvals == [pimNow : {"available", "unavailable"},
              approval : {"failed", "none", "bare", "waived", "required"}]
ApprovalScales == [approval |-> <<"bare", "waived", "required">>]
ApprovalsTold ==
  [a \in {b \in Approvals : b.approval = "failed"} |->
     {b \in Approvals : b.approval # "failed" /\ b.pimNow = a.pimNow}]
approval(id, a) ==
  Row(id,
    IF a.pimNow = "unavailable" \/ a.approval \in {"failed", "none"} THEN "Review"
    ELSE IF a.approval = "required" THEN "Pass" ELSE "Fail")
globalAdminApproval(a) == approval("ENTRA-PIM-004", a)
roleAdminApproval(a)   == approval("ENTRA-PIM-005", a)

cloudOnlyAdmins(a)     == PassIf("ENTRA-CLOUDADMIN-001", ~a.synced)
unlicensedAdmins(a)    == PassElse("ENTRA-CLOUDADMIN-002", ~a.licensed, "Warning")

\* restricted is a field of the shared authorization policy.
restrictedCenter(a) ==
  Row("ENTRA-ADMIN-002",
    IF a.restricted = "yes" THEN "Pass" ELSE IF a.restricted = "no" THEN "Fail" ELSE "Review")

\* Only administrators the registration report lists are judged.
Registrations == {a \in [admins : BOOLEAN, listed : SUBSET {"noMFA", "weak", "strong"}] :
                    ~a.admins => a.listed = {}}
RegistrationScales == [listed |-> <<{"noMFA", "weak", "strong"}, {"weak", "strong"}, {"strong"}>>]
adminMfa(a) ==
  IF ~a.admins THEN NoRows
  ELSE Row("ENTRA-ADMIN-004",
         IF "noMFA" \in a.listed THEN "Fail"
         ELSE IF "weak" \in a.listed THEN "Warning" ELSE "Pass")

runAdminRoleChecks ==
  <<Ordered([operational |-> <<5, 4, 3, 2>>],
      Request([a \in GlobalAdmins |-> <<globalAdminCount(a)>>], NoRows, NoRows)),
    Keeping({"pim"}, Telling(PimTold, Ordered(PimScales,
      Request([a \in Pim |-> <<pimManagesRoles(a)>>], NoRows, NoRows)))),
    Forgetting({"pim"}, Sharing({"pim"}, Keeping({"pimNow"},
      Telling(ReviewsTold, Ordered(ReviewScales,
        Request([a \in Reviews |-> <<accessReviews(a)>>], NoRows, NoRows)))))),
    Sharing({"pimNow"}, Telling(ApprovalsTold, Ordered(ApprovalScales,
      Request([a \in Approvals |-> <<globalAdminApproval(a)>>], NoRows, NoRows)))),
    Forgetting({"pimNow"}, Sharing({"pimNow"}, Telling(ApprovalsTold, Ordered(ApprovalScales,
      Request([a \in Approvals |-> <<roleAdminApproval(a)>>], NoRows, NoRows))))),
    Ordered([synced |-> NoIsSafe],
      Request([a \in [synced : BOOLEAN] |-> <<cloudOnlyAdmins(a)>>], NoRows, NoRows)),
    Ordered([licensed |-> NoIsSafe],
      Request([a \in [licensed : BOOLEAN] |-> <<unlicensedAdmins(a)>>], NoRows, NoRows)),
    Local(Sharing({"restricted"}, Ordered([restricted |-> <<"no", "yes">>],
      Request([a \in [restricted : {Unread, "unset", "no", "yes"}] |-> <<restrictedCenter(a)>>],
              NoRows, NoRows)))),
    Ordered(RegistrationScales,
      Request([a \in Registrations |-> <<adminMfa(a)>>], NoRows, NoRows))>>

-----------------------------------------------------------------------------
(* entra-sod-config, entra-admin-role-separation, entra-priv-remote *)

Holders == {a \in [global : 0..3, privileged : 0..2, both : 0..2] :
              a.both <= a.global /\ a.both <= a.privileged}
separated(a) == PassIf("ENTRA-SOD-001", a.global >= 2 /\ a.privileged >= 1 /\ a.both = 0)
entraSodConfig ==
  <<Ordered([both |-> <<2, 1, 0>>],
      Request([a \in Holders |-> <<separated(a)>>], Row("ENTRA-SOD-001", "Review"), NoRows))>>

\* An account that is gone is passed over; any other failed lookup ends the collector.
mixedAccounts(a) == PassIf("ENTRA-ADMINROLE-SEPARATION-001", "mailbox" \notin a.accounts)
entraAdminRoleSeparation ==
  <<Ordered([accounts |-> <<{"mailbox"}, {"plain", "mailbox"}, {"plain"}>>],
      Request([a \in [accounts : SUBSET {"gone", "plain", "mailbox"}] |-> <<mixedAccounts(a)>>],
              Row("ENTRA-ADMINROLE-SEPARATION-001", "Review"), NoRows))>>

NotRead == -1
pimForActivation(a) ==
  Row("ENTRA-PRIVREMOTE-001",
    IF a.eligible = NotRead THEN "Review"
    ELSE IF a.eligible = 0 THEN "Fail"
    ELSE IF a.permanent <= 2 THEN "Pass" ELSE "Warning")
entraPrivRemote ==
  <<Ordered([permanent |-> <<3, 2, 1, 0>>, eligible |-> <<0, 1>>],
      Request([a \in [permanent : 0..3, eligible : {NotRead, 0, 1}] |-> <<pimForActivation(a)>>],
              Row("ENTRA-PRIVREMOTE-001", "Review"), NoRows))>>

-----------------------------------------------------------------------------
(* entra-pim-additional-config *)

ActivationIds == {"ENTRA-PIM-006", "ENTRA-PIM-007", "ENTRA-PIM-008", "ENTRA-PIM-009",
                  "ENTRA-PIM-010"}

\* Without a licence, or an answer that tells, nothing else is asked.
pimLicence(a) == IF a.licensed THEN NoRows ELSE AllRows(ActivationIds, "Review") \cup Returns

\* Hours are -1 where the duration cannot be parsed.
PolicyScales ==
  [expires |-> YesIsSafe, hours |-> <<5, 4>>, justified |-> YesIsSafe,
   mfa |-> YesIsSafe, notified |-> YesIsSafe]
ActivationPolicies ==
  {a \in [found : BOOLEAN, expires : BOOLEAN, hours : {-1, 4, 5}, justified : BOOLEAN,
          mfa : BOOLEAN, notified : BOOLEAN] :
     /\ ~a.expires => a.hours = -1
     /\ ~a.found => ~a.expires /\ ~a.justified /\ ~a.mfa /\ ~a.notified}

activationPolicy(a) ==
  IF ~a.found THEN NoRows
  ELSE PassIf("ENTRA-PIM-006", a.expires /\ a.hours \in 0..4)
         \cup PassIf("ENTRA-PIM-007", a.justified) \cup PassIf("ENTRA-PIM-008", a.mfa)
         \cup PassIf("ENTRA-PIM-009", a.expires) \cup PassIf("ENTRA-PIM-010", a.notified)

\* One policy for each of the three tier-0 roles; a licence lookup that fails counts
\* as none.
entraPimAdditionalConfig ==
  LET PerRole == Ordered(PolicyScales,
                   Request([a \in ActivationPolicies |-> <<activationPolicy(a)>>],
                           AllRows(ActivationIds, "Review"), NoRows))
      Unlicensed == AllRows(ActivationIds, "Review") \cup Returns
  IN <<Swallowing(Request([a \in [licensed : BOOLEAN] |-> <<pimLicence(a)>>],
                          Unlicensed, Unlicensed)),
       PerRole, PerRole, PerRole>>

-----------------------------------------------------------------------------
(* admin-role-report *)

\* Roles whose members cannot be read are passed over, whatever the reason.
membersListed(a) == IF "members" \in a.roles THEN Row(NoId, "Info") ELSE NoRows
adminRoleReport ==
  <<Request([a \in [roles : SUBSET {"members", "empty", "unread"}] |-> <<membersListed(a)>>],
            Leaves, Leaves)>>
=============================================================================
