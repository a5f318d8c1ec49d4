----------------------------- MODULE MCCollectors -----------------------------
(* Small tenants for the collectors. *)
EXTENDS Collectors

MCSections == DOMAIN Collectors

MCAdminRoles    == {"admin"}
MCDefaultsRoles == {"admin"}

Office  == [id |-> "office", ip |-> TRUE, trusted |-> TRUE]
Country == [id |-> "country", ip |-> FALSE, trusted |-> FALSE]
Usual   == [defaults |-> FALSE, located |-> TRUE, locations |-> {Office},
            assigned |-> {"admin"}, gone |-> {}]

\* The usual, and everything else in turn.
MCOtherReads ==
  {Usual, [Usual EXCEPT !.defaults = TRUE], [Usual EXCEPT !.locations = {Office, Country}],
   [Usual EXCEPT !.locations = {}], [Usual EXCEPT !.located = FALSE, !.locations = {}],
   [Usual EXCEPT !.assigned = {}], [Usual EXCEPT !.assigned = {Unread}],
   [Usual EXCEPT !.gone = {"g1"}], [Usual EXCEPT !.gone = {"g3"}]}

Nothing ==
  [state |-> "enabled", includeUsers |-> {}, includeRoles |-> {}, excludeRoles |-> {},
   excludeUsers |-> {}, includeGroups |-> <<>>, excludeGroups |-> <<>>, controls |-> {},
   operator |-> "OR", strength |-> FALSE, clientApps |-> {}, userRisk |-> {},
   signInRisk |-> {}, frequency |-> "off", browser |-> "off", registersSecurityInfo |-> FALSE,
   apps |-> {}, deviceCode |-> FALSE, includeLocations |-> {}, excludeLocations |-> {}]

\* One policy for each thing that some check looks for.
Enabled ==
  {[Nothing EXCEPT !.includeUsers = {"All"}, !.controls = {"mfa"}, !.apps = {"All"}],
   [Nothing EXCEPT !.includeUsers = {"All"}, !.controls = {"mfa", "compliantDevice"},
                   !.excludeLocations = {"office"}],
   [Nothing EXCEPT !.includeUsers = {"All"}, !.excludeUsers = {"glass"}, !.controls = {"mfa"},
                   !.signInRisk = {"high"}],
   [Nothing EXCEPT !.includeRoles = {"admin"}, !.controls = {"mfa"}, !.strength = TRUE,
                   !.frequency = "timeBased", !.browser = "never", !.apps = {"management"}],
   [Nothing EXCEPT !.includeUsers = {"All"}, !.clientApps = {"other"}, !.controls = {"block"}],
   [Nothing EXCEPT !.includeUsers = {"All"}, !.signInRisk = {"low"}, !.userRisk = {"high"}],
   [Nothing EXCEPT !.includeUsers = {"None"}, !.registersSecurityInfo = TRUE,
                   !.controls = {"domainJoinedDevice"}, !.browser = "always"],
   [Nothing EXCEPT !.includeGroups = <<"g1">>, !.excludeGroups = <<"g2">>, !.apps = {"intune"},
                   !.frequency = "everyTime"],
   [Nothing EXCEPT !.deviceCode = TRUE, !.controls = {"block"}, !.excludeRoles = {"admin"},
                   !.includeGroups = <<"g3">>, !.includeLocations = {"gone"},
                   !.browser = "always"]}

Unenforced ==
  {[p EXCEPT !.state = s] : p \in Enabled, s \in {"disabled", "enabledForReportingButNotEnforced"}}

Naming == {p \in Enabled : groupRefs(p) # {}}

\* At most one policy, one before or after one that names groups, or one that is enforced
\* beside itself disabled.  The two that name groups name more of them than are looked up.
MCPolicyLists ==
  {<<>>} \cup {<<p>> : p \in Enabled \cup Unenforced}
    \cup {<<p, q>> : p \in Enabled, q \in Naming} \cup {<<q, p>> : p \in Enabled, q \in Naming}
    \cup {<<[p EXCEPT !.state = "disabled"], p>> : p \in Enabled}

-----------------------------------------------------------------------------
App ==
  [managedIdentity |-> FALSE, enabled |-> TRUE, owner |-> "other", listed |-> FALSE,
   secret |-> "none", key |-> "none", permissions |-> {}, dangerousScopes |-> FALSE,
   role |-> FALSE, activity |-> "recent", owners |-> "none", microsoftName |-> FALSE]

Apps ==
  {App,
   [App EXCEPT !.permissions = {"tier0", "tier1", "many"}, !.secret = "valid"],
   [App EXCEPT !.permissions = {"tier1", "many"}, !.enabled = FALSE, !.key = "expired"],
   [App EXCEPT !.owner = "tenant", !.permissions = {"tier0"}, !.owners = "some",
               !.secret = "valid", !.key = "valid", !.activity = "old"],
   [App EXCEPT !.owner = "none", !.role = TRUE, !.secret = "expired", !.owners = "unread"],
   [App EXCEPT !.owner = "microsoft", !.permissions = {"tier0"}, !.role = TRUE],
   [App EXCEPT !.listed = TRUE, !.dangerousScopes = TRUE, !.permissions = {"tier1"}],
   [App EXCEPT !.microsoftName = TRUE, !.dangerousScopes = TRUE, !.role = TRUE,
               !.owners = "some"],
   [App EXCEPT !.managedIdentity = TRUE, !.permissions = {"tier0"}, !.role = TRUE]}

\* None, one, or one beside an app with a secret.
MCPrincipalSets ==
  {{}} \cup {{app} : app \in Apps} \cup {{app, [App EXCEPT !.secret = "valid"]} : app \in Apps}

MCRegistrationSets ==
  {{}} \cup
  {{[uris |-> uris, multiTenant |-> m]} :
     uris \in {{}, {<<"web", "http">>}, {<<"spa", "wildcard">>}, {<<"public", "localhost">>}},
     m \in BOOLEAN}

-----------------------------------------------------------------------------
Policy ==
  [consent |-> "low", apps |-> "yes", groups |-> "yes", tenants |-> "yes",
   invites |-> "everyone", guestRole |-> "member", restricted |-> "unset"]

MCAuthPolicies ==
  {Policy,
   [Policy EXCEPT !.consent = "nothing", !.apps = "no", !.groups = "no", !.tenants = "no"],
   [Policy EXCEPT !.consent = "legacy", !.invites = "none", !.restricted = "yes"],
   [Policy EXCEPT !.invites = "adminsGuestInvitersAndAllMembers", !.guestRole = "restricted",
                  !.restricted = "no"]}
=============================================================================
