------------------------------- MODULE Access --------------------------------
(***************************************************************************)
(* Who is let in: the gates of the API and of the pages, the menu, the     *)
(* checks the services repeat, and the API tokens (SEC-010, FR-081,        *)
(* FR-125, FR-156, FR-169).                                                *)
(*                                                                         *)
(* An operation has the name of its API handler; a page handler that calls *)
(* the same service has the same name, and its own name when the API has   *)
(* no such operation.  A table gives the roles a route file admits to each *)
(* of its operations; what the operations do is the matter of the other    *)
(* modules.  The people and their delegations are those of Accounts.       *)
(***************************************************************************)
EXTENDS Accounts

CONSTANTS NoToken, MaxTokenAge   \* bound: the age in days a token can reach

\* What the constants are; assumed by the module that gives them values.
AccessAssumption == MaxTokenAge \in Nat \ {0}

VARIABLE token   \* one row of api_token: its owner, scopes, and the time it has left

vars == <<account, delegations, token>>

Scopes == {"catalogue:read", "changes:read"}

Token == [owner: Users, scopes: SUBSET Scopes \ {{}}, left: 0 .. MaxTokenAge, revoked: BOOLEAN]

AccessTypeOK == AccountsTypeOK /\ token \in Token \union {NoToken}

-----------------------------------------------------------------------------
(* The sets of roles the routes name                                       *)

Administrator == {"ADMINISTRATOR"}

Authors == {"ADMINISTRATOR", "ENGINEER"}

Reviewing == {"REVIEWER", "ADMINISTRATOR", "CHIEF_ENGINEER"}

Working == {"ADMINISTRATOR", "ENGINEER", "REVIEWER", "CHIEF_ENGINEER"}

Oversight == Working \union {"STCD_OWNER"}

UserList == {"ADMINISTRATOR", "STCD_OWNER"}

Insight == {"ADMINISTRATOR", "CHIEF_ENGINEER"}

Approvers == {"STCD_OWNER", "CHIEF_ENGINEER", "ADMINISTRATOR"}

Grant(ops, roles) == [o \in ops |-> roles]

\* Two tables as one; where both have a row, that of the first.
Joined(f, g) == [o \in DOMAIN f \union DOMAIN g |-> IF o \in DOMAIN f THEN f[o] ELSE g[o]]

f ++ g == Joined(f, g)

-----------------------------------------------------------------------------
(* The API                                                                 *)

ApiChangeRequests ==
     Grant({"list_change_requests", "get_change_request"}, Oversight)
  ++ Grant({"submit", "withdraw", "withdraw_many"}, Authors)
  ++ Grant({"reviewer_signoff"}, {"REVIEWER"})
  ++ Grant({"admin_signoff", "assign_reviewer"}, Administrator)
  ++ Grant({"chief_engineer_decide"}, {"CHIEF_ENGINEER"})
  ++ Grant({"add_comment"}, Reviewing)

ApiDomainSignoffs ==
     Grant({"list_domain_signoffs"}, Oversight)
  ++ Grant({"create_domain_signoff", "list_my_domain_signoff_requests"}, {"ENGINEER"})
  ++ Grant({"create_domain_signoff_request"}, Authors)

ApiReviews ==
     Grant({"list_field_comments", "resolve_field_comment", "list_checklist_items",
            "cr_review_checklist", "list_attachments", "download_attachment"}, Working)
  ++ Grant({"add_field_comment"}, Reviewing)
  ++ Grant({"create_checklist_item", "update_checklist_item"}, Administrator)
  ++ Grant({"add_attachment", "delete_attachment"}, Authors)

ApiChangeSets ==
     Grant({"stalled_change_requests", "reviewer_workload", "auto_assign_reviewer",
            "close_change_set"}, Administrator)
  ++ Grant({"change_request_sla"}, Working)
  ++ Grant({"list_change_sets", "get_change_set"}, Oversight)
  ++ Grant({"create_change_set"}, Authors \union {"CHIEF_ENGINEER"})
  ++ Grant({"add_cr_to_change_set", "remove_cr_from_change_set"}, Authors)
  ++ Grant({"decide_change_set"}, Reviewing)

ApiPeople ==
     Grant({"list_delegations"}, Working)
  ++ Grant({"create_delegation", "revoke_delegation"}, Reviewing)
  ++ Grant({"list_notifications", "read_all_notifications", "read_notification"}, Roles)
  ++ Grant({"get_settings", "update_settings"}, Administrator)

ApiBulk ==
     Grant({"change_set_readiness", "list_samples", "get_bulk_sample", "change_set_dossier"},
           Oversight)
  ++ Grant({"change_set_bulk_edit", "change_set_bulk_submit", "change_set_domain_signoffs"},
           Authors)
  ++ Grant({"draw_sample", "set_sample_verdict", "reject_sample_defects"}, Working)

ApiStatusCodes ==
     Grant({"list_status_codes", "get_status_code"}, Roles)
  ++ Grant({"create_status_code", "create_sandbox", "create_deprecation_request",
            "next_available_identifier", "similar_status_codes"}, Authors)
  ++ Grant({"archive_status_code", "reinstate_status_code"}, Administrator)

ApiOneStatusCode ==
     Grant({"platform_family", "list_revisions", "diff_revisions"}, Roles)
  ++ Grant({"where_used", "code_connections", "catalogue_connections"}, Oversight)
  ++ Grant({"create_platform_variant", "create_revision", "update_revision"}, Authors)
  ++ Grant({"delete_sandbox_status_code", "set_planned_dates"}, Administrator)

ApiUsers ==
     Grant({"list_users", "get_user", "update_user", "user_usage"}, UserList)
  ++ Grant({"create_user", "delete_user", "force_reset_password"}, Administrator)
  ++ Grant({"change_own_password"}, Roles)

ApiLookups ==
     Grant({"list_lookup"}, Roles)
  ++ Grant({"create_lookup_value", "update_lookup_value", "create_functional_system_group",
            "create_functional_subgroup"}, Administrator)

ApiMapping ==
     Grant({"mapping_list", "mapping_export", "mapping_get", "mapping_change_list",
            "mapping_change_get", "mapping_change_create", "mapping_change_withdraw",
            "mapping_change_from_workbook"}, Oversight)
  ++ Grant({"mapping_change_decide"}, Approvers)
  ++ Grant({"mapping_seed"}, Administrator)

ApiImports ==
  Grant({"list_imports", "create_import", "import_template", "import_reconciliation",
         "import_reconciliation_with_master_list", "get_import", "get_import_errors"}, Authors)

ApiProgramImports ==
     Grant({"preview_st_import", "create_st_import"}, Authors)
  ++ Grant({"status_code_import_source", "legacy_mapping", "legacy_mapping_export"}, Working)

ApiReports ==
     Grant({"catalogue_health"}, Reviewing)
  ++ Grant({"success_metrics", "list_occurrence_imports", "create_occurrence_import",
            "occurrence_report"}, Insight)
  ++ Grant({"backup_status", "audit_verify"}, Administrator)
  ++ Grant({"list_saved_searches", "create_saved_search", "delete_saved_search"}, Roles)

ApiIntegrations ==
     Grant({"list_api_tokens", "create_api_token", "revoke_api_token", "list_webhooks",
            "create_webhook", "update_webhook", "webhook_deliveries",
            "hub_bulk_deprecation"}, Administrator)
  ++ Grant({"change_feed"}, Roles)
  ++ Grant({"hub_mapping_report"}, Oversight)
  ++ Grant({"create_mc_draft_from_hub"}, Authors)

ApiReleases ==
     Grant({"list_releases", "get_release"}, Roles)
  ++ Grant({"create_release", "list_candidates", "set_release_items", "delete_release",
            "publish_release"}, Administrator)

ApiPackages ==
     Grant({"release_baseline", "create_package", "list_packages", "package_status",
            "package_download"}, Roles)
  ++ Grant({"release_readiness"}, Oversight)

ApiExports ==
     Grant({"export_release", "export_released"}, Roles)
  ++ Grant({"export_working_set"}, UserList)
  ++ Grant({"export_full_database"}, Administrator)

ApiPublication ==
     Grant({"list_export_profiles", "list_audiences", "release_notes",
            "release_offline_bundle"}, Roles)
  ++ Grant({"create_export_profile", "update_export_profile"}, Administrator)
  ++ Grant({"release_export_history"}, Working)

ApiTranslations ==
     Grant({"verify_export", "software_version_matrix", "software_version_changes",
            "list_translations"}, Roles)
  ++ Grant({"export_manifest", "translation_worklist"}, Working)
  ++ Grant({"set_release_target_versions"}, Administrator)
  ++ Grant({"save_translation", "carry_over_translations"}, Authors)
  ++ Grant({"approve_translation"}, {"ADMINISTRATOR", "REVIEWER"})

Api ==
     ApiChangeRequests ++ ApiDomainSignoffs ++ ApiReviews ++ ApiChangeSets ++ ApiPeople
  ++ ApiBulk ++ ApiStatusCodes ++ ApiOneStatusCode ++ ApiUsers ++ ApiLookups ++ ApiMapping
  ++ ApiImports ++ ApiProgramImports ++ ApiReports ++ ApiIntegrations ++ ApiReleases
  ++ ApiPackages ++ ApiExports ++ ApiPublication ++ ApiTranslations
  ++ Grant({"search_audit_log"}, Reviewing)

-----------------------------------------------------------------------------
(* The pages                                                               *)

UiChangeRequests ==
     Grant({"my_change_requests", "get_change_request"}, Working)
  ++ Grant({"review_queue"}, {"REVIEWER", "ADMINISTRATOR"})
  ++ Grant({"approval_queue", "chief_engineer_decide"}, {"CHIEF_ENGINEER"})
  ++ Grant({"reviewer_signoff"}, {"REVIEWER"})
  ++ Grant({"submit"}, Authors)

UiDecisions ==
     Grant({"admin_signoff", "assign_reviewer"}, Administrator)
  ++ Grant({"add_comment"}, Reviewing)
  ++ Grant({"create_domain_signoff_request", "withdraw", "withdraw_many"}, Authors)
  ++ Grant({"create_domain_signoff"}, {"ENGINEER"})

UiChangeSets ==
     Grant({"list_notifications", "read_all_notifications", "help_page"}, Roles)
  ++ Grant({"list_change_sets", "get_change_set"}, Oversight)
  ++ Grant({"create_change_set"}, Authors \union {"CHIEF_ENGINEER"})
  ++ Grant({"add_cr_to_change_set", "remove_cr_from_change_set"}, Authors)

UiGovernance ==
     Grant({"close_change_set", "stalled_change_requests", "auto_assign_reviewer",
            "create_checklist_item", "update_checklist_item"}, Administrator)
  ++ Grant({"decide_change_set", "create_delegation", "revoke_delegation"}, Reviewing)

UiReviews ==
     Grant({"add_field_comment"}, Reviewing)
  ++ Grant({"resolve_field_comment", "download_attachment"}, Working)
  ++ Grant({"add_attachment", "delete_attachment"}, Authors)
  ++ Grant({"get_settings", "update_settings"}, Administrator)

UiBulk ==
     Grant({"change_set_readiness"}, Oversight)
  ++ Grant({"change_set_bulk_edit", "change_set_bulk_submit", "change_set_domain_signoffs"},
           Authors)
  ++ Grant({"draw_sample", "set_sample_verdict", "reject_sample_defects"}, Working)

UiCatalogue ==
     Grant({"list_status_codes", "create_saved_search", "delete_saved_search"}, Roles)
  ++ Grant({"withdraw_many", "create_status_code"}, Authors)
  ++ Grant({"create_sandbox"}, Administrator)

UiOneStatusCode ==
     Grant({"get_status_code"}, Roles)
  ++ Grant({"catalogue_connections"}, Oversight)
  ++ Grant({"update_revision", "create_revision", "create_platform_variant",
            "create_deprecation_request"}, Authors)
  ++ Grant({"set_planned_dates", "archive_status_code", "reinstate_status_code",
            "delete_sandbox_status_code"}, Administrator)

UiAdministration ==
     Grant({"list_users", "get_user", "update_user"}, UserList)
  ++ Grant({"delete_user", "withdrawn_codes", "withdrawn_codes_delete", "create_user",
            "force_reset_password"}, Administrator)

UiLookups ==
     Grant({"lookup_admin", "create_lookup_value", "create_functional_system_group",
            "create_functional_subgroup", "update_lookup_value"}, Administrator)
  ++ Grant({"search_audit_log"}, Reviewing)

\* A defect to test PagesAdmitNoMore with: the table of the mapping is reloaded by
\* whoever may read it.
UiMappingDefect ==
     Grant({"mapping_list", "mapping_export", "mapping_get"}, Oversight)
  ++ Grant({"mapping_change_create", "mapping_change_from_workbook"}, Oversight)
  ++ Grant({"mapping_seed"}, Oversight)

UiMapping ==
     Grant({"mapping_list", "mapping_export", "mapping_get"}, Oversight)
  ++ Grant({"mapping_change_create", "mapping_change_from_workbook"}, Oversight)
  ++ Grant({"mapping_seed"}, Administrator)

UiMappingChanges ==
     Grant({"mapping_change_list", "mapping_change_get", "mapping_change_withdraw"}, Oversight)
  ++ Grant({"mapping_change_decide"}, Approvers)

UiImports ==
  Grant({"create_import", "import_template", "get_import", "get_import_errors",
         "import_reconciliation", "preview_st_import", "create_st_import"}, Authors)

UiLegacyMapping == Grant({"legacy_mapping", "legacy_mapping_export"}, Working)

UiInsight ==
     Grant({"catalogue_health"}, Reviewing)
  ++ Grant({"success_metrics", "occurrence_report", "create_occurrence_import"}, Insight)
  ++ Grant({"hub_mapping_report"}, Oversight)
  ++ Grant({"create_mc_draft_from_hub"}, Authors)
  ++ Grant({"hub_bulk_deprecation"}, Administrator)

UiOperations ==
  Grant({"list_api_tokens", "create_api_token", "revoke_api_token", "create_webhook",
         "update_webhook", "backup_status", "audit_verify"}, Administrator)

UiPublication ==
     Grant({"export_profiles", "create_export_profile", "update_export_profile"},
           Administrator)
  ++ Grant({"verify_export", "release_shaped_export"}, Roles)

UiReleaseFiles ==
     Grant({"create_package", "package_download", "release_notes", "release_offline_bundle",
            "software_version_matrix"}, Roles)
  ++ Grant({"set_release_target_versions"}, Administrator)

\* One page for everybody; its service decides who translates and approves.
UiTranslations ==
  Grant({"save_translation", "carry_over_translations", "approve_translation"}, Roles)

UiReleases ==
     Grant({"list_releases", "get_release"}, Roles)
  ++ Grant({"create_release", "set_release_items", "delete_release", "publish_release"},
           Administrator)

UiExports ==
     Grant({"dashboard", "export_center"}, Roles)
  ++ Grant({"export_full_database"}, Administrator)

UiTerminology ==
  Grant({"terminology_index", "terminology_term_new", "terminology_term_update",
         "terminology_save", "terminology_approve", "terminology_reject",
         "terminology_approve_all", "terminology_check", "terminology_export"}, Roles)

UiTranslationReview ==
  Grant({"translations_overview", "translation_save", "translation_complete",
         "translation_upload", "translation_assign", "translation_unassign",
         "translation_decide", "translation_override_remove"}, Roles)

Ui ==
     UiChangeRequests ++ UiDecisions ++ UiChangeSets ++ UiGovernance ++ UiReviews ++ UiBulk
  ++ UiCatalogue ++ UiOneStatusCode ++ UiAdministration ++ UiLookups ++ UiMapping
  ++ UiMappingChanges ++ UiImports ++ UiLegacyMapping ++ UiInsight ++ UiOperations
  ++ UiPublication ++ UiReleaseFiles ++ UiTranslations ++ UiReleases ++ UiExports
  ++ UiTerminology ++ UiTranslationReview

-----------------------------------------------------------------------------
(* The checks                                                              *)

Gate(door) == IF door = "api" THEN Api ELSE Ui

Doors == {"api", "ui"}

\* A defect to test CoverDecidesOnly with: the pages of the users admit who covers.
OrDelegateDefect ==
  {"reviewer_signoff", "admin_signoff", "chief_engineer_decide", "decide_change_set",
   "add_field_comment", "review_queue", "approval_queue", "create_user"}

\* The routes under require_role_or_delegate.
OrDelegate ==
  {"reviewer_signoff", "admin_signoff", "chief_engineer_decide", "decide_change_set",
   "add_field_comment", "review_queue", "approval_queue"}

\* The decorator of the route.
Admitted(u, door, op) ==
  LET roles == Gate(door)[op]
  IN  /\ op \in DOMAIN Gate(door)
      /\ SignedIn(u)
      /\ \/ account[u].role \in roles
         \/ op \in OrDelegate /\ \E r \in roles : DelegatorsFor(u, r) # {}

ChecksOnRequests ==
     Grant({"submit", "withdraw", "withdraw_many"}, Authors)
  ++ Grant({"reviewer_signoff"}, {"REVIEWER"})
  ++ Grant({"admin_signoff", "assign_reviewer", "auto_assign_reviewer"}, Administrator)
  ++ Grant({"chief_engineer_decide"}, {"CHIEF_ENGINEER"})
  ++ Grant({"add_comment", "add_field_comment"}, Reviewing)
  ++ Grant({"create_change_set"}, Authors \union {"CHIEF_ENGINEER"})
  ++ Grant({"close_change_set", "create_checklist_item", "update_checklist_item"},
           Administrator)
  ++ Grant({"list_attachments", "download_attachment"}, Working)

ChecksOnCodes ==
     Grant({"create_status_code", "create_revision", "create_deprecation_request",
            "update_revision", "create_platform_variant", "create_mc_draft_from_hub",
            "create_import", "preview_st_import", "create_st_import"}, Authors)
  ++ Grant({"archive_status_code", "reinstate_status_code", "set_planned_dates",
            "delete_sandbox_status_code", "withdrawn_codes", "withdrawn_codes_delete",
            "create_sandbox", "hub_bulk_deprecation"}, Administrator)

ChecksOnPublication ==
     Grant({"create_release", "set_release_target_versions", "set_release_items",
            "delete_release", "publish_release", "create_export_profile",
            "update_export_profile", "export_full_database"}, Administrator)
  ++ Grant({"export_working_set"}, UserList)
  ++ Grant({"save_translation", "carry_over_translations"}, Authors)
  ++ Grant({"approve_translation"}, {"ADMINISTRATOR", "REVIEWER"})

\* A defect to test AdmittedAreServed with: the StCd Owner is forgotten in the service.
ChecksOnPeopleDefect ==
     Grant({"update_user", "delete_user", "force_reset_password"}, Administrator)
  ++ Grant({"mapping_change_create", "mapping_change_from_workbook"}, Oversight)
  ++ Grant({"mapping_change_decide"}, Approvers)

ChecksOnPeople ==
     Grant({"update_user"}, UserList)
  ++ Grant({"delete_user", "force_reset_password"}, Administrator)
  ++ Grant({"mapping_change_create", "mapping_change_from_workbook"}, Oversight)
  ++ Grant({"mapping_change_decide"}, Approvers)

ChecksOnIntegrations ==
     Grant({"list_api_tokens", "create_api_token", "revoke_api_token", "list_webhooks",
            "create_webhook", "update_webhook", "webhook_deliveries", "update_settings",
            "create_lookup_value", "update_lookup_value", "create_functional_system_group",
            "create_functional_subgroup"}, Administrator)
  ++ Grant({"create_occurrence_import"}, Insight)

ChecksOnTerms ==
     Grant({"terminology_term_new", "terminology_term_update"}, Approvers)
  ++ Grant({"terminology_save"}, Oversight)
  ++ Grant({"terminology_approve", "terminology_reject", "terminology_approve_all"},
           Approvers \union {"REVIEWER"})
  ++ Grant({"translation_assign", "translation_unassign", "translation_decide",
            "translation_override_remove"}, UserList)

Checks ==
     ChecksOnRequests ++ ChecksOnCodes ++ ChecksOnPublication ++ ChecksOnPeople
  ++ ChecksOnIntegrations ++ ChecksOnTerms

\* The check the service makes on the role of its caller, when it makes one; the
\* four decisions accept who covers.
Served(u, op) ==
  op \in DOMAIN Checks =>
    \/ account[u].role \in Checks[op]
    \/ op \in OrDelegate /\ \E r \in Checks[op] : DelegatorsFor(u, r) # {}

May(u, door, op) == Admitted(u, door, op) /\ Served(u, op)

\* The links of the menu and the roles that see them.
Menu ==
     Grant({"dashboard", "list_status_codes", "list_releases", "export_center"}, Roles)
  ++ Grant({"catalogue_connections", "my_change_requests", "list_change_sets",
            "legacy_mapping", "mapping_list", "mapping_change_list", "hub_mapping_report"},
           Oversight)
  ++ Grant({"create_sandbox", "withdrawn_codes"}, Administrator)
  ++ Grant({"review_queue"}, {"REVIEWER", "ADMINISTRATOR"})
  ++ Grant({"approval_queue"}, {"CHIEF_ENGINEER"})
  ++ Grant({"create_delegation"}, Reviewing)
  ++ Grant({"create_import", "preview_st_import"}, Authors)

MenuBelow ==
     Grant({"catalogue_health", "search_audit_log"}, Reviewing)
  ++ Grant({"success_metrics", "occurrence_report"}, Insight)
  ++ Grant({"terminology_index", "translations_overview", "help_page"}, Roles)
  ++ Grant({"list_users"}, UserList)
  ++ Grant({"stalled_change_requests", "lookup_admin", "export_profiles",
            "create_checklist_item", "get_settings", "list_api_tokens", "backup_status"},
           Administrator)

Links(u) ==
  {op \in DOMAIN (Menu ++ MenuBelow) :
     \/ account[u].role \in (Menu ++ MenuBelow)[op]
     \/ /\ op \in {"review_queue", "approval_queue"}
        /\ \E r \in Menu[op] : DelegatorsFor(u, r) # {}}

-----------------------------------------------------------------------------
(* Tokens                                                                  *)

create_api_token(u, scopes) ==
  /\ May(u, "api", "create_api_token")
  /\ token' = [owner |-> u, scopes |-> scopes, left |-> MaxTokenAge, revoked |-> FALSE]
  /\ UNCHANGED accountVars

revoke_api_token(u) ==
  /\ May(u, "api", "revoke_api_token")
  /\ token # NoToken
  /\ token' = [token EXCEPT !.revoked = TRUE]
  /\ UNCHANGED accountVars

\* A defect to test AccessTypeOK with: an expired token goes on ageing.
DayPassesDefect ==
  /\ token # NoToken
  /\ token' = [token EXCEPT !.left = @ - 1]
  /\ UNCHANGED accountVars

DayPasses ==
  /\ token # NoToken
  /\ token.left > 0
  /\ token' = [token EXCEPT !.left = @ - 1]
  /\ UNCHANGED accountVars

\* The routes under allow_token, and the scope each asks for.
TokenScope ==
     Grant({"list_status_codes", "get_status_code", "list_releases", "get_release",
            "export_release", "export_released"}, "catalogue:read")
  ++ Grant({"change_feed"}, "changes:read")

\* The routes under writes_on_get: they record what was handed out.
WritesOnGet ==
  {"export_release", "export_released", "export_working_set", "release_notes",
   "release_offline_bundle", "release_shaped_export"}

\* The token stands for a Viewer, whoever owns it.
TokenAdmits(op) ==
  /\ token # NoToken
  /\ op \in DOMAIN TokenScope
  /\ ~token.revoked
  /\ token.left > 0
  /\ TokenScope[op] \in token.scopes
  /\ SignedIn(token.owner)
  /\ "VIEWER" \in Api[op]

-----------------------------------------------------------------------------
Init == AccountsInit /\ token = NoToken

People ==
  /\ \/ \E actor, u \in Users, role \in Roles :
          \/ CreateUser(actor, u, role, FALSE)
          \/ \E state \in {"ACTIVE", "INACTIVE"} : UpdateUser(actor, u, role, FALSE, state)
     \/ \E actor, u \in Users : DeleteUser(actor, u)
     \/ \E actor, from, to \in Users : CreateDelegation(actor, from, to, TRUE)
     \/ \E actor \in Users : \E d \in delegations : RevokeDelegation(actor, d)
     \/ \E d \in delegations : DelegationEnds(d)
  /\ UNCHANGED token

Next ==
  \/ People
  \/ \E u \in Users : \E scopes \in SUBSET Scopes \ {{}} : create_api_token(u, scopes)
  \/ \E u \in Users : revoke_api_token(u)
  \/ DayPasses

Spec == Init /\ [][Next]_vars

-----------------------------------------------------------------------------
(* What must hold                                                          *)

Writes ==
  {"submit", "withdraw", "withdraw_many", "reviewer_signoff", "admin_signoff",
   "assign_reviewer", "auto_assign_reviewer", "chief_engineer_decide", "add_comment",
   "create_sandbox", "create_status_code", "create_revision", "update_revision",
   "archive_status_code", "reinstate_status_code", "set_planned_dates", "create_user",
   "update_user", "delete_user", "force_reset_password", "publish_release",
   "set_release_items", "mapping_change_decide", "mapping_seed"}

\* A page is no way around the API: whoever may do something by a page may do
\* the same by the API, whatever roles and covers he has at the moment.
PagesAdmitNoMore ==
  \A u \in Users : \A op \in DOMAIN Api \intersect DOMAIN Ui :
    May(u, "ui", op) => May(u, "api", op)

\* Whoever a route picks by role is not turned away by the service behind it for
\* the role: the two lists were written apart and must not drift.  (Codes and
\* sandbox codes are made by one route of the API, which picks for both.)
AdmittedAreServed ==
  \A u \in Users, door \in Doors : \A op \in DOMAIN Gate(door) \ {"create_sandbox"} :
    /\ Gate(door)[op] # Roles
    /\ Admitted(u, door, op)
    => Served(u, op)

\* FR-125, D-08: covering for somebody opens the decisions, their queues and the
\* comments on a field, and nothing else his own role would not open.
CoverDecidesOnly ==
  \A u \in Users, door \in Doors : \A op \in DOMAIN Gate(door) :
    /\ May(u, door, op)
    /\ account[u].role \notin Gate(door)[op]
    => op \in {"reviewer_signoff", "admin_signoff", "chief_engineer_decide",
               "decide_change_set", "add_field_comment", "review_queue", "approval_queue"}

\* "each link shown only to the roles that may use it" (docs/03-srs.md, FR-169).
LinksOpen == \A u \in Users : SignedIn(u) => \A op \in Links(u) : Admitted(u, "ui", op)

\* "takes no part in any decision" (docs/03-srs.md, FR-156, of the StCd Owner).
OwnerHasNoSay ==
  \A u \in Users : account[u].role = "STCD_OWNER" =>
    \A op \in {"reviewer_signoff", "admin_signoff", "chief_engineer_decide"} :
      ~May(u, "api", op)

\* "enforced identically at UI and API" (docs/11-security-architecture.md), of
\* what is only read.
DoorsAgree ==
  \A u \in Users : \A op \in (DOMAIN Api \intersect DOMAIN Ui) \ Writes :
    May(u, "ui", op) <=> May(u, "api", op)

\* "every role-restricted service entry point repeats the check" (authz.py): who
\* the gate would refuse is refused by the service too.
RepeatedInTheService ==
  \A u \in Users : \A op \in Writes :
    SignedIn(u) /\ Served(u, op) => Admitted(u, "api", op)

\* "so tokens can never reach a write" (decorators.py).
TokensNeverWrite == \A op \in WritesOnGet : ~TokenAdmits(op)
=============================================================================
