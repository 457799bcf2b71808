------------------------------ MODULE Answers -------------------------------
(***************************************************************************)
(* What a caller is told: the errors the services raise, the except        *)
(* clauses of the API handlers and of the pages, the translation they      *)
(* share, and the handlers of last resort.                                 *)
(*                                                                         *)
(* An operation has the name it has in Access.  A call runs through its    *)
(* service; the service may raise an error before it commits anything,     *)
(* and the creation of a release after it committed the release, before    *)
(* its target versions.  Errors about the role of the caller are the       *)
(* matter of Access and are left out.                                      *)
(***************************************************************************)
EXTENDS Naturals

CONSTANTS NoCall, NoError

VARIABLES call,   \* the call under way: door, operation, stage, error, answer
          label   \* the version label the caller wants: free, used by a release, or
                  \* left behind by a creation that was refused

vars == <<call, label>>

Each(ops, value) == [o \in ops |-> value]

\* Two tables as one; where both have a row, that of the first.
Joined(f, g) == [o \in DOMAIN f \union DOMAIN g |-> IF o \in DOMAIN f THEN f[o] ELSE g[o]]

f ++ g == Joined(f, g)

-----------------------------------------------------------------------------
(* The errors                                                              *)

\* The class each error is derived from.
Parent ==
  [ForbiddenError |-> "DomainError", SegregationOfDutiesViolation |-> "DomainError",
   StepUpRequiredError |-> "DomainError", AccountLockedError |-> "DomainError",
   NotFoundError |-> "DomainError", InvalidTransitionError |-> "DomainError",
   ConcurrentModificationError |-> "DomainError", RateLimitedError |-> "DomainError",
   InvalidCredentialsError |-> "DomainError", PasswordPolicyError |-> "DomainError",
   LastAdministratorError |-> "DomainError", ValidationFailed |-> "DomainError",
   CapacityExhaustedError |-> "DomainError", MappingError |-> "DomainError",
   StagingError |-> "NotFoundError", DomainError |-> "Exception",
   ValueError |-> "Exception", KeyError |-> "Exception", NotFound |-> "Exception",
   IntegrityError |-> "Exception"]

Errors == DOMAIN Parent

\* What stands for no error is none of them; assumed by the module that gives it a value.
NoErrorAssumption == NoError \notin Errors

Ancestors(e) ==
  LET p == Parent[e]
  IN  {e, p} \union (IF p \in Errors THEN {Parent[p], "Exception"} ELSE {})

IsA(e, classes) == Ancestors(e) \intersect classes # {}

Service == {"DomainError", "ValueError"}

-----------------------------------------------------------------------------
(* What the services raise                                                 *)

Conflict == {"InvalidTransitionError", "SegregationOfDutiesViolation"}

RaisedOnRequests ==
     Each({"submit"}, Conflict \union {"NotFound", "CapacityExhaustedError", "DomainError",
                                       "ValueError"})
  ++ Each({"reviewer_signoff", "admin_signoff", "chief_engineer_decide"},
          Conflict \union {"NotFound", "ValueError", "StepUpRequiredError",
                           "AccountLockedError"})
  ++ Each({"add_comment"}, {"NotFound", "ValueError"})
  ++ Each({"assign_reviewer", "auto_assign_reviewer"},
          Conflict \union {"NotFound", "ValueError"})
  ++ Each({"withdraw"}, Conflict \union {"NotFound"})
  ++ Each({"create_domain_signoff", "create_domain_signoff_request"}, Service)

RaisedInReview ==
     Each({"add_field_comment"}, {"ForbiddenError", "InvalidTransitionError",
                                  "NotFoundError", "ValueError"})
  ++ Each({"resolve_field_comment", "download_attachment", "read_notification",
           "revoke_delegation"}, {"ForbiddenError", "NotFoundError"})
  ++ Each({"create_checklist_item"}, {"ValueError"})
  ++ Each({"update_checklist_item"}, {"NotFoundError", "ValueError"})
  ++ Each({"add_attachment"}, {"ForbiddenError", "InvalidTransitionError",
                               "NotFoundError", "ValueError"})
  ++ Each({"delete_attachment"}, {"ForbiddenError", "InvalidTransitionError",
                                  "NotFoundError"})
  ++ Each({"create_delegation"}, {"ForbiddenError", "NotFoundError", "ValueError"})
  ++ Each({"update_settings"}, {"DomainError"})

RaisedOnSets ==
     Each({"create_change_set"}, Service)
  ++ Each({"add_cr_to_change_set"}, {"DomainError", "NotFoundError"})
  ++ Each({"remove_cr_from_change_set", "close_change_set"}, {"NotFoundError"})
  ++ Each({"decide_change_set"}, Service \union {"AccountLockedError", "NotFoundError",
                                                 "StepUpRequiredError"})
  ++ Each({"change_set_bulk_edit"}, {"NotFoundError", "ValueError"})
  ++ Each({"change_set_bulk_submit"}, {"NotFoundError"})
  ++ Each({"change_set_domain_signoffs", "draw_sample", "set_sample_verdict"},
          Service \union {"ForbiddenError", "NotFoundError"})
  ++ Each({"reject_sample_defects"}, {"AccountLockedError", "DomainError", "ForbiddenError",
                                      "NotFoundError", "StepUpRequiredError"})

RaisedOnCodes ==
     Each({"create_status_code"}, {"ValidationFailed", "KeyError", "ValueError"})
  ++ Each({"create_sandbox"}, {"ValidationFailed", "KeyError", "ValueError",
                               "CapacityExhaustedError"})
  ++ Each({"create_revision"}, Conflict \union {"NotFound", "ValidationFailed", "KeyError",
                                                "ValueError"})
  ++ Each({"update_revision"}, Conflict \union {"NotFoundError", "ValidationFailed",
                                                "KeyError", "ValueError",
                                                "ConcurrentModificationError"})
  ++ Each({"create_deprecation_request"}, {"NotFound", "InvalidTransitionError",
                                           "ValidationFailed"})
  ++ Each({"archive_status_code"}, {"InvalidTransitionError", "DomainError"})
  ++ Each({"reinstate_status_code"}, {"InvalidTransitionError", "ValidationFailed"})
  ++ Each({"delete_sandbox_status_code"}, {"NotFound", "DomainError"})
  ++ Each({"set_planned_dates"}, {"NotFoundError", "InvalidTransitionError",
                                  "ValidationFailed"})
  ++ Each({"create_platform_variant"}, Service \union {"NotFound", "InvalidTransitionError",
                                                       "ValidationFailed"})

RaisedOnPeople ==
     Each({"create_user"}, {"PasswordPolicyError", "ValueError"})
  ++ Each({"update_user"}, {"NotFound", "LastAdministratorError", "ForbiddenError",
                            "ValueError"})
  ++ Each({"delete_user"}, {"NotFound", "LastAdministratorError", "ForbiddenError",
                            "StepUpRequiredError", "AccountLockedError"})
  ++ Each({"force_reset_password"}, {"NotFound", "PasswordPolicyError"})
  ++ Each({"change_own_password"}, {"PasswordPolicyError", "ValueError"})
  ++ Each({"login"}, {"RateLimitedError", "AccountLockedError", "InvalidCredentialsError"})
  ++ Each({"windows_login"}, {"RateLimitedError", "ForbiddenError",
                              "InvalidCredentialsError"})
  ++ Each({"create_lookup_value", "create_functional_system_group",
           "create_functional_subgroup"}, Service)
  ++ Each({"update_lookup_value"}, {"NotFoundError", "ValueError"})

RaisedOnImports ==
     Each({"mapping_change_create", "mapping_change_from_workbook"},
          {"ForbiddenError", "MappingError", "NotFoundError"})
  ++ Each({"mapping_change_decide"}, Conflict \union {"AccountLockedError", "MappingError",
                                                      "NotFoundError",
                                                      "StepUpRequiredError"})
  ++ Each({"mapping_change_withdraw"}, {"ForbiddenError", "InvalidTransitionError",
                                        "NotFoundError"})
  ++ Each({"mapping_seed"}, {"MappingError"})
  ++ Each({"create_import"}, {"NotFoundError", "ValueError"})
  ++ Each({"preview_st_import"}, {"StagingError", "ValueError"})
  ++ Each({"create_st_import"}, Service \union {"NotFoundError", "StagingError"})

RaisedInOperations ==
     Each({"create_saved_search", "create_occurrence_import", "create_api_token",
           "create_webhook"}, {"ValueError"})
  ++ Each({"delete_saved_search"}, {"ForbiddenError", "NotFoundError"})
  ++ Each({"revoke_api_token", "update_webhook"}, {"NotFoundError"})
  ++ Each({"create_mc_draft_from_hub"}, Service \union Conflict \union
          {"NotFoundError", "ValidationFailed"})
  ++ Each({"hub_bulk_deprecation"}, {"DomainError", "NotFoundError"})

RaisedInPublication ==
     Each({"set_release_items"}, Service \union {"NotFound", "InvalidTransitionError"})
  ++ Each({"delete_release"}, {"NotFound", "InvalidTransitionError"})
  ++ Each({"publish_release"}, {"NotFound", "InvalidTransitionError", "DomainError",
                                "StepUpRequiredError", "AccountLockedError"})
  ++ Each({"set_release_target_versions"}, {"NotFound", "InvalidTransitionError",
                                            "ValueError"})
  ++ Each({"create_package", "export_release", "export_released", "release_offline_bundle"},
          Service \union {"NotFoundError"})
  ++ Each({"package_download"}, {"DomainError", "NotFoundError"})
  ++ Each({"release_notes"}, {"NotFoundError", "ValueError"})
  ++ Each({"export_full_database"}, {"StepUpRequiredError", "AccountLockedError"})
  ++ Each({"create_export_profile"}, Service)
  ++ Each({"update_export_profile"}, {"NotFoundError", "ValueError"})
  ++ Each({"save_translation", "approve_translation"},
          {"ForbiddenError", "InvalidTransitionError", "NotFoundError", "ValueError"})
  ++ Each({"carry_over_translations"}, {"ForbiddenError", "NotFoundError"})

\* The label of a release is unique: one that was left behind is in the way.
Raised(op) ==
  IF op = "create_release" THEN IF label = "free" THEN {} ELSE {"IntegrityError"}
  ELSE (RaisedOnRequests ++ RaisedInReview ++ RaisedOnSets ++ RaisedOnCodes
        ++ RaisedOnPeople ++ RaisedOnImports ++ RaisedInOperations
        ++ RaisedInPublication)[op]

\* After the first of two commits: a target version was switched off meanwhile.
RaisedLate(op) == IF op = "create_release" THEN {"ValueError"} ELSE {}

\* What the page looked at before it called the service cannot be why it fails.
Forestalled(door, op) ==
  IF door # "ui" THEN {}
  ELSE CASE op = "update_revision" -> {"InvalidTransitionError", "NotFoundError"}
         [] op = "create_revision" -> {"KeyError", "NotFound"}
         [] OTHER -> {}

-----------------------------------------------------------------------------
(* The except clauses of the API: the classes a clause names and how it    *)
(* answers, in the order of the handler                                    *)

On(classes, answer) == [classes |-> classes, answer |-> answer]

Plain(ops) == Each(ops, <<On(Service, "translated")>>)

Deciding == On(Conflict \union {"ValueError", "StepUpRequiredError", "AccountLockedError",
                                "ForbiddenError"}, "decided")

ApiOnRequests ==
     Each({"submit"}, <<On({"NotFoundError"}, "404"), On({"SegregationOfDutiesViolation"}, "403"),
                        On({"InvalidTransitionError"}, "409"), On(Service, "422")>>)
  ++ Each({"reviewer_signoff", "admin_signoff", "chief_engineer_decide"},
          <<On({"NotFoundError"}, "404"), Deciding>>)
  ++ Each({"add_comment"}, <<On({"NotFoundError"}, "404"), On({"ValueError"}, "422")>>)
  ++ Each({"assign_reviewer"}, <<On({"NotFoundError"}, "404"),
                                 On(Conflict \union {"ValueError"}, "decided")>>)
  ++ Each({"withdraw"}, <<On({"NotFoundError"}, "404"), On({"SegregationOfDutiesViolation"}, "403"),
                          On({"InvalidTransitionError"}, "409")>>)

ApiOnSignoffs ==
  Each({"create_domain_signoff", "create_domain_signoff_request"},
       <<On({"DomainError"}, "403"), On({"ValueError"}, "422")>>)

ApiInReview ==
  Plain({"add_field_comment", "resolve_field_comment", "create_checklist_item",
         "update_checklist_item", "add_attachment", "download_attachment",
         "delete_attachment"})

ApiOnSets ==
     Each({"auto_assign_reviewer"}, <<On({"NotFoundError"}, "404"), On(Service, "translated")>>)
  ++ Plain({"create_change_set", "add_cr_to_change_set", "remove_cr_from_change_set",
            "close_change_set", "decide_change_set"})

ApiOnDelegations ==
  Plain({"create_delegation", "revoke_delegation", "read_notification", "update_settings"})

ApiInBulk ==
  Plain({"change_set_bulk_edit", "change_set_bulk_submit", "change_set_domain_signoffs",
         "draw_sample", "set_sample_verdict", "reject_sample_defects"})

ApiOnCodes ==
     Each({"create_status_code", "create_sandbox"},
          <<On({"ValidationFailed"}, "422"), On({"KeyError", "ValueError"}, "422"),
            On({"DomainError"}, "403")>>)
  ++ Each({"create_deprecation_request", "reinstate_status_code"},
          <<On({"NotFoundError"}, "404"), On({"InvalidTransitionError"}, "409"),
            On({"ValidationFailed"}, "422")>>)
  ++ Each({"archive_status_code"}, <<On({"NotFoundError"}, "404"),
                                     On({"InvalidTransitionError"}, "409"),
                                     On({"DomainError"}, "422")>>)

ApiOnOneCode ==
     Each({"delete_sandbox_status_code"}, <<On({"NotFoundError"}, "404"),
                                            On({"DomainError"}, "403")>>)
  ++ Each({"create_platform_variant"}, <<On({"NotFoundError"}, "404"),
                                         On({"InvalidTransitionError"}, "409"),
                                         On({"ValidationFailed"}, "422"), On(Service, "422")>>)
  ++ Each({"set_planned_dates"}, <<On({"NotFoundError"}, "404"),
                                   On({"InvalidTransitionError"}, "409"),
                                   On({"ValidationFailed"}, "422")>>)
  ++ Each({"create_revision"}, <<On({"ValidationFailed"}, "422"),
                                 On({"KeyError", "ValueError"}, "422"),
                                 On({"DomainError"}, "409")>>)

ApiOnDrafts ==
  Each({"update_revision"},
       <<On({"NotFoundError"}, "404"), On({"SegregationOfDutiesViolation"}, "403"),
         On({"ConcurrentModificationError"}, "409"), On({"InvalidTransitionError"}, "409"),
         On({"ValidationFailed"}, "422"), On({"KeyError", "ValueError"}, "422")>>)

ApiOnPeople ==
     Each({"create_user"}, <<On({"PasswordPolicyError"}, "422"), On({"ValueError"}, "422")>>)
  ++ Each({"update_user"}, <<On({"LastAdministratorError"}, "422"),
                             On({"DomainError"}, "translated"), On({"ValueError"}, "422")>>)
  ++ Each({"delete_user"}, <<On({"LastAdministratorError"}, "422"),
                             On({"DomainError"}, "translated")>>)
  ++ Each({"force_reset_password"}, <<On({"PasswordPolicyError"}, "422")>>)
  ++ Each({"change_own_password"}, <<On({"PasswordPolicyError"}, "422"),
                                     On({"ValueError"}, "401")>>)

ApiOnSignIn ==
     Each({"login"}, <<On({"RateLimitedError"}, "429"), On({"AccountLockedError"}, "423"),
                       On({"InvalidCredentialsError"}, "401")>>)
  ++ Each({"windows_login"}, <<On({"ForbiddenError"}, "403"), On({"RateLimitedError"}, "429"),
                               On({"InvalidCredentialsError"}, "401")>>)

ApiOnLookups ==
     Each({"create_lookup_value"}, <<On({"DomainError"}, "422"), On({"ValueError"}, "422")>>)
  ++ Each({"update_lookup_value"}, <<On({"NotFoundError"}, "404"), On({"ValueError"}, "422")>>)
  ++ Each({"create_functional_system_group", "create_functional_subgroup"},
          <<On({"DomainError"}, "409"), On({"ValueError"}, "422")>>)

ApiOnMapping ==
  Plain({"mapping_change_create", "mapping_change_from_workbook", "mapping_change_decide",
         "mapping_change_withdraw", "mapping_seed"})

ApiOnImports == Plain({"create_import"})

ApiOnProgramImports == Plain({"preview_st_import", "create_st_import"})

ApiInOperations ==
     Plain({"create_saved_search", "delete_saved_search", "create_occurrence_import",
            "create_api_token", "revoke_api_token", "create_webhook", "update_webhook",
            "hub_bulk_deprecation"})
  ++ Each({"create_mc_draft_from_hub"}, <<On({"ValidationFailed"}, "translated"),
                                          On(Service, "translated")>>)

\* A defect to test OrderlyRefusalsKeepNothing with: the error of the target
\* versions is caught where the release is created.
ApiOnReleasesDefect ==
     Each({"create_release"}, <<On(Service, "422")>>)
  ++ Each({"set_release_items"}, <<On({"NotFoundError"}, "404"),
                                   On({"InvalidTransitionError"}, "409"), On(Service, "422")>>)
  ++ Each({"delete_release"}, <<On({"NotFoundError"}, "404"),
                                On({"InvalidTransitionError"}, "409")>>)
  ++ Each({"publish_release"},
          <<On({"NotFoundError"}, "404"),
            On({"StepUpRequiredError", "AccountLockedError"}, "translated"),
            On({"InvalidTransitionError"}, "409"), On({"DomainError"}, "422")>>)

ApiOnReleases ==
     Each({"create_release"}, << >>)
  ++ Each({"set_release_items"}, <<On({"NotFoundError"}, "404"),
                                   On({"InvalidTransitionError"}, "409"), On(Service, "422")>>)
  ++ Each({"delete_release"}, <<On({"NotFoundError"}, "404"),
                                On({"InvalidTransitionError"}, "409")>>)
  ++ Each({"publish_release"},
          <<On({"NotFoundError"}, "404"),
            On({"StepUpRequiredError", "AccountLockedError"}, "translated"),
            On({"InvalidTransitionError"}, "409"), On({"DomainError"}, "422")>>)

ApiOnPackages == Plain({"create_package", "package_download"})

ApiOnExports ==
     Plain({"export_release", "export_released"})
  ++ Each({"export_full_database"},
          <<On({"StepUpRequiredError", "AccountLockedError"}, "translated")>>)

ApiOnPublication ==
  Plain({"create_export_profile", "update_export_profile", "release_notes",
         "release_offline_bundle"})

ApiOnTranslations ==
  Plain({"set_release_target_versions", "save_translation", "approve_translation",
         "carry_over_translations"})

Api ==
     ApiOnRequests ++ ApiOnSignoffs ++ ApiInReview ++ ApiOnSets ++ ApiOnDelegations
  ++ ApiInBulk ++ ApiOnCodes ++ ApiOnOneCode ++ ApiOnDrafts ++ ApiOnPeople ++ ApiOnSignIn
  ++ ApiOnLookups ++ ApiOnMapping ++ ApiOnImports ++ ApiOnProgramImports
  ++ ApiInOperations ++ ApiOnReleases ++ ApiOnPackages ++ ApiOnExports
  ++ ApiOnPublication ++ ApiOnTranslations

-----------------------------------------------------------------------------
(* The except clauses of the pages: what they turn into a message          *)

UiOnRequests ==
     Each({"submit", "create_domain_signoff", "create_domain_signoff_request"}, Service)
  ++ Each({"reviewer_signoff", "admin_signoff", "chief_engineer_decide"}, Deciding.classes)
  ++ Each({"add_comment"}, {"ValueError"})
  ++ Each({"assign_reviewer"}, Conflict \union {"ValueError"})
  ++ Each({"withdraw"}, Conflict)

UiOnSets ==
  Each({"read_notification", "create_change_set", "add_cr_to_change_set",
        "remove_cr_from_change_set"}, Service)

UiInGovernance ==
  Each({"close_change_set", "decide_change_set", "auto_assign_reviewer", "create_delegation",
        "revoke_delegation", "create_checklist_item", "update_checklist_item"}, Service)

UiInReview ==
  Each({"add_field_comment", "resolve_field_comment", "add_attachment",
        "download_attachment", "delete_attachment", "update_settings"}, Service)

UiInBulk ==
  Each({"change_set_bulk_edit", "change_set_bulk_submit", "change_set_domain_signoffs",
        "draw_sample", "set_sample_verdict", "reject_sample_defects"}, Service)

UiOnNewCodes ==
     Each({"create_saved_search", "delete_saved_search"}, Service)
  ++ Each({"create_status_code", "create_sandbox"},
          {"ValidationFailed", "KeyError", "ValueError"})

\* A defect to test PagesComeBack with: the form of a draft forgets that somebody
\* else may have saved it.
UiOnCodesDefect ==
     Each({"update_revision"}, {"ValidationFailed", "SegregationOfDutiesViolation",
                                "KeyError", "ValueError"})
  ++ Each({"create_revision"}, {"InvalidTransitionError"})
  ++ Each({"create_platform_variant", "set_planned_dates"},
          Service \union {"ValidationFailed"})
  ++ Each({"create_deprecation_request", "reinstate_status_code"},
          {"InvalidTransitionError", "ValidationFailed"})
  ++ Each({"archive_status_code", "delete_sandbox_status_code"}, {"DomainError"})

UiOnCodes ==
     Each({"update_revision"}, {"ConcurrentModificationError", "ValidationFailed",
                                "SegregationOfDutiesViolation", "KeyError", "ValueError"})
  ++ Each({"create_revision"}, {"InvalidTransitionError"})
  ++ Each({"create_platform_variant", "set_planned_dates"},
          Service \union {"ValidationFailed"})
  ++ Each({"create_deprecation_request", "reinstate_status_code"},
          {"InvalidTransitionError", "ValidationFailed"})
  ++ Each({"archive_status_code", "delete_sandbox_status_code"}, {"DomainError"})

UiOnPeople ==
     Each({"update_user", "delete_user"}, Service)
  ++ Each({"create_user"}, {"PasswordPolicyError", "ValueError"})
  ++ Each({"force_reset_password"}, {"PasswordPolicyError"})

UiOnLookups ==
     Each({"create_lookup_value", "create_functional_system_group",
           "create_functional_subgroup"}, Service)
  ++ Each({"update_lookup_value"}, {"NotFoundError", "ValueError"})

UiOnSignIn ==
     Each({"login"}, {"RateLimitedError", "AccountLockedError", "InvalidCredentialsError"})
  ++ Each({"windows_login"}, {"RateLimitedError", "ForbiddenError",
                              "InvalidCredentialsError"})
  ++ Each({"change_own_password"}, {"PasswordPolicyError", "ValueError"})

UiOnMapping ==
  Each({"mapping_seed", "mapping_change_create", "mapping_change_from_workbook"}, Service)

UiOnMappingChanges == Each({"mapping_change_decide", "mapping_change_withdraw"}, Service)

UiOnImports == Each({"create_import", "preview_st_import", "create_st_import"}, Service)

UiInInsight ==
  Each({"create_occurrence_import", "create_mc_draft_from_hub", "hub_bulk_deprecation"},
       Service)

UiInOperations ==
  Each({"create_api_token", "revoke_api_token", "create_webhook", "update_webhook"}, Service)

UiOnPublication == Each({"create_export_profile", "update_export_profile"}, Service)

UiOnReleaseFiles ==
  Each({"create_package", "package_download", "release_notes", "release_offline_bundle",
        "set_release_target_versions"}, Service)

UiOnTranslations ==
  Each({"save_translation", "carry_over_translations", "approve_translation"}, Service)

UiOnReleases ==
     Each({"create_release"}, {})
  ++ Each({"set_release_items"}, Service)
  ++ Each({"delete_release"}, {"NotFoundError", "InvalidTransitionError"})
  ++ Each({"publish_release"}, {"DomainError"})

UiOnExports == Each({"export_full_database"}, {"StepUpRequiredError", "AccountLockedError"})

Ui ==
     UiOnRequests ++ UiOnSets ++ UiInGovernance ++ UiInReview ++ UiInBulk ++ UiOnNewCodes
  ++ UiOnCodes ++ UiOnPeople ++ UiOnLookups ++ UiOnSignIn ++ UiOnMapping
  ++ UiOnMappingChanges ++ UiOnImports ++ UiInInsight ++ UiInOperations
  ++ UiOnPublication ++ UiOnReleaseFiles ++ UiOnTranslations ++ UiOnReleases ++ UiOnExports

Operations(door) == IF door = "api" THEN DOMAIN Api ELSE DOMAIN Ui

-----------------------------------------------------------------------------
(* From the error to the answer                                            *)

\* A defect to test StatusSaysWhy with: a state that does not allow the step is taken
\* for bad input.
TranslatedDefect(e) ==
  CASE IsA(e, {"StepUpRequiredError", "AccountLockedError", "ForbiddenError",
               "SegregationOfDutiesViolation"}) -> "403"
    [] IsA(e, {"NotFoundError"}) -> "404"
    [] IsA(e, {"InvalidTransitionError"}) -> "422"
    [] OTHER -> "422"

\* The translation the route modules share; what it does not know it raises again.
Translated(e) ==
  CASE IsA(e, {"StepUpRequiredError", "AccountLockedError", "ForbiddenError",
               "SegregationOfDutiesViolation"}) -> "403"
    [] IsA(e, {"NotFoundError"}) -> "404"
    [] IsA(e, {"InvalidTransitionError", "ConcurrentModificationError"}) -> "409"
    [] OTHER -> "422"

\* The decisions have a translation of their own.
Decided(e) ==
  CASE IsA(e, {"StepUpRequiredError", "AccountLockedError", "ForbiddenError",
               "SegregationOfDutiesViolation"}) -> "403"
    [] IsA(e, {"InvalidTransitionError"}) -> "409"
    [] OTHER -> "422"

\* What no clause caught.
LastResort(e) ==
  CASE IsA(e, {"ForbiddenError"}) -> "403"
    [] IsA(e, {"NotFound"}) -> "404"
    [] OTHER -> "500"

Catching(op, e) == {i \in DOMAIN Api[op] : IsA(e, Api[op][i].classes)}

\* The first clause that catches it answers.
ApiAnswer(op, e) ==
  IF Catching(op, e) = {} THEN LastResort(e)
  ELSE LET first == CHOOSE i \in Catching(op, e) : \A j \in Catching(op, e) : i <= j
           answer == Api[op][first].answer
       IN  CASE answer = "translated" -> Translated(e)
             [] answer = "decided" -> Decided(e)
             [] OTHER -> answer

\* A page comes back with a message; the attachment that is not there is a missing page.
PageAnswer(op, e) ==
  IF ~IsA(e, Ui[op]) THEN LastResort(e)
  ELSE IF op = "download_attachment" THEN "404" ELSE "message"

-----------------------------------------------------------------------------
(* A call                                                                  *)

\* The service may fail before it commits, or a second time after it.
Begin(door, op) ==
  /\ call = NoCall
  /\ call' = [door |-> door, op |-> op, stage |-> "serving", error |-> NoError,
              answer |-> "none"]
  /\ UNCHANGED label

Fail(e) ==
  /\ call # NoCall
  /\ call.stage = "serving"
  /\ e \in Raised(call.op) \ Forestalled(call.door, call.op)
  /\ call' = [call EXCEPT !.stage = "failed", !.error = e]
  /\ UNCHANGED label

\* A defect to test AnswersTypeOK with: the release is there, its label is not.
CommitDefect ==
  /\ call # NoCall
  /\ call.stage = "serving"
  /\ call.op = "create_release" => label = "free"
  /\ call' = [call EXCEPT !.stage = IF RaisedLate(call.op) = {} THEN "done" ELSE "half"]
  /\ UNCHANGED label

Commit ==
  /\ call # NoCall
  /\ call.stage = "serving"
  /\ call.op = "create_release" => label = "free"
  /\ call' = [call EXCEPT !.stage = IF RaisedLate(call.op) = {} THEN "done" ELSE "half"]
  /\ label' \in CASE call.op = "create_release" -> {"used"}
                  [] call.op = "delete_release" -> {label, "free"}
                  [] OTHER -> {label}

Finish ==
  /\ call # NoCall
  /\ call.stage = "half"
  /\ call' = [call EXCEPT !.stage = "done"]
  /\ UNCHANGED label

FailLate(e) ==
  /\ call # NoCall
  /\ call.stage = "half"
  /\ e \in RaisedLate(call.op)
  /\ call' = [call EXCEPT !.stage = "failed", !.error = e]
  /\ label' = "left"

Answer ==
  /\ call # NoCall
  /\ call.stage \in {"done", "failed"}
  /\ call' = [call EXCEPT !.stage = "answered",
                          !.answer = IF call.error = NoError THEN "ok"
                                     ELSE IF call.door = "api" THEN ApiAnswer(call.op, call.error)
                                     ELSE PageAnswer(call.op, call.error)]
  /\ UNCHANGED label

Close ==
  /\ call # NoCall
  /\ call.stage = "answered"
  /\ call' = NoCall
  /\ UNCHANGED label

Init ==
  /\ call = NoCall
  /\ label = "free"

Next ==
  \/ \E door \in {"api", "ui"} : \E op \in Operations(door) : Begin(door, op)
  \/ \E e \in Errors : Fail(e) \/ FailLate(e)
  \/ Commit
  \/ Finish
  \/ Answer
  \/ Close

Spec == Init /\ [][Next]_vars

-----------------------------------------------------------------------------
(* Properties                                                              *)

\* The stages of a call; between its two commits a new release has its label.
AnswersTypeOK ==
  /\ label \in {"free", "used", "left"}
  /\ call # NoCall /\ call.stage = "half" => label = "used"
  /\ call # NoCall =>
       /\ call.door \in {"api", "ui"}
       /\ call.stage \in {"serving", "half", "done", "failed", "answered"}
       /\ call.error \in Errors \union {NoError}
       /\ (call.stage = "failed" => call.error # NoError)
       /\ call.answer \in {"none", "ok", "message", "401", "403", "404", "409", "422",
                           "423", "429", "500"}

Answered(door) == call # NoCall /\ call.stage = "answered" /\ call.door = door

Refused(door) == Answered(door) /\ call.error # NoError

\* The status the API specification gives an error of an operation.
Documented(op, e) ==
  CASE e \in {"StepUpRequiredError", "AccountLockedError", "ForbiddenError",
              "SegregationOfDutiesViolation"} -> "403"
    [] op \in {"create_domain_signoff", "create_domain_signoff_request",
               "delete_sandbox_status_code"} /\ e = "DomainError" -> "403"
    [] e \in {"NotFoundError", "StagingError", "NotFound"} -> "404"
    [] e \in {"InvalidTransitionError", "ConcurrentModificationError",
              "IntegrityError"} -> "409"
    [] e = "InvalidCredentialsError" -> "401"
    [] e = "RateLimitedError" -> "429"
    [] OTHER -> "422"

\* Where a handler answers otherwise: to the wrong duties with 409, to a full range
\* with 403, to a wrong old password with 401, to a locked account with 423, to a
\* group that exists with 409; and it has no clause at all for a new release.
Departures ==
  {<<"create_revision", "SegregationOfDutiesViolation">>,
   <<"create_sandbox", "CapacityExhaustedError">>,
   <<"change_own_password", "ValueError">>,
   <<"login", "AccountLockedError">>,
   <<"create_functional_system_group", "DomainError">>,
   <<"create_functional_subgroup", "DomainError">>,
   <<"create_release", "ValueError">>,
   <<"create_release", "IntegrityError">>}

\* Whatever a service raises, through whichever clause it leaves the handler, the
\* API says what its specification says of that error; the departures are known.
StatusSaysWhy ==
  Refused("api") /\ <<call.op, call.error>> \notin Departures
    => call.answer = Documented(call.op, call.error)

\* What the API specification promises of the segregation of duties: a violation is
\* answered with 403 by every operation.
WrongDutiesAreForbidden ==
  Refused("api") /\ call.error = "SegregationOfDutiesViolation" => call.answer = "403"

\* What the test strategy promises: no operation of the API answers with a server error.
NoServerErrors == Answered("api") => call.answer # "500"

\* The pages that let an error of their service through: a new revision of a sandbox
\* code or of one that was incomplete, a sandbox code in a full range, a new release.
BreakingPages == {"create_revision", "create_sandbox", "create_release"}

\* A page whose operation is refused comes back with a message, or is missing because
\* the row is; whoever filled a form does not lose it to an error page.
PagesComeBack ==
  Refused("ui") /\ call.op \notin BreakingPages
    => \/ call.answer = "message"
       \/ call.answer = "404" /\ call.error \in {"NotFound", "NotFoundError",
                                                "ForbiddenError"}

\* What the manual promises: that holds of every page.
EveryPageComesBack == Refused("ui") => call.answer \in {"message", "404"}

\* An orderly refusal means that nothing was kept: only after a server error may there
\* be something left that a second attempt then meets.
OrderlyRefusalsKeepNothing ==
  Refused("api") /\ call.answer # "500" => call.error \notin RaisedLate(call.op)

\* What the software description promises: an action is one transaction, so no refused
\* one has left its label behind, in the way of the next attempt.
RefusedLeavesNothing == label # "left"
=============================================================================
