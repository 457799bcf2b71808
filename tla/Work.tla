-------------------------------- MODULE Work ---------------------------------
(***************************************************************************)
(* The work around the life of a code: the mapping, bulk decisions, the    *)
(* Draft form, Hub consolidation, reminders, translations and wording,     *)
(* number bands and software versions.                                     *)
(*                                                                         *)
(* Each part is a module of its own.  They share no variable here, so that *)
(* a behaviour is the behaviour of one part, its `scene`, while the others *)
(* wait in their first state: interleaving their steps would add states    *)
(* and nothing that a property could tell apart.                           *)
(***************************************************************************)
EXTENDS Naturals, FiniteSets, Sequences

CONSTANTS
  Scenes,                                  \* the parts to look at
  Nobody, Nothing,                         \* NULL, and a text that is not there
  Officials, OfficialStaff, OfficialMoves, \* who works on the mapping
  RowIds, ChangeIds, NewNumbers, Legacies, RowTexts, Incomplete, Seeds, Workbooks, Askers,
  MaxItems, MaxVersion,
  Deciders, DeciderStaff, DeciderMoves,    \* who decides in bulk
  BulkCodes, BulkBands, BulkFirst, BulkLast, BulkRevisions, Drafts, ReservedNumbers,
  SampleIds, SittingIds, Above, Minimum, Percent, MaxText, Sitters, Selections, Evidenced,
  Editors, Items, MaxChanges, MaxForms,
  HubCodes, MainCodes, HubAdmins, MaxHubRevisions,
  Office, OfficeStaff, OfficeMoves, OfficeCodes,   \* who is reminded
  LastRevision, Languages, Sources, TranslationTexts,
  Translators, Proofreaders, Heads,        \* Engineers, Reviewers, Administrators
  Terms, Seeded, English, Words, Managers, Writers, TermReviewers, LastStamp,
  Strings, Wordings, ReviewersOfLanguage, ReviewManagers, Deliveries, LastReview,
  MaxNumber, Groups, Subgroups, BandCodes,
  VersionIds, RangedCodes, BaselineIds, Orders, Ranges, Renamings, Unbounded

VARIABLE scene

-----------------------------------------------------------------------------
(* The mapping and the requests to change it.                              *)

VARIABLES mapAccount, mapDelegations, table, change, held

mapping == <<mapAccount, mapDelegations, table, change, held>>

Mapping == INSTANCE MappingChanges WITH
  Users <- Officials, InitialAccount <- OfficialStaff, Candidates <- OfficialMoves,
  MaxDelegations <- 0, Numbers <- NewNumbers, Texts <- RowTexts,
  account <- mapAccount, delegations <- mapDelegations

ASSUME MappingAssumption == Mapping!MappingAssumption

-----------------------------------------------------------------------------
(* Bulk decisions under samples.                                           *)

VARIABLES bulkAccount, bulkDelegations, code, rev,
          members, isOpen, sample, sitting, text, evidence, files, served

bulk == <<bulkAccount, bulkDelegations, code, rev,
          members, isOpen, sample, sitting, text, evidence, files, served>>

Bulk == INSTANCE BulkDecisions WITH
  Users <- Deciders, InitialAccount <- DeciderStaff, Candidates <- DeciderMoves,
  MaxDelegations <- 0,
  Codes <- BulkCodes, Bands <- BulkBands, BandFirst <- BulkFirst, BandLast <- BulkLast,
  SandboxLast <- 0, MaxRevisions <- BulkRevisions, Reserved <- ReservedNumbers,
  NoSample <- Nobody, Present <- Deciders,
  account <- bulkAccount, delegations <- bulkDelegations

ASSUME BulkAssumption == Bulk!BulkAssumption

-----------------------------------------------------------------------------
(* The Draft form and the review checklist.                                *)

VARIABLES draft, form, item, reading, confirmed, read, vouched, changes, pages

editing == <<draft, form, item, reading, confirmed, read, vouched, changes, pages>>

Editing == INSTANCE DraftEditing WITH revision <- draft

-----------------------------------------------------------------------------
(* Hub codes and the Main codes they may be merged into.                   *)

VARIABLES catalogue, replacement, job

hubs == <<catalogue, replacement, job>>

Hubs == INSTANCE HubConsolidation WITH
  Hubs <- HubCodes, Mains <- MainCodes, Admins <- HubAdmins, MaxRevisions <- MaxHubRevisions,
  rev <- catalogue

ASSUME HubsAssumption == Hubs!HubAssumption

-----------------------------------------------------------------------------
(* A small governed catalogue, and who is reminded of it.                  *)

VARIABLES account, delegations, governedCode, governedRev, release, notices, mails, today, runs

reminders == <<account, delegations, governedCode, governedRev, release,
               notices, mails, today, runs>>

\* Who covers for whom, and the job with nobody covering.
Covering == INSTANCE Reminders WITH
  Users <- Office, InitialAccount <- OfficeStaff, Candidates <- OfficeMoves,
  MaxDelegations <- 1,
  Codes <- OfficeCodes, Bands <- {"01000"}, BandFirst <- [b \in {"01000"} |-> 1],
  BandLast <- [b \in {"01000"} |-> 1], SandboxLast <- 0, MaxRevisions <- 1,
  ReleaseIds <- {}, MaxDays <- 1, MaxRuns <- 0,
  code <- governedCode, rev <- governedRev

Reminding == INSTANCE Reminders WITH
  Users <- Office, InitialAccount <- OfficeStaff, Candidates <- OfficeMoves,
  MaxDelegations <- 0,
  Codes <- OfficeCodes, Bands <- {"01000"}, BandFirst <- [b \in {"01000"} |-> 1],
  BandLast <- [b \in {"01000"} |-> 1], SandboxLast <- 0, MaxRevisions <- 1,
  ReleaseIds <- {}, MaxDays <- 2, MaxRuns <- 1,
  code <- governedCode, rev <- governedRev

-----------------------------------------------------------------------------
(* The text of a code in other languages, and the terms of the wording.    *)

VARIABLES state, source, translation

translating == <<state, source, translation>>

Translating == INSTANCE Translations WITH
  Last <- LastRevision, Texts <- TranslationTexts, NoText <- Nothing,
  Engineers <- Translators, Reviewers <- Proofreaders, Administrators <- Heads

VARIABLES term, wording, allOf, told

terms == <<term, wording, allOf, told>>

Wording == INSTANCE Terminology WITH
  Texts <- Words, NoText <- Nothing, Engineers <- Writers, Reviewers <- TermReviewers,
  translation <- wording, bulk <- allOf, notices <- told

ASSUME WordsAssumption == Translating!TranslationsAssumption /\ Wording!TerminologyAssumption

-----------------------------------------------------------------------------
(* Reviews of the delivered translation of the interface.                  *)

VARIABLES used, shipped, override, assigned, review, completed, verdict, page

reviewing == <<used, shipped, override, assigned, review, completed, verdict, page>>

Reviewing == INSTANCE TranslationReview WITH
  Texts <- Wordings, NoText <- Nothing, Reviewers <- ReviewersOfLanguage,
  Managers <- ReviewManagers, item <- verdict

ASSUME ReviewingAssumption == Reviewing!ReviewAssumption

-----------------------------------------------------------------------------
(* Number bands, and versions of the software.                             *)

VARIABLES group, subgroup, numbered

banding == <<group, subgroup, numbered>>

Banding == INSTANCE Bands WITH Codes <- BandCodes, code <- numbered

ASSUME BandingAssumption == Banding!BandsAssumption

VARIABLES version, ranged, baseline, renamed

versioning == <<version, ranged, baseline, renamed>>

Versioning == INSTANCE Versions WITH
  Codes <- RangedCodes, ReleaseIds <- BaselineIds, MaxRevisions <- Ranges,
  MaxChanges <- Renamings, Open <- Unbounded,
  revision <- ranged, release <- baseline, changes <- renamed

ASSUME VersioningAssumption == Versioning!OpenAssumption

-----------------------------------------------------------------------------

vars == <<scene, mapping, bulk, editing, hubs, reminders, translating, terms, reviewing,
          banding, versioning>>

Init ==
  /\ scene \in Scenes
  /\ Mapping!Init /\ Bulk!Init /\ Editing!Init /\ Hubs!Init /\ Reminding!RemindersInit
  /\ Translating!Init /\ Wording!Init /\ Reviewing!Init /\ Banding!Init /\ Versioning!Init

\* The other parts wait.
Only(part) ==
  /\ scene = part
  /\ UNCHANGED scene
  /\ part # "mapping" => UNCHANGED mapping
  /\ part # "bulk" => UNCHANGED bulk
  /\ part # "editing" => UNCHANGED editing
  /\ part # "hubs" => UNCHANGED hubs
  /\ part \notin {"covering", "reminding"} => UNCHANGED reminders
  /\ part # "translating" => UNCHANGED translating
  /\ part # "terms" => UNCHANGED terms
  /\ part # "reviewing" => UNCHANGED reviewing
  /\ part # "banding" => UNCHANGED banding
  /\ part # "versioning" => UNCHANGED versioning

Next ==
  \/ Only("mapping") /\ Mapping!Next
  \/ Only("bulk") /\ Bulk!Next
  \/ Only("editing") /\ Editing!Next
  \/ Only("hubs") /\ Hubs!Next
  \/ Only("covering") /\ Covering!RemindersNext
  \/ Only("reminding") /\ Reminding!RemindersNext
  \/ Only("translating") /\ Translating!Next
  \/ Only("terms") /\ Wording!Next
  \/ Only("reviewing") /\ Reviewing!Next
  \/ Only("banding") /\ Banding!Next
  \/ Only("versioning") /\ Versioning!Next

Spec == Init /\ [][Next]_vars

-----------------------------------------------------------------------------

\* Every variable of the part that moves has its type.
WorkTypeOK ==
  CASE scene = "mapping" -> Mapping!TypeOK
    [] scene = "bulk" -> Bulk!BulkTypeOK
    [] scene = "editing" -> Editing!EditingTypeOK
    [] scene = "hubs" -> Hubs!HubTypeOK
    [] scene \in {"covering", "reminding"} -> Reminding!RemindersTypeOK
    [] scene = "translating" -> Translating!TranslationsTypeOK
    [] scene = "terms" -> Wording!TerminologyTypeOK
    [] scene = "reviewing" -> Reviewing!ReviewTypeOK
    [] scene = "banding" -> Banding!BandsTypeOK
    [] scene = "versioning" -> Versioning!VersionsTypeOK

\* FR-195: two rows of the mapping never share a number, and no request renumbers or
\* rejects a row whose number a code carries (mapping_change_service).
HeldNumbersStay == []Mapping!NumbersUnique /\ Mapping!HeldNumbersStay

\* BR-027, FR-194: the mapping changes only as three people, none of them the
\* requester, agreed to, and only what they were shown (mapping_change_service).
ImplementsBallot == Mapping!ImplementsBallot

\* FR-180: a person has one live sample for a step, and a sample that was used or
\* replaced stays so (bulk_service).
SamplesStand == []Bulk!OneLiveSample /\ Bulk!ClosedSamplesStay

\* BR-012: what the Chief Engineer approves is what both sign-offs were given for,
\* over any number of rejections and edits (change_request_service).
ApprovedAsSigned == Editing!ApprovedAsSigned

\* BR-019: a save that names a row version never undoes another one (update_draft).
NoSaveIsUndone == Editing!NoSaveIsUndone

\* BR-003, FR-156: a Hub code never has two open revisions, and the one that the bulk
\* request opened names the released code that replaces it (hub_consolidation_service).
HubsAreSuperseded ==
  /\ Hubs!OneOpenRevision
  /\ Hubs!SupersededByItsReplacement
  /\ Hubs!SupersededByReleased

\* Whoever holds the next decision is reminded of it, and the author never, covering
\* or not (notification_service.decision_holders, BR-005).
OwnersAreReminded == Covering!OwnersAreReminded /\ Covering!AuthorsAreLeftAlone

\* BR-018, FR-110, FR-166: an approved translation is one of two persons, fits the
\* English it was approved for, and carrying over never loses one
\* (translation_service, terminology_service).
AgreedByTwo ==
  /\ Translating!AgreedByTwo
  /\ Translating!WorkIsKept
  /\ Wording!AgreedByTwo
  /\ []Wording!ApprovalsFitTheEnglish

\* FR-164, FR-176: nobody decides on a proposal of their own, a decision is final, and a
\* follow-up that agrees leaves nothing to approve (translation_review_service).
DecisionsAreFinal ==
  /\ []Reviewing!NobodyDecidesAlone
  /\ Reviewing!DecisionsAreFinal
  /\ Reviewing!FollowUpClears

\* BR-001, BR-014, BR-021, BR-023: however the Administrators edit bands and versions,
\* numbers stay unique and in their band, saved ranges hold and the targets of a
\* published Release stand (lookup_admin_service, software_version_service).
LookupsHold ==
  /\ [](/\ Banding!BandsAreDisjoint /\ Banding!NumbersAgree /\ Banding!NumbersStayInTheirBand
         /\ Versioning!SavedRangesHold)
  /\ Versioning!TargetsStand
=============================================================================
