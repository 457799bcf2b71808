--------------------------------- MODULE Jobs ---------------------------------
(***************************************************************************)
(* What goes on by itself once it was begun: imports, sittings, the draw   *)
(* of a sample, packages, deliveries to subscribers and the polling of a   *)
(* feed; and people and requests that wait for a session or the lock.      *)
(*                                                                         *)
(* As in Work, a behaviour is that of one part, its `scene`.               *)
(***************************************************************************)
EXTENDS Naturals, FiniteSets, Sequences

CONSTANTS
  Scenes,                                  \* the parts to look at
  Nobody, NoJob,
  ProgramNumbers, ProgramTexts, Rows0, Importers, Previews, ImportJobs, NumbersByHand,
  ImportMayBreak,                          \* does the process die during an import?
  LibraryIds, Legacies, LibraryTexts, Plans, Engineers, Administrators, Files, UploadJobs,
  Deciders, DeciderStaff,                  \* who sits and decides
  SetCodes, SetBands, SetFirst, SetLast, SetRevisions, Drafts, ReservedNumbers,
  SampleIds, SittingIds, Above, Minimum, Percent, MaxText, Sitters, Present, Selections,
  Evidenced,
  Groups, MaxMembers,
  Persons, Browsers,                       \* who signs in, and where
  Threshold, LockTime, NameLimit, NameWindow, AddressLimit, AddressWindow,
  IdleTime, Lifetime, Mistakes, LastPassword,
  Callers, Kinds, MaxStored, Patience,
  PackageJobs, PackageCodes, Source, OtherLanguages, Batch, PackagesMayBreak, MaxChanges,
  Hooks, Releases, Answers, MaxAdmin,
  FeedCodes, ReleaseIds, FeedRevisions, MaxAudit, PageSize

VARIABLE scene

-----------------------------------------------------------------------------
(* Imports of programs.                                                    *)

VARIABLES code, row, staged, job, isOpen, taken, sources, applied, refused

programs == <<code, row, staged, job, isOpen, taken, sources, applied, refused>>

Programs == INSTANCE ProgramImport WITH
  Numbers <- ProgramNumbers, Texts <- ProgramTexts, Jobs <- ImportJobs,
  ByHand <- NumbersByHand, MayRestart <- ImportMayBreak

ASSUME ProgramsAssumption == Programs!ImportAssumption

-----------------------------------------------------------------------------
(* Imports of a legacy library.  The form that takes any legacy number is  *)
(* left out: what it does to the numbers is a finding of its own.          *)

VARIABLES codes, upload

library == <<codes, upload>>

Library == INSTANCE LibraryImport WITH
  Ids <- LibraryIds, NoLegacy <- Nobody, Texts <- LibraryTexts, Jobs <- UploadJobs,
  ByHand <- {}, job <- upload

ASSUME LibraryAssumption == Library!LibraryAssumption

-----------------------------------------------------------------------------
(* Requests under review that are decided in one sitting.                  *)

VARIABLES account, delegations, request, rev, members, setOpen, sample, sitting, text,
          evidence, files, served

sittings == <<account, delegations, request, rev, members, setOpen, sample, sitting, text,
              evidence, files, served>>

Sittings == INSTANCE BulkDecisions WITH
  Users <- Deciders, InitialAccount <- DeciderStaff,
  Candidates <- [u \in Deciders |-> {}], MaxDelegations <- 0,
  Codes <- SetCodes, Bands <- SetBands, BandFirst <- SetFirst, BandLast <- SetLast,
  SandboxLast <- 0, MaxRevisions <- SetRevisions, Reserved <- ReservedNumbers,
  NoSample <- Nobody, code <- request, isOpen <- setOpen

ASSUME SittingsAssumption == Sittings!BulkAssumption /\ Nobody \notin Deciders

-----------------------------------------------------------------------------
(* The quotas of a sample.                                                 *)

VARIABLES batch, size, quota, visited

quotas == <<batch, size, quota, visited>>

Quotas == INSTANCE Sampling WITH members <- batch

ASSUME QuotasAssumption == Quotas!SamplingAssumption

-----------------------------------------------------------------------------
(* People at their browsers, and requests at the database.                 *)

VARIABLES login, attempts, session, mistakes

signingIn == <<login, attempts, session, mistakes>>

SigningIn == INSTANCE SignIn WITH People <- Persons, Idle <- IdleTime, account <- login

ASSUME SigningInAssumption == SigningIn!SignInAssumption

VARIABLES stored, lock, req

transacting == <<stored, lock, req>>

Transacting == INSTANCE Transactions WITH Requests <- Callers

ASSUME TransactingAssumption == Transacting!KindsAssumption

-----------------------------------------------------------------------------
(* Packages of a Release, its subscribers, and who polls the feed.         *)

VARIABLES package, approved, visible, changed

packing == <<package, approved, visible, changed>>

Packing == INSTANCE Packages WITH
  Jobs <- PackageJobs, Codes <- PackageCodes, Others <- OtherLanguages,
  MayRestart <- PackagesMayBreak,
  job <- package, changes <- changed

ASSUME PackingAssumption == Packing!BatchAssumption

VARIABLES active, dispatcher, called, deliveries, holder, admin

telling == <<active, dispatcher, called, deliveries, holder, admin>>

Telling == INSTANCE Webhooks WITH lock <- holder

ASSUME TellingAssumption == Telling!HooksAssumption

VARIABLES life, release, audit, poller

polling == <<life, release, audit, poller>>

Polling == INSTANCE Publication WITH
  Codes <- FeedCodes, MaxRevisions <- FeedRevisions, Limit <- PageSize

ASSUME PollingAssumption == Polling!LimitAssumption

-----------------------------------------------------------------------------

vars == <<scene, programs, library, sittings, quotas, signingIn, transacting, packing,
          telling, polling>>

Init ==
  /\ scene \in Scenes
  /\ Programs!Init /\ Library!Init /\ Sittings!Init /\ Quotas!Init /\ SigningIn!Init
  /\ Transacting!Init /\ Packing!Init /\ Telling!Init /\ Polling!Init

\* The other parts wait.
Only(part) ==
  /\ scene = part
  /\ UNCHANGED scene
  /\ part # "programs" => UNCHANGED programs
  /\ part # "library" => UNCHANGED library
  /\ part # "sittings" => UNCHANGED sittings
  /\ part # "quotas" => UNCHANGED quotas
  /\ part # "signing in" => UNCHANGED signingIn
  /\ part # "transacting" => UNCHANGED transacting
  /\ part # "packing" => UNCHANGED packing
  /\ part # "telling" => UNCHANGED telling
  /\ part # "polling" => UNCHANGED polling

Next ==
  \/ Only("programs") /\ Programs!Next
  \/ Only("library") /\ Library!Next
  \/ Only("sittings") /\ Sittings!Next
  \/ Only("quotas") /\ Quotas!Next
  \/ Only("signing in") /\ SigningIn!Next
  \/ Only("transacting") /\ Transacting!Next
  \/ Only("packing") /\ Packing!Next
  \/ Only("telling") /\ Telling!Next
  \/ Only("polling") /\ Polling!Next

JobsSpec == Init /\ [][Next]_vars

-----------------------------------------------------------------------------

\* FR-048, FR-174, FR-180, FR-145, FR-146: what a job counts is what it did, at every
\* moment of it; the mapping of an imported code is frozen and a legacy number has one
\* code; a complete package is whole, a sample looks at every subgroup, a target hears of
\* a Release once and a reader of the feed gets its entries in order (st_import_service,
\* import_service, package_service, bulk_service, integration_service).
JobsAreSound ==
  CASE scene = "programs" ->
         Programs!ImportTypeOK /\ Programs!CountsAreTrue /\ Programs!ImportedRowsAreFrozen
    [] scene = "library" -> Library!LibraryTypeOK /\ Library!CountsAreTrue /\ Library!OneCodePerNumber
    [] scene = "quotas" -> Quotas!TypeOK /\ Quotas!Represented
    [] scene = "packing" -> Packing!PackagesTypeOK /\ Packing!CompleteIsWhole
    [] scene = "telling" -> Telling!WebhooksTypeOK /\ Telling!ToldOnceAndRecorded
    [] scene = "polling" -> Polling!PublicationTypeOK /\ Polling!FeedIsInOrder
    [] OTHER -> TRUE

\* FR-048c: whatever happened since a file was checked, an import writes Drafts and
\* nothing else, and never to a code in review (st_import_service, import_service).
GovernanceIsKept == Programs!GovernanceIsKept /\ Library!GovernanceIsKept

\* FR-180, BR-004, BR-005: bulk work is no weaker than single decisions and replaces no
\* signature given while it was under way (bulk_service).
StepsOfTheLifecycle ==
  [][scene = "sittings" => Sittings!LifecycleStep /\ Sittings!KeepsSignatures]_sittings
=============================================================================
