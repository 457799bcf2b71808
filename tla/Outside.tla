------------------------------- MODULE Outside --------------------------------
(***************************************************************************)
(* What stands around the work: who gets in and what he may do, what the   *)
(* doors answer, what is published and taken away in files, and the audit  *)
(* trail, the backups and the transactions beneath.                        *)
(*                                                                         *)
(* The parts share nothing but people and the database under them, so a    *)
(* behaviour is that of one part, its `scene`, while the others wait.      *)
(***************************************************************************)
EXTENDS Access, Sequences

CONSTANTS
  Scenes,                                \* the parts to look at
  Persons, Browsers,                     \* who signs in, and where
  Threshold, LockTime, NameLimit, NameWindow, AddressLimit, AddressWindow,
  IdleTime, Lifetime, Mistakes, LastPassword,
  NoCall, NoError,                       \* nobody calls, nothing is raised
  FeedCodes, ReleaseIds, FeedRevisions, MaxAudit, PageSize,
  FileCodes, Linked, FileRevisions, MaxTotal, MaxReleases,
  Programs, External, MAX_DEPTH, MaxCauses,
  MaxEntries, MaxTime, Retention,
  Jobs, Keep, MaxAge, PerDay, LastDay,
  Requests, Kinds, MaxStored, Patience

\* The parts there are.
ASSUME ScenesAssumption ==
  Scenes \subseteq {"signing in", "access", "calls", "publishing", "exporting", "connecting",
                    "trail", "saving", "transacting"}

VARIABLE scene

-----------------------------------------------------------------------------
(* People at their browsers.                                               *)

VARIABLES login, attempts, session, mistakes

signingIn == <<login, attempts, session, mistakes>>

SigningIn == INSTANCE SignIn WITH People <- Persons, Idle <- IdleTime, account <- login

ASSUME SigningInAssumption == SigningIn!SignInAssumption

-----------------------------------------------------------------------------
(* People whose roles and covers change.  The gates have their own names   *)
(* here.                                                                   *)

access == <<account, delegations, token>>

ASSUME DoorsAssumption == AccessAssumption

-----------------------------------------------------------------------------
(* One call at a door.                                                     *)

VARIABLES call, label

calls == <<call, label>>

Calls == INSTANCE Answers

ASSUME CallsAssumption == Calls!NoErrorAssumption

-----------------------------------------------------------------------------
(* Releases of codes, and files taken of them.                             *)

VARIABLES life, release, audit, poller

publishing == <<life, release, audit, poller>>

Publishing == INSTANCE Publication WITH
  Codes <- FeedCodes, MaxRevisions <- FeedRevisions, Limit <- PageSize

ASSUME PublishingAssumption == Publishing!LimitAssumption

VARIABLES revision, confirmed, translated, published, building, file

exporting == <<revision, confirmed, translated, published, building, file>>

Exporting == INSTANCE Exports WITH Codes <- FileCodes, MaxRevisions <- FileRevisions

ASSUME ExportingAssumption == Exporting!LinkedAssumption

-----------------------------------------------------------------------------
(* Programs that suppress each other.                                      *)

VARIABLE suppressed_by

connecting == <<suppressed_by>>

Connecting == INSTANCE Connections WITH Codes <- Programs

ASSUME ConnectingAssumption == Connecting!ConnectionsAssumption

-----------------------------------------------------------------------------
(* The audit trail, the backups and the transactions of the database.      *)

VARIABLES log, tx, anchor, archives, copy, now, verdict, vouched, altered

trail == <<log, tx, anchor, archives, copy, now, verdict, vouched, altered>>

Trail == INSTANCE AuditTrail WITH files <- archives

ASSUME TrailAssumption == Trail!RetentionAssumption

VARIABLES sound, backups, status, job, day, started

saving == <<sound, backups, status, job, day, started>>

Saving == INSTANCE Backups WITH files <- backups

ASSUME SavingAssumption == Saving!KeepAssumption

VARIABLES stored, lock, req

transacting == <<stored, lock, req>>

Transacting == INSTANCE Transactions

ASSUME TransactingAssumption == Transacting!KindsAssumption

-----------------------------------------------------------------------------

outside == <<scene, signingIn, access, calls, publishing, exporting, connecting, trail, saving,
          transacting>>

OutsideInit ==
  /\ scene \in Scenes
  /\ SigningIn!Init /\ Init /\ Calls!Init /\ Publishing!Init /\ Exporting!Init
  /\ Connecting!Init /\ Trail!Init /\ Saving!Init /\ Transacting!Init

\* The other parts wait.
Only(part) ==
  /\ scene = part
  /\ UNCHANGED scene
  /\ part # "signing in" => UNCHANGED signingIn
  /\ part # "access" => UNCHANGED access
  /\ part # "calls" => UNCHANGED calls
  /\ part # "publishing" => UNCHANGED publishing
  /\ part # "exporting" => UNCHANGED exporting
  /\ part # "connecting" => UNCHANGED connecting
  /\ part # "trail" => UNCHANGED trail
  /\ part # "saving" => UNCHANGED saving
  /\ part # "transacting" => UNCHANGED transacting

OutsideNext ==
  \/ Only("signing in") /\ SigningIn!Next
  \/ Only("access") /\ Next
  \/ Only("calls") /\ Calls!Next
  \/ Only("publishing") /\ Publishing!Next
  \/ Only("exporting") /\ Exporting!Next
  \/ Only("connecting") /\ Connecting!Next
  \/ Only("trail") /\ Trail!Next
  \/ Only("saving") /\ Saving!Next
  \/ Only("transacting") /\ Transacting!Next

OutsideSpec == OutsideInit /\ [][OutsideNext]_outside

-----------------------------------------------------------------------------

\* Every variable of the part that moves has its type.
OutsideTypeOK ==
  CASE scene = "signing in" -> SigningIn!SignInTypeOK
    [] scene = "access" -> AccessTypeOK
    [] scene = "calls" -> Calls!AnswersTypeOK
    [] scene = "publishing" -> Publishing!PublicationTypeOK
    [] scene = "exporting" -> Exporting!ExportsTypeOK
    [] scene = "connecting" -> Connecting!ConnectionsTypeOK
    [] scene = "trail" -> Trail!AuditTypeOK
    [] scene = "saving" -> Saving!BackupTypeOK
    [] scene = "transacting" -> Transacting!TransactionsTypeOK

\* FR-163, SEC-001: a session is served for an active account with the password of its
\* sign-in, whatever happened to the account since (dependencies.get_current_user).
SessionsAreCurrent == SigningIn!SessionsAreCurrent

\* FR-004, FR-126: while an account is locked no password of it is compared, at the
\* sign-in and at the step-up (auth_service).
LockedIsLocked == SigningIn!LockedIsLocked

\* FR-125, D-08: a cover opens decisions and nothing else, a page admits nobody whom the
\* API refuses, and whom a route picks by role the service behind it serves
\* (dependencies.require_role, ui, the services).
RolesAreKept ==
  scene = "access" => CoverDecidesOnly /\ PagesAdmitNoMore /\ AdmittedAreServed

\* Whatever a service raises, the API answers with the status its specification names,
\* a page comes back with a message, and an orderly refusal keeps nothing
\* (error_responses, the clauses of the handlers).
StatusSaysWhy ==
  /\ Calls!StatusSaysWhy
  /\ Calls!PagesComeBack
  /\ Calls!OrderlyRefusalsKeepNothing

\* FR-173: the baseline and the notes of a published Release never change, and a
\* deprecation is in the notes of exactly one (release_service).
ReleasesStand ==
  /\ Publishing!BaselinesStand
  /\ Publishing!NotesStand
  /\ []Publishing!DeprecationsAreToldOnce

\* FR-046, FR-103, FR-175, BR-012, BR-016: a file shows an audience what an
\* Administrator confirmed, everybody else what is released, labels what was not
\* approved, and is complete unless it says otherwise (export_service).
FilesAreSafe ==
  /\ [](Exporting!UnreleasedStaysInside /\ Exporting!UnapprovedIsLabelled)
  /\ Exporting!AudienceSeesConfirmed
  /\ Exporting!CompleteUnlessNamed

\* FR-179: the trees show chains of causes and every loop of suppressions is named
\* (suppression_service).
LoopsAreNamed ==
  scene = "connecting" => Connecting!BranchesAreChains /\ Connecting!LoopsAreNamed

\* FR-151, AUD-073, AUD-075: a verification finds every alteration, never alarms without
\* one, and vouches for what was verified before; what is archived is archived once
\* (audit_chain, audit_archive).
AlteredIsFound ==
  /\ Trail!AlteredIsFound
  /\ Trail!NoFalseAlarm
  /\ Trail!VerifiedIsKept
  /\ []Trail!ArchivedOnce

\* FR-150: when the probe does not complain, the backup it names is there and can be
\* restored, whatever jobs ran at once or died (backup).
ReadyMeansRestorable == Saving!ReadyMeansRestorable

\* Commits build on each other and a page is drawn from one state of the database
\* (db, BEGIN IMMEDIATE).
NothingIsLost == []Transacting!ReadsAgree /\ Transacting!NothingIsLost
=============================================================================
