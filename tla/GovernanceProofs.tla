-------------------------- MODULE GovernanceProofs --------------------------
(***************************************************************************)
(* What module Governance keeps for every number of people, codes,         *)
(* revisions, bands and releases.                                          *)
(*                                                                         *)
(* The argument is local to a revision: an operation creates a revision,   *)
(* removes one, or moves one of them on, and a revision that is Sound in   *)
(* itself is moved to one that is Sound.  So each operation has one fact   *)
(* about the record it writes, and the three ways of writing the table     *)
(* (Open, Change and the whole-table updates) have one lemma each.         *)
(***************************************************************************)
EXTENDS Governance, FiniteSetTheorems, TLAPS

\* A revision by itself: well typed; a sign-off is never its author's, the two
\* Review sign-offs are two people's; what left Draft has a change request;
\* a deprecated revision came from a request to deprecate; sign-offs and decision
\* stand where the status says so and nowhere else.
Sound(r) ==
  /\ r \in Revision
  /\ r.status = "NONE" <=> r.author = Nobody
  /\ r.status \notin {"NONE", "DRAFT"} => r.cr
  /\ r.status \in {"DEPRECATED", "ARCHIVED"} => r.deprecation
  /\ r.reviewer # Nobody => r.reviewer # r.author
  /\ r.admin # Nobody => r.admin # r.author /\ r.admin # r.reviewer
  /\ r.status \in {"NONE", "DRAFT"} => r.reviewer = Nobody /\ r.admin = Nobody
  /\ r.status = "REVIEW" => r.reviewer = Nobody \/ r.admin = Nobody
  /\ r.status \in {"PENDING_APPROVAL"} \union Decided =>
       r.reviewer # Nobody /\ r.admin # Nobody
  /\ r.status \in Decided =>
       r.chief # Nobody /\ r.chief \notin {r.author, r.reviewer, r.admin}
  /\ r.status \notin Decided => r.chief = Nobody

\* The table of revisions, all of them sound.
SoundRevisions ==
  /\ rev \in [Codes -> [RevNo -> Revision]]
  /\ \A c \in Codes, n \in RevNo : Sound(rev[c][n])

\* The inductive invariant.
GovernanceInv ==
  /\ AccountsTypeOK
  /\ code \in [Codes -> Code]
  /\ SoundRevisions
  /\ ReleasesTypeOK

-----------------------------------------------------------------------------
(* Numbers                                                                 *)

LEMMA BandNumbers ==
  ASSUME NEW b \in Bands
  PROVE  NumbersOf(b) \subseteq AllNumbers
BY DEF AllNumbers

\* The record of an unused id is one of a code.
LEMMA NoCodeTyped == NoCode \in Code
<1>1. (CHOOSE b \in Bands : TRUE) \in Bands
  BY CatalogueAssumption
<1> QED BY <1>1 DEF NoCode, Code

-----------------------------------------------------------------------------
(* Records                                                                 *)

LEMMA NoRevisionSound == Sound(NoRevision)
BY DEF NoRevision, Sound, Revision, Decided

LEMMA NewDraftSound ==
  ASSUME NEW actor \in Users, NEW platforms \in BOOLEAN,
         NEW deprecation \in BOOLEAN, NEW cr \in BOOLEAN
  PROVE  Sound(NewDraft(actor, platforms, deprecation, cr))
BY AccountsAssumption
DEF NewDraft, NoRevision, Sound, Revision, Decided, Statuses, OpenStates

\* The current flag, the platforms, the assignment and the domain sign-off do
\* not bear on soundness.
LEMMA MinorChanges ==
  ASSUME NEW r, Sound(r)
  PROVE  /\ \A b \in BOOLEAN : Sound([r EXCEPT !.current = b])
         /\ \A b \in BOOLEAN : Sound([r EXCEPT !.platforms = b])
         /\ \A u \in Users : Sound([r EXCEPT !.controls = u])
         /\ \A u \in Users \union {Nobody} : Sound([r EXCEPT !.assigned = u])
BY DEF Sound, Revision

\* A rejection, from either point of Review or by the Chief Engineer.
LEMMA RejectionSound ==
  ASSUME NEW r, Sound(r), r.status \in {"REVIEW", "PENDING_APPROVAL"}
  PROVE  Sound([WithoutSignoffs(r) EXCEPT !.status = "DRAFT"])
BY DEF Sound, Revision, WithoutSignoffs, Decided, Statuses, OpenStates

LEMMA SubmissionSound ==
  ASSUME NEW r, Sound(r), r.status = "DRAFT", r.cr, NEW u \in Users \union {Nobody}
  PROVE  Sound([r EXCEPT !.status = "REVIEW", !.assigned = u])
BY DEF Sound, Revision, Decided, Statuses, OpenStates

LEMMA ReviewerApprovalSound ==
  ASSUME NEW r, Sound(r), r.status = "REVIEW", NEW u \in Users,
         u # r.author, u # r.admin
  PROVE  Sound([r EXCEPT !.reviewer = u,
                 !.status = IF r.admin = Nobody THEN "REVIEW" ELSE "PENDING_APPROVAL"])
BY AccountsAssumption DEF Sound, Revision, Decided, Statuses, OpenStates

LEMMA AdminApprovalSound ==
  ASSUME NEW r, Sound(r), r.status = "REVIEW", NEW u \in Users,
         u # r.author, u # r.reviewer
  PROVE  Sound([r EXCEPT !.admin = u,
                 !.status = IF r.reviewer = Nobody THEN "REVIEW" ELSE "PENDING_APPROVAL"])
BY AccountsAssumption DEF Sound, Revision, Decided, Statuses, OpenStates

LEMMA ChiefApprovalSound ==
  ASSUME NEW r, Sound(r), r.status = "PENDING_APPROVAL", NEW u \in Users,
         u \notin {r.author, r.reviewer, r.admin}
  PROVE  Sound([r EXCEPT !.chief = u,
                 !.status = IF r.deprecation THEN "DEPRECATED" ELSE "APPROVED"])
BY AccountsAssumption DEF Sound, Revision, Decided, Statuses, OpenStates

\* Between the decided states.
LEMMA DecidedMoves ==
  ASSUME NEW r, Sound(r), r.status \in Decided, NEW s \in Decided,
         s \in {"DEPRECATED", "ARCHIVED"} => r.deprecation
  PROVE  Sound([r EXCEPT !.status = s])
BY DEF Sound, Revision, Decided, Statuses, OpenStates

\* A sandbox code, as it is created.
LEMMA SandboxTyped ==
  ASSUME NEW k \in 0 .. SandboxLast
  PROVE  [NoCode EXCEPT !.kind = "SANDBOX", !.number = k] \in Code
BY NoCodeTyped DEF NoCode, Code

-----------------------------------------------------------------------------
(* Ways of writing the table                                               *)

\* One row is replaced by a sound one.
LEMMA ChangeKeepsSound ==
  ASSUME SoundRevisions, NEW c \in Codes, NEW n \in RevNo, NEW r, Sound(r), Change(c, n, r)
  PROVE  SoundRevisions'
<1>1. r \in Revision
  BY DEF Sound
<1>2. rev' = [rev EXCEPT ![c][n] = r]
  BY DEF Change
<1>3. rev' \in [Codes -> [RevNo -> Revision]]
  BY <1>1, <1>2 DEF SoundRevisions
<1>4. ASSUME NEW d \in Codes, NEW m \in RevNo
      PROVE  rev'[d][m] = IF d = c /\ m = n THEN r ELSE rev[d][m]
  BY <1>2 DEF SoundRevisions
<1>5. ASSUME NEW d \in Codes, NEW m \in RevNo
      PROVE  Sound(rev'[d][m])
  BY <1>4, <1>5 DEF SoundRevisions
<1> QED BY <1>3, <1>5 DEF SoundRevisions, Sound

\* A new revision is opened and the others of its code step back.
LEMMA OpenKeepsSound ==
  ASSUME SoundRevisions, NEW c \in Codes, NEW n \in RevNo, NEW r, Sound(r), Open(c, n, r)
  PROVE  SoundRevisions'
<1> DEFINE back(m) == [rev[c][m] EXCEPT !.current = FALSE]
<1>1. ASSUME NEW m \in RevNo PROVE Sound(back(m))
  BY MinorChanges DEF SoundRevisions
<1>2. rev' = [rev EXCEPT ![c] = [m \in RevNo |-> IF m = n THEN r ELSE back(m)]]
  BY DEF Open
<1>3. ASSUME NEW m \in RevNo PROVE back(m) \in Revision
  BY <1>1, <1>3 DEF Sound
<1>4. r \in Revision
  BY DEF Sound
<1> HIDE DEF back
<1>5. rev' \in [Codes -> [RevNo -> Revision]]
  BY <1>2, <1>3, <1>4 DEF SoundRevisions
<1>6. ASSUME NEW d \in Codes, NEW m \in RevNo
      PROVE  rev'[d][m] = IF d = c THEN (IF m = n THEN r ELSE back(m)) ELSE rev[d][m]
  BY <1>2 DEF SoundRevisions
<1>7. ASSUME NEW d \in Codes, NEW m \in RevNo
      PROVE  Sound(rev'[d][m])
  BY <1>1, <1>6, <1>7 DEF SoundRevisions
<1> QED BY <1>5, <1>7 DEF SoundRevisions, Sound

\* The table as a whole is written by sound rows.
LEMMA TableKeepsSound ==
  ASSUME rev' \in [Codes -> [RevNo -> Revision]],
         \A c \in Codes, n \in RevNo : Sound(rev'[c][n])
  PROVE  SoundRevisions'
BY DEF SoundRevisions, Sound

-----------------------------------------------------------------------------
(* Operations                                                              *)

CatalogueInv == code \in [Codes -> Code] /\ SoundRevisions

\* A new code is entered with its first revision.
LEMMA CreateDraftKeeps ==
  ASSUME CatalogueInv, NEW actor \in Users, NEW c \in Codes, NEW b \in Bands,
         NEW reserved \in NumbersOf(b) \union {NoNumber}, NEW platforms \in BOOLEAN,
         CreateDraft(actor, c, b, reserved, platforms)
  PROVE  CatalogueInv'
<1>1. [kind |-> "REAL", band |-> b, number |-> NoNumber, reserved |-> reserved,
       withdrawn |-> FALSE, deleted |-> FALSE] \in Code
  BY BandNumbers DEF Code
<1>2. code' \in [Codes -> Code]
  BY <1>1 DEF CreateDraft, CatalogueInv
<1>3. Sound(NewDraft(actor, platforms, FALSE, TRUE))
  BY NewDraftSound
<1>4. CASE 1 \in RevNo
  BY <1>2, <1>3, <1>4, OpenKeepsSound DEF CreateDraft, CatalogueInv
<1>5. CASE 1 \notin RevNo
  <2>1. RevNo = {}
    BY <1>5, CatalogueAssumption DEF RevNo
  <2> QED BY <1>2, <2>1 DEF CatalogueInv, SoundRevisions, CreateDraft, Open
<1> QED BY <1>4, <1>5

\* The operations of an author.
LEMMA DraftingKeeps ==
  ASSUME CatalogueInv, NEW actor \in Users, NEW c \in Codes, Drafting(actor, c)
  PROVE  CatalogueInv'
<1> USE DEF CatalogueInv
<1>1. ASSUME NEW b \in Bands, NEW platforms \in BOOLEAN,
             NEW reserved \in NumbersOf(b) \union {NoNumber},
             CreateDraft(actor, c, b, reserved, platforms)
      PROVE  CatalogueInv'
  BY <1>1, CreateDraftKeeps
<1>2. ASSUME NEW source \in Codes, CreatePlatformVariant(actor, source, c)
      PROVE  CatalogueInv'
  <2>1. code[source].band \in Bands
    BY DEF Code
  <2> QED BY <1>2, <2>1, CreateDraftKeeps DEF CreatePlatformVariant
<1>3. ASSUME NEW n \in RevNo, NEW platforms \in BOOLEAN,
             CreateRevision(actor, c, n, platforms)
      PROVE  CatalogueInv'
  <2>1. SoundRevisions'
    BY <1>3, NewDraftSound, OpenKeepsSound DEF CreateRevision
  <2>2. code' \in [Codes -> Code]
    BY <1>3 DEF CreateRevision, Code
  <2> QED BY <2>1, <2>2
<1>4. ASSUME NEW n \in RevNo, CreateDeprecationRequest(actor, c, n)
      PROVE  CatalogueInv'
  <2>1. PICK m \in RevNo : Open(c, n, NewDraft(actor, rev[c][m].platforms, TRUE, TRUE))
    BY <1>4 DEF CreateDeprecationRequest
  <2>2. rev[c][m].platforms \in BOOLEAN
    BY DEF SoundRevisions, Revision
  <2>3. SoundRevisions'
    BY <2>1, <2>2, NewDraftSound, OpenKeepsSound
  <2> QED BY <1>4, <2>3 DEF CreateDeprecationRequest
<1>5. ASSUME NEW k \in 0 .. SandboxLast, NEW platforms \in BOOLEAN,
             CreateSandbox(actor, c, k, platforms)
      PROVE  CatalogueInv'
  <2>1. code' \in [Codes -> Code]
    BY <1>5, SandboxTyped DEF CreateSandbox
  <2>2. CASE 1 \in RevNo
    BY <1>5, <2>1, <2>2, NewDraftSound, OpenKeepsSound DEF CreateSandbox
  <2>3. CASE 1 \notin RevNo
    <3>1. RevNo = {}
      BY <2>3, CatalogueAssumption DEF RevNo
    <3> QED BY <1>5, <2>1, <3>1 DEF SoundRevisions, CreateSandbox, Open
  <2> QED BY <2>2, <2>3
<1>6. ASSUME NEW n \in RevNo, NEW platforms \in BOOLEAN,
             UpdateDraft(actor, c, n, platforms)
      PROVE  CatalogueInv'
  <2>1. Sound([rev[c][n] EXCEPT !.platforms = platforms])
    BY MinorChanges DEF SoundRevisions
  <2> QED BY <1>6, <2>1, ChangeKeepsSound DEF UpdateDraft
<1>7. ASSUME NEW n \in RevNo, SignDomain(actor, c, n)
      PROVE  CatalogueInv'
  <2>1. Sound([rev[c][n] EXCEPT !.controls = actor])
    BY MinorChanges DEF SoundRevisions
  <2> QED BY <1>7, <2>1, ChangeKeepsSound DEF SignDomain
<1> QED BY <1>1, <1>2, <1>3, <1>4, <1>5, <1>6, <1>7 DEF Drafting

\* Submission, assignment and the three decision points.
LEMMA ReviewingKeeps ==
  ASSUME CatalogueInv, NEW actor \in Users, NEW c \in Codes, NEW n \in RevNo,
         Reviewing(actor, c, n)
  PROVE  CatalogueInv'
<1> USE DEF CatalogueInv
<1> DEFINE r == rev[c][n]
<1>1. Sound(r)
  BY DEF SoundRevisions
<1>2. r.assigned \in Users \union {Nobody} /\ r.author \in Users \union {Nobody}
  BY <1>1 DEF Sound, Revision
<1>3. LeastLoaded(actor) \subseteq Users /\ LeastLoaded(r.author) \subseteq Users
  BY DEF LeastLoaded
<1> HIDE DEF r
<1>4. ASSUME NEW k \in AllNumbers \union 0 .. SandboxLast, NEW auto \in BOOLEAN,
             Submit(actor, c, n, k, auto)
      PROVE  CatalogueInv'
  <2>1. PICK u \in Users \union {Nobody} :
          Change(c, n, [r EXCEPT !.status = "REVIEW", !.assigned = u])
    BY <1>2, <1>3, <1>4 DEF Submit, r
  <2>2. r.status = "DRAFT" /\ r.cr
    BY <1>4 DEF Submit, IsRequest, r
  <2>3. SoundRevisions'
    BY <1>1, <2>1, <2>2, SubmissionSound, ChangeKeepsSound
  <2>4. code' \in [Codes -> Code]
    BY <1>4 DEF Submit, Code
  <2> QED BY <2>3, <2>4
<1>5. ASSUME NEW reviewer \in Users \union {Nobody}, AssignReviewer(actor, c, n, reviewer)
      PROVE  CatalogueInv'
  <2>1. Change(c, n, [r EXCEPT !.assigned = reviewer]) /\ UNCHANGED code
    BY <1>5 DEF AssignReviewer, r
  <2>2. Sound([r EXCEPT !.assigned = reviewer])
    BY <1>1, MinorChanges
  <2> QED BY <2>1, <2>2, ChangeKeepsSound
<1>6. ASSUME AutoAssignReviewer(actor, c, n)
      PROVE  CatalogueInv'
  BY <1>3, <1>5, <1>6 DEF AutoAssignReviewer, r
<1>7. ASSUME NEW decision \in Decisions, ReviewerSignoff(actor, c, n, decision)
      PROVE  CatalogueInv'
  <2>1. r.status = "REVIEW" /\ actor # r.author /\ actor # r.admin /\ UNCHANGED code
    BY <1>7 DEF ReviewerSignoff, ReviewerMayDecide, r
  <2>2. CASE decision = "REJECT"
    <3>1. Change(c, n, [WithoutSignoffs(r) EXCEPT !.status = "DRAFT"])
      BY <1>7, <2>2 DEF ReviewerSignoff, r
    <3> QED BY <1>1, <2>1, <3>1, RejectionSound, ChangeKeepsSound
  <2>3. CASE decision # "REJECT"
    <3>1. Change(c, n, [r EXCEPT !.reviewer = actor,
            !.status = IF r.admin = Nobody THEN "REVIEW" ELSE "PENDING_APPROVAL"])
      BY <1>7, <2>3 DEF ReviewerSignoff, r
    <3> QED BY <1>1, <2>1, <3>1, ReviewerApprovalSound, ChangeKeepsSound
  <2> QED BY <2>2, <2>3
<1>8. ASSUME NEW decision \in Decisions, AdminSignoff(actor, c, n, decision)
      PROVE  CatalogueInv'
  <2>1. r.status = "REVIEW" /\ actor # r.author /\ actor # r.reviewer /\ UNCHANGED code
    BY <1>8 DEF AdminSignoff, AdminMayDecide, r
  <2>2. CASE decision = "REJECT"
    <3>1. Change(c, n, [WithoutSignoffs(r) EXCEPT !.status = "DRAFT"])
      BY <1>8, <2>2 DEF AdminSignoff, r
    <3> QED BY <1>1, <2>1, <3>1, RejectionSound, ChangeKeepsSound
  <2>3. CASE decision # "REJECT"
    <3>1. Change(c, n, [r EXCEPT !.admin = actor,
            !.status = IF r.reviewer = Nobody THEN "REVIEW" ELSE "PENDING_APPROVAL"])
      BY <1>8, <2>3 DEF AdminSignoff, r
    <3> QED BY <1>1, <2>1, <3>1, AdminApprovalSound, ChangeKeepsSound
  <2> QED BY <2>2, <2>3
<1>9. ASSUME NEW decision \in Decisions, ChiefEngineerDecide(actor, c, n, decision)
      PROVE  CatalogueInv'
  <2>1. /\ r.status = "PENDING_APPROVAL" /\ UNCHANGED code
        /\ actor \notin {r.author, r.reviewer, r.admin}
    BY <1>9 DEF ChiefEngineerDecide, ChiefMayDecide, r
  <2>2. CASE decision = "REJECT"
    <3>1. Change(c, n, [WithoutSignoffs(r) EXCEPT !.status = "DRAFT"])
      BY <1>9, <2>2 DEF ChiefEngineerDecide, r
    <3> QED BY <1>1, <2>1, <3>1, RejectionSound, ChangeKeepsSound
  <2>3. CASE decision # "REJECT"
    <3>1. Change(c, n, [r EXCEPT !.chief = actor,
            !.status = IF r.deprecation THEN "DEPRECATED" ELSE "APPROVED"])
      BY <1>9, <2>3 DEF ChiefEngineerDecide, r
    <3> QED BY <1>1, <2>1, <3>1, ChiefApprovalSound, ChangeKeepsSound
  <2> QED BY <2>2, <2>3
<1> QED BY <1>4, <1>5, <1>6, <1>7, <1>8, <1>9 DEF Reviewing

\* Withdrawal, archiving, reinstatement and the deletion of a sandbox code.
LEMMA RetiringKeeps ==
  ASSUME CatalogueInv, NEW actor \in Users, NEW c \in Codes, Retiring(actor, c)
  PROVE  CatalogueInv'
<1> USE DEF CatalogueInv
<1>1. ASSUME NEW n \in RevNo, Withdraw(actor, c, n)
      PROVE  CatalogueInv'
  <2> DEFINE hasPrior == n > 1 /\ Exists(c, n - 1)
             row(m) == IF m = n THEN NoRevision
                       ELSE IF m = n - 1 /\ hasPrior
                            THEN [rev[c][m] EXCEPT !.current = TRUE]
                            ELSE rev[c][m]
  <2>1. rev' = [rev EXCEPT ![c] = [m \in RevNo |-> row(m)]]
    BY <1>1 DEF Withdraw
  <2>2. ASSUME NEW m \in RevNo PROVE Sound(row(m))
    BY NoRevisionSound, MinorChanges DEF SoundRevisions
  <2>3. ASSUME NEW m \in RevNo PROVE row(m) \in Revision
    BY <2>2, <2>3 DEF Sound
  <2> HIDE DEF row
  <2>4. rev' \in [Codes -> [RevNo -> Revision]]
    BY <2>1, <2>3 DEF SoundRevisions
  <2>5. ASSUME NEW d \in Codes, NEW m \in RevNo PROVE Sound(rev'[d][m])
    <3>1. rev'[d][m] = IF d = c THEN row(m) ELSE rev[d][m]
      BY <2>1 DEF SoundRevisions
    <3> QED BY <2>2, <3>1 DEF SoundRevisions
  <2>6. code' \in [Codes -> Code]
    BY <1>1 DEF Withdraw, Code
  <2> QED BY <2>4, <2>5, <2>6, TableKeepsSound
<1>2. ASSUME NEW n \in RevNo, Archive(actor, c, n)
      PROVE  CatalogueInv'
  <2>1. Sound([rev[c][n] EXCEPT !.status = "ARCHIVED"])
    BY <1>2, DecidedMoves DEF Archive, SoundRevisions, Sound, Decided
  <2> QED BY <1>2, <2>1, ChangeKeepsSound DEF Archive
<1>3. ASSUME NEW n \in RevNo, Reinstate(actor, c, n)
      PROVE  CatalogueInv'
  <2>1. Sound([rev[c][n] EXCEPT !.status = "RELEASED"])
    BY <1>3, DecidedMoves DEF Reinstate, SoundRevisions, Decided
  <2> QED BY <1>3, <2>1, ChangeKeepsSound DEF Reinstate
<1>4. ASSUME DeleteSandbox(actor, c)
      PROVE  CatalogueInv'
  <2>1. rev' = [rev EXCEPT ![c] = [n \in RevNo |-> NoRevision]]
    BY <1>4 DEF DeleteSandbox
  <2>2. NoRevision \in Revision
    BY NoRevisionSound DEF Sound
  <2>3. rev' \in [Codes -> [RevNo -> Revision]]
    BY <2>1, <2>2 DEF SoundRevisions
  <2>4. ASSUME NEW d \in Codes, NEW m \in RevNo PROVE Sound(rev'[d][m])
    <3>1. rev'[d][m] = IF d = c THEN NoRevision ELSE rev[d][m]
      BY <2>1 DEF SoundRevisions
    <3> QED BY <3>1, NoRevisionSound DEF SoundRevisions
  <2>5. code' \in [Codes -> Code]
    BY <1>4, NoCodeTyped DEF DeleteSandbox
  <2> QED BY <2>3, <2>4, <2>5, TableKeepsSound
<1> QED BY <1>1, <1>2, <1>3, <1>4 DEF Retiring

\* Every operation on codes and change requests.
LEMMA RequestsKeep ==
  ASSUME CatalogueInv, RequestsNext
  PROVE  CatalogueInv'
<1>1. PICK actor \in Users :
        \/ \E c \in Codes : \/ Drafting(actor, c)
                            \/ \E n \in RevNo : Reviewing(actor, c, n)
                            \/ Retiring(actor, c)
        \/ \E selected \in SUBSET Codes : DeleteWithdrawn(actor, selected)
  BY DEF RequestsNext
<1>2. ASSUME NEW selected \in SUBSET Codes, DeleteWithdrawn(actor, selected)
      PROVE  CatalogueInv'
  <2>1. ASSUME NEW c \in Codes
        PROVE  [code[c] EXCEPT !.number = NoNumber, !.reserved = NoNumber,
                               !.deleted = TRUE] \in Code
    BY DEF CatalogueInv, Code
  <2>2. code' \in [Codes -> Code]
    BY <1>2, <2>1 DEF DeleteWithdrawn, CatalogueInv
  <2>3. UNCHANGED rev
    BY <1>2 DEF DeleteWithdrawn
  <2>4. SoundRevisions'
    BY <2>3 DEF CatalogueInv, SoundRevisions, Sound
  <2> QED BY <2>2, <2>4 DEF CatalogueInv
<1> QED BY <1>1, <1>2, DraftingKeeps, ReviewingKeeps, RetiringKeeps

\* Every operation on accounts and delegations.
LEMMA AccountsKeep ==
  ASSUME AccountsTypeOK, AccountsNext
  PROVE  AccountsTypeOK'
<1> USE DEF AccountsTypeOK
<1>1. ASSUME NEW actor \in Users, NEW u \in Users, NEW role \in Roles,
             NEW controls \in BOOLEAN, CreateUser(actor, u, role, controls)
      PROVE  AccountsTypeOK'
  BY <1>1 DEF CreateUser, Account
<1>2. ASSUME NEW actor \in Users, NEW u \in Users, NEW role \in Roles,
             NEW controls \in BOOLEAN, NEW state \in {"ACTIVE", "INACTIVE"},
             UpdateUser(actor, u, role, controls, state)
      PROVE  AccountsTypeOK'
  BY <1>2 DEF UpdateUser, Account
<1>3. ASSUME NEW actor \in Users, NEW u \in Users, DeleteUser(actor, u)
      PROVE  AccountsTypeOK'
  BY <1>3 DEF DeleteUser, Account
<1>4. ASSUME NEW actor \in Users, NEW from \in Users, NEW to \in Users,
             NEW begun \in BOOLEAN, CreateDelegation(actor, from, to, begun)
      PROVE  AccountsTypeOK'
  BY <1>4 DEF CreateDelegation, Delegation
<1>5. ASSUME NEW actor \in Users, NEW d \in delegations, RevokeDelegation(actor, d)
      PROVE  AccountsTypeOK'
  BY <1>5 DEF RevokeDelegation
<1>6. ASSUME NEW d \in delegations, DelegationBegins(d)
      PROVE  AccountsTypeOK'
  BY <1>6 DEF DelegationBegins, Delegation
<1>7. ASSUME NEW d \in delegations, DelegationEnds(d)
      PROVE  AccountsTypeOK'
  BY <1>7 DEF DelegationEnds
<1> QED BY <1>1, <1>2, <1>3, <1>4, <1>5, <1>6, <1>7 DEF AccountsNext

\* Every operation on releases.
LEMMA ReleasesKeep ==
  ASSUME SoundRevisions, ReleasesTypeOK, ReleasesNext
  PROVE  SoundRevisions' /\ ReleasesTypeOK'
<1> USE DEF ReleasesTypeOK
<1>1. ASSUME NEW actor \in Users, NEW i \in ReleaseIds, CreateRelease(actor, i)
      PROVE  ReleasesTypeOK' /\ UNCHANGED rev
  BY <1>1 DEF CreateRelease, Release
<1>2. ASSUME NEW actor \in Users, NEW i \in ReleaseIds,
             NEW items \in SUBSET (Codes \X RevNo), SetItems(actor, i, items)
      PROVE  ReleasesTypeOK' /\ UNCHANGED rev
  BY <1>2 DEF SetItems, Release
<1>3. ASSUME NEW actor \in Users, NEW i \in ReleaseIds, DeleteRelease(actor, i)
      PROVE  ReleasesTypeOK' /\ UNCHANGED rev
  BY <1>3 DEF DeleteRelease, Release
<1>4. ASSUME NEW actor \in Users, NEW i \in ReleaseIds, Publish(actor, i)
      PROVE  SoundRevisions' /\ ReleasesTypeOK'
  <2> DEFINE row(c, n) == IF <<c, n>> \in release[i].items
                          THEN [rev[c][n] EXCEPT !.status = "RELEASED"] ELSE rev[c][n]
  <2>1. rev' = [c \in Codes |-> [n \in RevNo |-> row(c, n)]]
    BY <1>4 DEF Publish
  <2>2. ASSUME NEW c \in Codes, NEW n \in RevNo PROVE Sound(row(c, n))
    <3>1. CASE <<c, n>> \in release[i].items
      <4>1. rev[c][n].status \in Decided
        BY <1>4, <3>1 DEF Publish, Status, Decided
      <4>2. Sound([rev[c][n] EXCEPT !.status = "RELEASED"])
        BY <4>1, DecidedMoves DEF SoundRevisions, Decided
      <4> QED BY <3>1, <4>2
    <3>2. CASE <<c, n>> \notin release[i].items
      BY <3>2 DEF SoundRevisions
    <3> QED BY <3>1, <3>2
  <2>3. ASSUME NEW c \in Codes, NEW n \in RevNo PROVE row(c, n) \in Revision
    BY <2>2, <2>3 DEF Sound
  <2> HIDE DEF row
  <2>4. rev' \in [Codes -> [RevNo -> Revision]]
    BY <2>1, <2>3
  <2>5. ASSUME NEW c \in Codes, NEW n \in RevNo PROVE Sound(rev'[c][n])
    BY <2>1, <2>2
  <2>6. ReleasesTypeOK'
    BY <1>4 DEF Publish, Release
  <2> QED BY <2>4, <2>5, <2>6, TableKeepsSound
<1>5. UNCHANGED rev => SoundRevisions'
  BY DEF SoundRevisions, Sound
<1>6. \A items : items \in SUBSET {p \in Codes \X RevNo : Status(p) = "APPROVED"}
        => items \in SUBSET (Codes \X RevNo)
  OBVIOUS
<1> QED BY <1>1, <1>2, <1>3, <1>4, <1>5, <1>6 DEF ReleasesNext

-----------------------------------------------------------------------------
(* The invariant                                                           *)

LEMMA InitialInv == Init => GovernanceInv
<1> SUFFICES ASSUME Init PROVE GovernanceInv
  OBVIOUS
<1>1. AccountsTypeOK
  BY AccountsAssumption DEF Init, AccountsInit, AccountsTypeOK
<1>2. code \in [Codes -> Code]
  BY NoCodeTyped DEF Init, CatalogueInit
<1>3. NoRevision \in Revision
  BY NoRevisionSound DEF Sound
<1>4. SoundRevisions
  BY <1>3, NoRevisionSound DEF Init, CatalogueInit, SoundRevisions
<1>5. ReleasesTypeOK
  BY DEF Init, ReleasesInit, ReleasesTypeOK, Release
<1> QED BY <1>1, <1>2, <1>4, <1>5 DEF GovernanceInv

LEMMA StepKeepsInv == GovernanceInv /\ [Next]_vars => GovernanceInv'
<1> SUFFICES ASSUME GovernanceInv, [Next]_vars PROVE GovernanceInv'
  OBVIOUS
<1>1. AccountsTypeOK /\ CatalogueInv /\ SoundRevisions /\ ReleasesTypeOK
  BY DEF GovernanceInv, CatalogueInv
<1>2. UNCHANGED <<account, delegations>> => AccountsTypeOK'
  BY <1>1 DEF AccountsTypeOK
<1>3. UNCHANGED rev => SoundRevisions'
  BY <1>1 DEF SoundRevisions, Sound
<1>4. UNCHANGED code => (code \in [Codes -> Code])'
  BY <1>1 DEF CatalogueInv
<1>5. UNCHANGED release => ReleasesTypeOK'
  BY <1>1 DEF ReleasesTypeOK
<1>6. CASE AccountsNext /\ UNCHANGED <<code, rev, release>>
  BY <1>1, <1>3, <1>4, <1>5, <1>6, AccountsKeep DEF GovernanceInv
<1>7. CASE RequestsNext /\ UNCHANGED <<account, delegations, release>>
  BY <1>1, <1>2, <1>5, <1>7, RequestsKeep DEF GovernanceInv, CatalogueInv
<1>8. CASE ReleasesNext /\ UNCHANGED <<account, delegations, code>>
  BY <1>1, <1>2, <1>4, <1>8, ReleasesKeep DEF GovernanceInv
<1>9. CASE UNCHANGED vars
  BY <1>2, <1>3, <1>4, <1>5, <1>9 DEF vars, GovernanceInv
<1> QED BY <1>6, <1>7, <1>8, <1>9 DEF Next

\* Every reachable state is well typed and all its revisions are sound: the
\* fact about approval_service, catalogue_service and release_service that the
\* theorems below read off.
THEOREM InvariantHolds == Spec => []GovernanceInv
<1> QED BY InitialInv, StepKeepsInv, PTL DEF Spec

-----------------------------------------------------------------------------
(* Properties                                                              *)

\* The tables always hold rows of their types, whatever the requests.
THEOREM TypesHold == Spec => []TypeOK
<1>1. GovernanceInv => TypeOK
  BY DEF GovernanceInv, TypeOK, CatalogueTypeOK, SoundRevisions
<1> QED BY <1>1, InvariantHolds, PTL

\* BR-004: for any number of people, codes, revisions and cycles, sign-offs
\* stand only on the cycle they were given in.
THEOREM SignoffsStayInTheirCycle == Spec => []SignoffsOfThisCycle
<1>1. GovernanceInv => SignoffsOfThisCycle
  BY DEF GovernanceInv, SoundRevisions, Sound, SignoffsOfThisCycle, Decided
<1> QED BY <1>1, InvariantHolds, PTL

\* Four different people are four.
LEMMA FourDifferent ==
  ASSUME NEW a, NEW b, NEW c, NEW d,
         a # b /\ a # c /\ a # d /\ b # c /\ b # d /\ c # d
  PROVE  Cardinality({a, b, c, d}) = 4
<1>1. IsFiniteSet({}) /\ Cardinality({}) = 0
  BY FS_EmptySet
<1>2. IsFiniteSet({a}) /\ Cardinality({a}) = 1
  BY FS_Singleton
<1>3. IsFiniteSet({a} \union {b}) /\ Cardinality({a} \union {b}) = 2
  BY <1>2, FS_AddElement
<1>4. IsFiniteSet(({a} \union {b}) \union {c})
      /\ Cardinality(({a} \union {b}) \union {c}) = 3
  BY <1>3, FS_AddElement
<1>5. Cardinality((({a} \union {b}) \union {c}) \union {d}) = 4
  BY <1>4, FS_AddElement
<1>6. {a, b, c, d} = (({a} \union {b}) \union {c}) \union {d}
  OBVIOUS
<1> QED BY <1>5, <1>6

\* BR-004, BR-005: for any number of people, codes and revisions, four
\* different people stand behind every decided revision.
THEOREM FourPeopleBehindEveryDecision == Spec => []SegregationOfDuties
<1>1. ASSUME GovernanceInv PROVE SegregationOfDuties
  <2>1. SUFFICES ASSUME NEW c \in Codes, NEW n \in RevNo,
                        rev[c][n].status \in Decided
                 PROVE  /\ Nobody \notin Parties(rev[c][n])
                        /\ Cardinality(Parties(rev[c][n])) = 4
    BY DEF SegregationOfDuties
  <2> DEFINE r == rev[c][n]
             author == r.author
             reviewer == r.reviewer
             admin == r.admin
             chief == r.chief
  <2>2. Sound(r)
    BY <1>1 DEF GovernanceInv, SoundRevisions
  <2>3. Nobody \notin {author, reviewer, admin, chief}
    BY <2>1, <2>2 DEF Sound, Decided
  <2>4. /\ author # reviewer /\ author # admin /\ author # chief
        /\ reviewer # admin /\ reviewer # chief /\ admin # chief
    BY <2>1, <2>2, <2>3 DEF Sound, Decided
  <2>5. Parties(rev[c][n]) = {author, reviewer, admin, chief}
    BY DEF Parties
  <2> HIDE DEF author, reviewer, admin, chief
  <2>6. Cardinality({author, reviewer, admin, chief}) = 4
    BY <2>4, FourDifferent
  <2> QED BY <2>3, <2>5, <2>6
<1> QED BY <1>1, InvariantHolds, PTL

\* BR-024, BR-025: whatever the order of role changes, deactivations and
\* deletions, some active Administrator is left.
THEOREM AnAdministratorIsLeft == Spec => []SomeAdministrator
<1>1. Init => SomeAdministrator
  BY AccountsAssumption
  DEF Init, AccountsInit, SomeAdministrator, HasRole, SignedIn
<1>2. SomeAdministrator /\ AccountsTypeOK /\ [Next]_vars => SomeAdministrator'
  <2> SUFFICES ASSUME SomeAdministrator, AccountsTypeOK, [Next]_vars
               PROVE  SomeAdministrator'
    OBVIOUS
  <2>1. PICK u \in Users : account[u].state = "ACTIVE" /\ account[u].role = "ADMINISTRATOR"
    BY DEF SomeAdministrator, HasRole, SignedIn
  \* It is enough that somebody's account is as it was.
  <2>2. ASSUME NEW v \in Users, account[v].state = "ACTIVE",
               account[v].role = "ADMINISTRATOR", account'[v] = account[v]
        PROVE  SomeAdministrator'
    BY <2>2 DEF SomeAdministrator, HasRole, SignedIn
  <2>3. ASSUME NEW x \in Users, AnotherAdministrator(x),
               \A v \in Users \ {x} : account'[v] = account[v]
        PROVE  SomeAdministrator'
    <3>1. PICK v \in Users \ {x} : account[v].state = "ACTIVE"
                                   /\ account[v].role = "ADMINISTRATOR"
      BY <2>3 DEF AnotherAdministrator, HasRole, SignedIn
    <3> QED BY <2>2, <2>3, <3>1
  <2>4. ASSUME NEW actor \in Users, NEW x \in Users, NEW role \in Roles,
               NEW controls \in BOOLEAN, CreateUser(actor, x, role, controls)
        PROVE  SomeAdministrator'
    <3>1. u # x
      BY <2>1, <2>4 DEF CreateUser
    <3>2. account'[u] = account[u]
      BY <2>4, <3>1 DEF CreateUser, AccountsTypeOK
    <3> QED BY <2>1, <2>2, <3>2
  <2>5. ASSUME NEW actor \in Users, NEW x \in Users, NEW role \in Roles,
               NEW controls \in BOOLEAN, NEW state \in {"ACTIVE", "INACTIVE"},
               UpdateUser(actor, x, role, controls, state)
        PROVE  SomeAdministrator'
    <3>1. account' = [account EXCEPT ![x] =
                        [state |-> state, role |-> role, controls |-> controls]]
      BY <2>5 DEF UpdateUser
    <3>2. \A v \in Users \ {x} : account'[v] = account[v]
      BY <3>1 DEF AccountsTypeOK
    <3>3. CASE u # x
      BY <2>1, <2>2, <3>2, <3>3
    <3>4. CASE u = x /\ (role # "ADMINISTRATOR" \/ state = "INACTIVE")
      <4>1. AnotherAdministrator(x)
        BY <2>1, <2>5, <3>4 DEF UpdateUser
      <4> QED BY <2>3, <3>2, <4>1
    <3>5. CASE u = x /\ role = "ADMINISTRATOR" /\ state = "ACTIVE"
      BY <3>1, <3>5 DEF SomeAdministrator, HasRole, SignedIn, AccountsTypeOK
    <3> QED BY <3>3, <3>4, <3>5
  <2>6. ASSUME NEW actor \in Users, NEW x \in Users, DeleteUser(actor, x)
        PROVE  SomeAdministrator'
    <3>1. \A v \in Users \ {x} : account'[v] = account[v]
      BY <2>6 DEF DeleteUser, AccountsTypeOK
    <3>2. CASE u # x
      BY <2>1, <2>2, <3>1, <3>2
    <3>3. CASE u = x
      <4>1. AnotherAdministrator(x)
        BY <2>1, <2>6, <3>3 DEF DeleteUser, HasRole, SignedIn
      <4> QED BY <2>3, <3>1, <4>1
    <3> QED BY <3>2, <3>3
  <2>7. CASE UNCHANGED account
    BY <2>1, <2>2, <2>7
  <2>8. CASE AccountsNext
    <3>1. \/ UNCHANGED account
          \/ \E actor, x \in Users, role \in Roles, controls \in BOOLEAN :
               \/ CreateUser(actor, x, role, controls)
               \/ \E state \in {"ACTIVE", "INACTIVE"} :
                    UpdateUser(actor, x, role, controls, state)
          \/ \E actor, x \in Users : DeleteUser(actor, x)
      BY <2>8 DEF AccountsNext, CreateDelegation, RevokeDelegation,
             DelegationBegins, DelegationEnds
    <3> QED BY <2>4, <2>5, <2>6, <2>7, <3>1
  <2> QED BY <2>7, <2>8 DEF Next, vars
<1>3. GovernanceInv => AccountsTypeOK
  BY DEF GovernanceInv
<1> QED BY <1>1, <1>2, <1>3, InvariantHolds, PTL DEF Spec
=============================================================================
