----------------------------- MODULE Governance -----------------------------
(***************************************************************************)
(* The whole of the governed catalogue: accounts and delegations, status   *)
(* codes with their change requests, and releases, changed by requests     *)
(* that each run in one transaction, in any order.                         *)
(***************************************************************************)
EXTENDS Releases

vars == <<account, delegations, code, rev, release>>

TypeOK ==
  /\ AccountsTypeOK
  /\ CatalogueTypeOK
  /\ ReleasesTypeOK

Init ==
  /\ AccountsInit
  /\ CatalogueInit
  /\ ReleasesInit

Next ==
  \/ AccountsNext /\ UNCHANGED <<code, rev, release>>
  \/ RequestsNext /\ UNCHANGED <<account, delegations, release>>
  \/ ReleasesNext /\ UNCHANGED <<account, delegations, code>>

Spec == Init /\ [][Next]_vars

-----------------------------------------------------------------------------
(* Decisions                                                               *)

Decided == {"APPROVED", "RELEASED", "DEPRECATED", "ARCHIVED"}

\* Who took part in a revision.
Parties(r) == {r.author, r.reviewer, r.admin, r.chief}

\* BR-004, BR-005: behind every decided revision stand four different people:
\* its author, both Review sign-offs and the Chief Engineer, however often it
\* was sent back and whoever covered for whom.
SegregationOfDuties ==
  \A c \in Codes, n \in RevNo :
    rev[c][n].status \in Decided =>
      Nobody \notin Parties(rev[c][n]) /\ Cardinality(Parties(rev[c][n])) = 4

\* BR-004: sign-offs stand only on the cycle they were given in.  A revision
\* back in Draft carries none, one in Review not both, one that waits for the
\* Chief Engineer carries both.
SignoffsOfThisCycle ==
  \A c \in Codes, n \in RevNo :
    LET r == rev[c][n] IN
    /\ r.status = "DRAFT" => r.reviewer = Nobody /\ r.admin = Nobody
    /\ r.status = "REVIEW" => r.reviewer = Nobody \/ r.admin = Nobody
    /\ r.status = "PENDING_APPROVAL" => r.reviewer # Nobody /\ r.admin # Nobody

\* What the lifecycle promises, in terms of the revisions and their parties.
Signed(r) ==
  {e \in {<<"AUTHOR", r.author>>, <<"REVIEWER", r.reviewer>>,
          <<"ADMIN", r.admin>>, <<"CHIEF", r.chief>>} : e[2] # Nobody}

Abstract == INSTANCE Lifecycle WITH
  People <- Users,
  status <- [c \in Codes |-> [n \in RevNo |-> rev[c][n].status]],
  signed <- [c \in Codes |-> [n \in RevNo |-> Signed(rev[c][n])]]

\* Every step of the services is a step of the lifecycle the handbook draws, or
\* leaves revisions and their parties alone (BR-003, BR-004, BR-005).
ImplementsLifecycle == Abstract!Spec

-----------------------------------------------------------------------------
(* Revisions and releases                                                  *)

\* BR-002, BR-003: the revisions of a code are numbered without a gap, exactly
\* the newest is current, and only the newest may be open - also after a
\* withdrawal gave the current flag back.
NewestIsCurrent ==
  \A c \in Codes, n \in RevNo :
    Exists(c, n) =>
      /\ \A m \in RevNo : m < n => Exists(c, m)
      /\ rev[c][n].current <=> \A m \in RevNo : m > n => ~Exists(c, m)
      /\ rev[c][n].status \in OpenStates => rev[c][n].current

\* BR-007: a release in the making holds Approved revisions, a published one
\* Released revisions, no revision is in two, and a revision that was not
\* reinstated is Released only as part of a published release (BR-004).
ReleasesAgree ==
  /\ \A i \in ReleaseIds : \A p \in release[i].items :
       /\ Status(p) = IF release[i].status = "PUBLISHED" THEN "RELEASED" ELSE "APPROVED"
       /\ Holders(p) = {i}
  /\ \A c \in Codes, n \in RevNo :
       rev[c][n].status = "RELEASED" /\ ~rev[c][n].deprecation =>
         \E i \in Holders(<<c, n>>) : release[i].status = "PUBLISHED"

\* BR-007: what was decided stays: no step deletes a decided revision, reopens
\* it or changes who decided, and no step touches a published release.
DecisionsStand ==
  [][/\ \A c \in Codes, n \in RevNo :
          rev[c][n].status \in Decided =>
            /\ rev'[c][n].status \in Decided
            /\ Signed(rev'[c][n]) = Signed(rev[c][n])
     /\ \A i \in ReleaseIds :
          release[i].status = "PUBLISHED" => release'[i] = release[i]]_vars

\* BR-004 as it is written: a revision is Released only as a member of a
\* published release.
ReleasedOnlyByPublishing ==
  \A c \in Codes, n \in RevNo :
    rev[c][n].status = "RELEASED" =>
      \E i \in Holders(<<c, n>>) : release[i].status = "PUBLISHED"

-----------------------------------------------------------------------------
(* Numbers                                                                 *)

\* BR-001, BR-023: a number is one code's, lies in its band, and a number that
\* an import reserved is never another code's.
NumbersAgree ==
  \A c, d \in Codes :
    /\ code[c].kind = "REAL" /\ code[c].number # NoNumber =>
         /\ code[c].number \in NumbersOf(code[c].band)
         /\ code[c].reserved \in {NoNumber, code[c].number}
    /\ c # d /\ code[c].number # NoNumber =>
         ~ /\ code[d].kind = code[c].kind
           /\ code[c].number \in {code[d].number, code[d].reserved}

\* BR-001: nothing enters review without a number, and a code keeps its number
\* as long as it has a revision or could get one back: only erasing it as an
\* empty shell takes the number away.
IdentityIsFixed ==
  [][\A c \in Codes :
       /\ (\E n \in RevNo : rev'[c][n].status \notin {"NONE", "DRAFT"}) =>
            code'[c].number # NoNumber
       /\ code[c].kind = "REAL" /\ code[c].number # NoNumber =>
            \/ code'[c].number = code[c].number
            \/ code'[c].deleted /\ ~HasRevision(c)]_vars

\* BR-026: a code is marked withdrawn exactly while it is an empty shell, so the
\* list of shells is complete and a code in use is never erased.
ShellsAreMarked ==
  \A c \in Codes :
    code[c].kind = "REAL" => (code[c].withdrawn <=> ~HasRevision(c))

\* BR-026: an empty shell that holds a number can be deleted by an
\* Administrator.
ShellsCanBeDeleted ==
  \A c \in Codes :
    /\ code[c].kind = "REAL" /\ ~HasRevision(c) /\ code[c].number # NoNumber
    => MayErase(c)

-----------------------------------------------------------------------------
(* People                                                                  *)

\* BR-024, BR-025: no order of role changes, deactivations and deletions leaves
\* the installation without an active Administrator.
SomeAdministrator == \E u \in Users : HasRole(u, {"ADMINISTRATOR"})

\* BR-017: whoever may decide in a role holds it, or covers for an active person
\* who holds it.
AuthorityIsHeld ==
  \A u \in Users, role \in DelegableRoles :
    MayDecideAs(u, role) =>
      \/ HasRole(u, {role})
      \/ \E d \in ActiveDelegations(u) : HasRole(d.delegator, {role})

\* BR-017: while a Reviewer's delegation is active the delegate, unless
\* disqualified in person, may give the sign-off assigned to that Reviewer.
DelegateMayReview ==
  \A d \in delegations, c \in Codes, n \in RevNo :
    LET r == rev[c][n] IN
    /\ d \in ActiveDelegations(d.delegate) /\ d.role = "REVIEWER"
    /\ SignedIn(d.delegate)
    /\ IsRequest(c, n) /\ r.status = "REVIEW" /\ r.assigned = d.delegator
    /\ d.delegate \notin {r.author, r.admin}
    => ReviewerMayDecide(d.delegate, c, n)
=============================================================================
