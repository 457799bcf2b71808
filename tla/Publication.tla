----------------------------- MODULE Publication ------------------------------
(***************************************************************************)
(* What leaves the system: the complete baseline and the release notes of  *)
(* a Release, the export of everything released, and the change feed a     *)
(* consumer polls (baseline_service.py, release_notes_service.py,          *)
(* status_code_repository.list_latest_released, integration_service.py).   *)
(* All of it is derived on request from the revisions, the Releases and    *)
(* the audit log, so a later change may alter what was handed out before.  *)
(*                                                                         *)
(* The governance of a revision (modules ChangeRequests and Releases) is   *)
(* one step here: a revision is approved, or approved as a deprecation.    *)
(* Every transaction holds the write lock, so the ids of the audit log     *)
(* order the transactions and serve as the clock.                          *)
(***************************************************************************)
EXTENDS Naturals, Sequences, FiniteSets, FiniteSetsExt, SequencesExt

CONSTANTS
  Codes,
  ReleaseIds,
  MaxRevisions, \* bound: revisions of a code
  MaxAudit,     \* bound: entries of the audit log
  Limit         \* page size of the feed

\* What the constants are; assumed by the module that gives them values.
LimitAssumption ==
  Limit \in Nat \ {0} /\ IsFiniteSet(Codes) /\ MaxRevisions \in Nat

VARIABLES
  life,     \* code -> the lifecycle states of its decided revisions, by number
  release,  \* Release -> status, published_at, items
  audit,    \* the audit entries about revisions: action and revision
  poller    \* the consumer of the feed: cursor, ETag, the ids it received
vars == <<life, release, audit, poller>>

Revisions == {v \in Codes \X (1 .. MaxRevisions) : v[2] <= Len(life[v[1]])}
Life(v) == life[v[1]][v[2]]
Published == {r \in ReleaseIds : release[r].status = "PUBLISHED"}

Init ==
  /\ life = [c \in Codes |-> <<>>]
  /\ release = [r \in ReleaseIds |-> [status |-> "BUILDING", at |-> 0, items |-> {}]]
  /\ audit = <<>>
  /\ poller = [since |-> 0, etag |-> <<>>, got |-> <<>>]

LogAll(action, revisions) ==
  /\ Len(audit) + Cardinality(revisions) <= MaxAudit
  /\ audit' = audit \o [i \in 1..Cardinality(revisions) |->
                          [action |-> action, revision |-> SetToSeq(revisions)[i]]]

----------------------------------------------------------------------------
(* The steps of the governance that matter to readers. *)

Approve(c) ==
  /\ Len(life[c]) < MaxRevisions
  /\ life' = [life EXCEPT ![c] = Append(@, "APPROVED")]
  /\ UNCHANGED <<release, audit, poller>>

Deprecate(c) ==
  /\ 0 < Len(life[c]) /\ Len(life[c]) < MaxRevisions /\ Last(life[c]) = "RELEASED"
  /\ life' = [life EXCEPT ![c] = Append(@, "DEPRECATED")]
  /\ LogAll("DEPRECATE", {<<c, Len(life[c]) + 1>>})
  /\ UNCHANGED <<release, poller>>

(* archive and reinstate act on the current revision, which is the last one. *)
EndDeprecation(c, action, state) ==
  /\ life[c] # <<>> /\ Last(life[c]) = "DEPRECATED"
  /\ life' = [life EXCEPT ![c][Len(life[c])] = state]
  /\ LogAll(action, {<<c, Len(life[c])>>})
  /\ UNCHANGED <<release, poller>>

archive(c) == EndDeprecation(c, "ARCHIVE", "ARCHIVED")
reinstate(c) == EndDeprecation(c, "REINSTATE", "RELEASED")

(* A revision is an item of one Release at most. *)
set_items(r) ==
  /\ release[r].status = "BUILDING"
  /\ \E items \in SUBSET {v \in Revisions : Life(v) = "APPROVED"} :
       /\ \A other \in ReleaseIds \ {r} : items \cap release[other].items = {}
       /\ release' = [release EXCEPT ![r].items = items]
  /\ UNCHANGED <<life, audit, poller>>

publish(r) ==
  /\ release[r].status = "BUILDING" /\ release[r].items # {}
  /\ LogAll("RELEASE_PUBLISH", release[r].items)
  /\ life' = [c \in Codes |-> [n \in 1..Len(life[c]) |->
                IF <<c, n>> \in release[r].items THEN "RELEASED" ELSE life[c][n]]]
  /\ release' = [release EXCEPT ![r].status = "PUBLISHED", ![r].at = Len(audit) + 1]
  /\ UNCHANGED poller

----------------------------------------------------------------------------
(* Documents. *)

\* A defect to test BaselinesStand with: every published Release counts.
MembersDefect(r) == Published \cup {r}

(* The Releases whose items make up the baseline of r. *)
Members(r) ==
  IF r \in Published THEN {p \in Published : release[p].at <= release[r].at}
  ELSE Published \cup {r}

Baseline(r) ==
  LET carried == UNION {release[p].items : p \in Members(r)} IN
  {v \in carried : \A w \in carried : w[1] = v[1] => w[2] <= v[2]}

\* A defect to test NotesStand with: the last other Release is the previous one.
previous_releaseDefect(r) ==
  LET earlier == Published \ {r}
  IN {p \in earlier : \A q \in earlier : release[q].at <= release[p].at}

(* At most one: the last Release published before r (before now, if r is not). *)
previous_release(r) ==
  LET earlier == {p \in Published : r \in Published => release[p].at < release[r].at} \ {r}
  IN {p \in earlier : \A q \in earlier : release[q].at <= release[p].at}

baseline_for(v) ==
  {n \in 1..(v[2] - 1) : life[v[1]][n] \in {"APPROVED", "RELEASED", "DEPRECATED", "ARCHIVED"}}

Added(r) == {v \in release[r].items : baseline_for(v) = {}}

\* A defect to test DeprecationsAreToldOnce with: everything deprecated so far.
DeprecatedDefect(r) ==
  {i \in 1..Len(audit) :
     audit[i].action = "DEPRECATE" /\ (r \in Published => i <= release[r].at)}

Deprecated(r) ==
  {i \in 1..Len(audit) :
     /\ audit[i].action = "DEPRECATE"
     /\ \A p \in previous_release(r) : i > release[p].at
     /\ r \in Published => i <= release[r].at}

Notes(r) ==
  [previous |-> previous_release(r), added |-> Added(r),
   changed |-> release[r].items \ Added(r), deprecated |-> Deprecated(r)]

(* The export of "everything currently released": per code the highest released revision. *)
list_latest_released ==
  LET released == {v \in Revisions : Life(v) = "RELEASED"} IN
  {v \in released : \A w \in released : w[1] = v[1] => w[2] <= v[2]}

----------------------------------------------------------------------------
(* The change feed. *)

\* A defect to test PublicationTypeOK with: the cursor moves on by the size of a page.
PageDefect(since) ==
  LET ids == SubSeq([i \in 1..Len(audit) |-> i], since + 1, Len(audit))
  IN [items |-> SubSeq(ids, 1, Min({Len(ids), Limit})), more |-> Len(ids) > Limit,
      next |-> since + Limit]

(* A page: the ids after the cursor, one more than the limit to see whether there are more. *)
Page(since) ==
  LET ids == SubSeq([i \in 1..Len(audit) |-> i], since + 1, Len(audit))
      items == SubSeq(ids, 1, Min({Len(ids), Limit}))
  IN [items |-> items, more |-> Len(ids) > Limit,
      next |-> IF items = <<>> THEN since ELSE Last(items)]

\* A defect to test FeedIsComplete with: the ETag does not name the cursor.
ETagDefect(page) == <<Len(page.items), page.more>>

ETag(page) == <<page.next, Len(page.items), page.more>>

(* The consumer asks with its cursor and the ETag of the response before, and moves the *)
(* cursor to the end of the page. *)
Poll ==
  LET page == Page(poller.since) IN
  /\ poller' = IF ETag(page) = poller.etag
               THEN poller
               ELSE [since |-> page.next, etag |-> ETag(page), got |-> poller.got \o page.items]
  /\ UNCHANGED <<life, release, audit>>

Next ==
  \/ \E c \in Codes : Approve(c) \/ Deprecate(c) \/ archive(c) \/ reinstate(c)
  \/ \E r \in ReleaseIds : set_items(r) \/ publish(r)
  \/ Poll

Spec == Init /\ [][Next]_vars

(* A consumer that keeps polling. *)
FairSpec == Spec /\ WF_vars(Poll)

----------------------------------------------------------------------------
(* Every variable has its type. *)
PublicationTypeOK ==
  /\ \A v \in Revisions : Life(v) \in {"APPROVED", "RELEASED", "DEPRECATED", "ARCHIVED"}
  /\ \A r \in ReleaseIds :
       /\ release[r].status \in {"BUILDING", "PUBLISHED"}
       /\ release[r].items \subseteq Revisions
       /\ (release[r].at = 0) = (r \notin Published)
  /\ \A i \in 1..Len(audit) : audit[i].revision \in Revisions
  /\ poller.since \in 0..Len(audit)

(* "The baseline of a published Release never changes" (FR-173), whatever is approved,  *)
(* published, deprecated and archived after it.                                          *)
BaselinesStand ==
  [][\A r \in Published : Baseline(r)' = Baseline(r)]_vars

(* The release notes of a published Release, built again at any later time, name the same *)
(* previous Release and the same codes.                                                   *)
NotesStand ==
  [][\A r \in Published : Notes(r)' = Notes(r)]_vars

(* Once a Release is published, every deprecation before it is in the notes of exactly one *)
(* published Release.                                                                      *)
DeprecationsAreToldOnce ==
  \A i \in 1..Len(audit) :
    audit[i].action = "DEPRECATE" /\ (\E r \in Published : i <= release[r].at) =>
      Cardinality({r \in Published : i \in Deprecated(r)}) = 1

FeedIsInOrder == \A i \in 1..Len(poller.got) : poller.got[i] = i

(* A consumer that keeps polling with the cursor and the ETag of its last response receives *)
(* every entry of the feed, in order and once, over any number of pages (FR-145).           *)
FeedIsComplete == []FeedIsInOrder /\ \A i \in 1..MaxAudit : Len(audit) >= i ~> Len(poller.got) >= i

(* "the current set of all Released status codes" (status_code_repository.py:213) holds no   *)
(* code that is deprecated or archived.  Violated: a deprecation is a revision of its own,     *)
(* and the released revision before it keeps its state.                                        *)
ReleasedAreNotDeprecated ==
  \A v \in list_latest_released : Last(life[v[1]]) \notin {"DEPRECATED", "ARCHIVED"}

(* A baseline holds "every status code that is valid as of that Release"                      *)
(* (baseline_service.py:1): none that was deprecated when the Release was published.           *)
(* Violated: only published revisions are looked at, and a deprecation is never in a Release.  *)
BaselineIsValid ==
  [][\A r \in ReleaseIds : publish(r) =>
       \A v \in Baseline(r)' : Last(life'[v[1]]) \notin {"DEPRECATED", "ARCHIVED"}]_vars

(* Release notes tell "what a Release added, changed and deprecated compared with the         *)
(* previous published Release" (release_notes_service.py:1).  Violated: an earlier revision    *)
(* that was approved and never published makes a code that is new to the readers a changed     *)
(* one.                                                                                        *)
AddedAreNew ==
  \A r \in Published, p \in Published :
    p \in previous_release(r) =>
      \A v \in Notes(r).changed : \E w \in Baseline(p) : w[1] = v[1]
=============================================================================
