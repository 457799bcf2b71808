------------------------------- MODULE Versions -------------------------------
(***************************************************************************)
(* Controller software versions: the ordered vocabulary, the range of      *)
(* every revision, the targets of a Release and the applicability matrix   *)
(* (software_version_service.py, release_service.py, status_code_service   *)
(* .py).  A range and the targets point at vocabulary rows whose order and *)
(* state an Administrator may change at any later time                     *)
(* (lookup_admin_service.py), and a Release with targets is made in two    *)
(* transactions.                                                           *)
(*                                                                         *)
(* The review of a revision (ChangeRequests) is one step here.             *)
(***************************************************************************)
EXTENDS Naturals, Sequences, FiniteSets, SequencesExt

CONSTANTS
  VersionIds,
  Codes,
  ReleaseIds,
  Orders,        \* bound: values of sort_order
  MaxRevisions,  \* bound: revisions of a code
  MaxChanges,    \* bound: changes of the vocabulary
  Open           \* an end of a range that is open

\* What the constants are; assumed by the module that gives them values.
OpenAssumption ==
  /\ Open \notin VersionIds /\ Orders \subseteq Nat /\ MaxRevisions \in Nat

VARIABLES
  version,   \* version -> is_active, sort_order
  revision,  \* code -> its revisions: first, last, lifecycle state
  release,   \* Release -> status, targets, items, and the targets still to be set by create
  changes
vars == <<version, revision, release, changes>>

Unmade == [status |-> "none", targets |-> {}, items |-> {}, asked |-> {}]

Init ==
  /\ version \in [VersionIds -> [active : {TRUE}, order : Orders]]
  /\ revision = [c \in Codes |-> <<>>]
  /\ release = [r \in ReleaseIds |-> Unmade]
  /\ changes = 0

Revisions == {v \in Codes \X (1 .. MaxRevisions) : v[2] <= Len(revision[v[1]])}
At(v) == revision[v[1]][v[2]]
Active == {v \in VersionIds : version[v].active}

\* A defect to test SavedRangesHold with: the end of a range does not belong to it.
appliesDefect(rev, v) ==
  /\ rev.first = Open \/ version[v].order >= version[rev.first].order
  /\ rev.last = Open \/ version[v].order < version[rev.last].order

applies(rev, v) ==
  /\ rev.first = Open \/ version[v].order >= version[rev.first].order
  /\ rev.last = Open \/ version[v].order <= version[rev.last].order

----------------------------------------------------------------------------
(* update_value of the vocabulary: neither ranges nor targets are looked at. *)
update_value(v) ==
  /\ changes < MaxChanges
  /\ changes' = changes + 1
  /\ \E active \in BOOLEAN, order \in Orders :
       version' = [version EXCEPT ![v] = [active |-> active, order |-> order]]
  /\ UNCHANGED <<revision, release>>

check_version_order(first, last) ==
  Open \in {first, last} \/ version[first].order <= version[last].order

(* A Draft, for a new code or for a Released one, saved with its range. *)
save_revision(c) ==
  /\ Len(revision[c]) < MaxRevisions
  /\ \A n \in 1 .. Len(revision[c]) : revision[c][n].state = "RELEASED"
  /\ LET Ends == Active \union {Open} IN
     \E range \in {e \in Ends \X Ends : check_version_order(e[1], e[2])} :
       revision' = [revision EXCEPT
         ![c] = Append(@, [first |-> range[1], last |-> range[2], state |-> "APPROVED"])]
  /\ UNCHANGED <<version, release, changes>>

----------------------------------------------------------------------------
(* The first transaction of create; the targets are set by a second one. *)
create(r) ==
  /\ release[r].status = "none"
  /\ \E targets \in SUBSET VersionIds :
       release' = [release EXCEPT ![r] = [Unmade EXCEPT !.status = "BUILDING", !.asked = targets]]
  /\ UNCHANGED <<version, revision, changes>>

\* A defect to test TargetsStand with: a published Release may be given targets.
SetTargetsDefect(r, targets) ==
  /\ release[r].status # "none" /\ targets \subseteq Active
  /\ release' = [release EXCEPT ![r].targets = targets, ![r].asked = {}]

SetTargets(r, targets) ==
  /\ release[r].status = "BUILDING" /\ targets \subseteq Active
  /\ release' = [release EXCEPT ![r].targets = targets, ![r].asked = {}]

set_target_versions(r) ==
  /\ release[r].asked = {}
  /\ \E targets \in SUBSET VersionIds : SetTargets(r, targets)
  /\ UNCHANGED <<version, revision, changes>>

FinishCreate(r) ==
  /\ release[r].asked # {}
  /\ SetTargets(r, release[r].asked)
  /\ UNCHANGED <<version, revision, changes>>

(* An inactive version, or the Release was published in between: the caller gets an error *)
(* and the Release is there.                                                              *)
CreateFails(r) ==
  /\ release[r].asked # {}
  /\ release[r].status = "PUBLISHED" \/ ~(release[r].asked \subseteq Active)
  /\ release' = [release EXCEPT ![r].asked = {}]
  /\ UNCHANGED <<version, revision, changes>>

Claimed(r) == UNION {release[q].items : q \in ReleaseIds \ {r}}

\* A defect to test VersionsTypeOK with: what another Release holds may be taken.
set_itemsDefect(r) ==
  /\ release[r].status = "BUILDING"
  /\ \E items \in SUBSET {v \in Revisions : At(v).state = "APPROVED"} :
       release' = [release EXCEPT ![r].items = items]
  /\ UNCHANGED <<version, revision, changes>>

(* Approved revisions, each in one Release at most (unique); whether they apply to the targets *)
(* is looked at when the candidates are listed only.                                           *)
set_items(r) ==
  /\ release[r].status = "BUILDING"
  /\ \E items \in SUBSET ({v \in Revisions : At(v).state = "APPROVED"} \ Claimed(r)) :
       release' = [release EXCEPT ![r].items = items]
  /\ UNCHANGED <<version, revision, changes>>

publish(r) ==
  /\ release[r].status = "BUILDING" /\ release[r].items # {}
  /\ release' = [release EXCEPT ![r].status = "PUBLISHED"]
  /\ revision' = [c \in Codes |-> [n \in 1 .. Len(revision[c]) |->
                    IF <<c, n>> \in release[r].items
                    THEN [revision[c][n] EXCEPT !.state = "RELEASED"] ELSE revision[c][n]]]
  /\ UNCHANGED <<version, changes>>

(* The rows of the targets are not removed, so the database refuses a Release that has some. *)
delete(r) ==
  /\ release[r].status = "BUILDING" /\ release[r].targets = {}
  /\ release' = [release EXCEPT ![r] = Unmade]
  /\ UNCHANGED <<version, revision, changes>>

Next ==
  \/ \E v \in VersionIds : update_value(v)
  \/ \E c \in Codes : save_revision(c)
  \/ \E r \in ReleaseIds : \/ create(r) \/ FinishCreate(r) \/ CreateFails(r)
                           \/ set_target_versions(r) \/ set_items(r) \/ publish(r) \/ delete(r)

Spec == Init /\ [][Next]_vars

----------------------------------------------------------------------------
(* The applicability matrix, from the latest Released revision of every code. *)
list_latest_released ==
  {v \in Revisions : /\ At(v).state = "RELEASED"
                     /\ \A w \in Revisions : (w[1] = v[1] /\ At(w).state = "RELEASED") => w[2] <= v[2]}

matrix(v) == {w \in list_latest_released : applies(At(w), v)}

CodesOf(revs) == {w[1] : w \in revs}
changes_between(a, b) ==
  [added |-> CodesOf(matrix(b)) \ CodesOf(matrix(a)),
   removed |-> CodesOf(matrix(a)) \ CodesOf(matrix(b)),
   changed |-> {c \in CodesOf(matrix(a)) \cap CodesOf(matrix(b)) :
                  \E x \in matrix(a), y \in matrix(b) : x[1] = c /\ y[1] = c /\ x # y}]

(* The revision of a code that is published for a version: the last one that applies. *)
PublishedFor(c, v) ==
  LET fit == {n \in 1 .. Len(revision[c]) : revision[c][n].state = "RELEASED" /\ applies(revision[c][n], v)}
  IN  {n \in fit : \A m \in fit : m <= n}

----------------------------------------------------------------------------
VersionsTypeOK ==
  /\ version \in [VersionIds -> [active : BOOLEAN, order : Orders]]
  /\ \A v \in Revisions : {At(v).first, At(v).last} \subseteq VersionIds \union {Open}
  /\ \A r \in ReleaseIds :
       /\ release[r].targets \subseteq VersionIds
       /\ release[r].items \subseteq Revisions
       /\ \A q \in ReleaseIds \ {r} : release[r].items \cap release[q].items = {}

(* "The target versions of a published Release are immutable like its items" (BR-021,       *)
(* set_target_versions, set_items, delete), whatever the vocabulary becomes.                *)
TargetsStand ==
  [][\A r \in ReleaseIds : release[r].status = "PUBLISHED" =>
       /\ release'[r].status = "PUBLISHED"
       /\ release'[r].targets = release[r].targets /\ release'[r].items = release[r].items]_vars

(* As long as the order of the versions stands, a code applies to the ends of the range that *)
(* was saved for it (check_version_order before applies).                                    *)
SavedRangesHold ==
  changes = 0 =>
    \A w \in Revisions, v \in VersionIds :
      v \in {At(w).first, At(w).last} => applies(At(w), v)

(* "'Applies to' must not be older than 'applies from'" (status_code_service.py:1088).        *)
(* Violated by a new order of the vocabulary: the ranges that were saved are not looked at.    *)
RangesStayOrdered ==
  \A w \in Revisions :
    Open \in {At(w).first, At(w).last} \/ version[At(w).first].order <= version[At(w).last].order

(* An Administrator may delete a Release before it is published (BR-008).  Violated: the       *)
(* targets of a Release stand in the way.                                                      *)
UnpublishedCanBeDeleted ==
  \A r \in ReleaseIds :
    release[r].status = "BUILDING" => ENABLED delete(r)

(* "Codes added, removed and changed when moving from one version to another"                 *)
(* (software_version_service.py:70).  Violated: no code is ever reported as changed.           *)
ChangesAreTold ==
  \A c \in Codes, a, b \in VersionIds :
    \A n \in PublishedFor(c, a), m \in PublishedFor(c, b) :
      n # m => c \in changes_between(a, b).changed
=============================================================================
