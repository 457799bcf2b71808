------------------------------ MODULE Releases ------------------------------
(***************************************************************************)
(* Releases: an Administrator picks Approved revisions while a release is  *)
(* being built; publishing it makes all of them Released in one step.      *)
(* The candidate list, target versions and labels of a release decide      *)
(* nothing here and are left out, as is the webhook after a publication.   *)
(***************************************************************************)
EXTENDS ChangeRequests

CONSTANT ReleaseIds   \* the release ids that can ever be used

VARIABLE release      \* the tables `release` and `release_item`

Release == [status: {"NONE", "BUILDING", "PUBLISHED"}, items: SUBSET (Codes \X RevNo)]

ReleasesTypeOK == release \in [ReleaseIds -> Release]

ReleasesInit == release = [i \in ReleaseIds |-> [status |-> "NONE", items |-> {}]]

Status(p) == rev[p[1]][p[2]].status

\* The releases that hold the revision `p`.
Holders(p) == {i \in ReleaseIds : p \in release[i].items}

-----------------------------------------------------------------------------

CreateRelease(actor, i) ==
  /\ HasRole(actor, {"ADMINISTRATOR"})
  /\ release[i].status = "NONE"
  /\ release' = [release EXCEPT ![i].status = "BUILDING"]
  /\ UNCHANGED rev

\* A defect to test ReleasesAgree with: claims of other releases are ignored.
MayIncludeDefect(i, p) == code[p[1]].kind # "SANDBOX" /\ Status(p) = "APPROVED"

\* A revision may be in one release only (unique index), and never one of a
\* sandbox code.
MayInclude(i, p) ==
  /\ code[p[1]].kind # "SANDBOX"
  /\ Status(p) = "APPROVED"
  /\ Holders(p) \subseteq {i}

\* The items are replaced as a whole.
SetItems(actor, i, items) ==
  /\ HasRole(actor, {"ADMINISTRATOR"})
  /\ release[i].status = "BUILDING"
  /\ \A p \in items : MayInclude(i, p)
  /\ release' = [release EXCEPT ![i].items = items]
  /\ UNCHANGED rev

DeleteRelease(actor, i) ==
  /\ HasRole(actor, {"ADMINISTRATOR"})
  /\ release[i].status = "BUILDING"
  /\ release' = [release EXCEPT ![i] = [status |-> "NONE", items |-> {}]]
  /\ UNCHANGED rev

\* publish does not look at the status of its items; only the lifecycle guard
\* would refuse an item it cannot move to Released.
Publish(actor, i) ==
  /\ HasRole(actor, {"ADMINISTRATOR"})
  /\ release[i].status = "BUILDING"
  /\ release[i].items # {}
  /\ \A p \in release[i].items : Status(p) \in {"APPROVED", "RELEASED", "DEPRECATED"}
  /\ release' = [release EXCEPT ![i].status = "PUBLISHED"]
  /\ rev' = [c \in Codes |-> [n \in RevNo |->
               IF <<c, n>> \in release[i].items
               THEN [rev[c][n] EXCEPT !.status = "RELEASED"] ELSE rev[c][n]]]

ReleasesNext ==
  \E actor \in Users, i \in ReleaseIds :
    \/ CreateRelease(actor, i)
    \/ \E items \in SUBSET {p \in Codes \X RevNo : Status(p) = "APPROVED"} :
         SetItems(actor, i, items)
    \/ DeleteRelease(actor, i)
    \/ Publish(actor, i)
=============================================================================
