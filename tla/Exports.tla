-------------------------------- MODULE Exports --------------------------------
(***************************************************************************)
(* Files taken out of the system: the export of everything released, of a  *)
(* Release, of the working set, and the offline page (export_service.py,   *)
(* audience_service.py, export_profile_service.py).  What a file holds is  *)
(* decided by the role, by the options of the request, by the profile an   *)
(* Administrator may change at any time, and by the two sign-offs: only    *)
(* the one of an Administrator confirms the access values of a revision.   *)
(*                                                                         *)
(* One audience and one language besides the source stand for all; a code  *)
(* of Linked is linked to the platform that may be asked for.  Which       *)
(* access values the vocabulary shows to the audience is taken as fixed.   *)
(***************************************************************************)
EXTENDS Naturals, Sequences, FiniteSets, FiniteSetsExt

CONSTANTS
  Codes,
  Linked,       \* the codes linked to the platform
  MaxRevisions, \* bound: revisions of a code
  MaxTotal,     \* bound: revisions altogether
  MaxReleases   \* bound: published Releases

\* What the constants are; assumed by the module that gives them values.
LinkedAssumption == Linked \subseteq Codes

VARIABLES
  revision,   \* code -> its revisions: lifecycle state, reviewer's sign-off, access value
  confirmed,  \* revisions with admin_signoff_at
  translated, \* revisions with an approved translation
  published,  \* the items of the published Releases, in order
  building,   \* the items of the unpublished Release
  file        \* a file that was taken, until it is out of sight, and its manifest
vars == <<revision, confirmed, translated, published, building, file>>

Revisions == {v \in Codes \X (1 .. MaxRevisions) : v[2] <= Len(revision[v[1]])}
State(v) == revision[v[1]][v[2]].state
InState(S) == {v \in Revisions : State(v) \in S}
Latest(R) == {v \in R : \A w \in R : w[1] = v[1] => w[2] <= v[2]}

NoFile == [kind |-> "none", inside |-> TRUE, rows |-> {}, left |-> {}, notice |-> FALSE,
           audience |-> FALSE, language |-> FALSE, strict |-> FALSE, marked |-> TRUE,
           asked |-> {}, scope |-> {}]

Init ==
  /\ revision = [c \in Codes |-> <<>>]
  /\ confirmed = {} /\ translated = {}
  /\ published = <<>> /\ building = {}
  /\ file = NoFile

----------------------------------------------------------------------------
(* The workflow, as far as a file can tell.  An Engineer proposes that the *)
(* audience sees the code; the Administrator may decide otherwise.         *)

draft(c) ==
  /\ Len(revision[c]) < MaxRevisions /\ Cardinality(Revisions) < MaxTotal
  /\ \A n \in 1 .. Len(revision[c]) : revision[c][n].state = "RELEASED"
  /\ revision' = [revision EXCEPT
       ![c] = Append(@, [state |-> "DRAFT", signed |-> FALSE, access |-> "visible"])]
  /\ UNCHANGED <<confirmed, translated, published, building, file>>

submit(v) ==
  /\ State(v) = "DRAFT"
  /\ revision' = [revision EXCEPT ![v[1]][v[2]].state = "REVIEW"]
  /\ UNCHANGED <<confirmed, translated, published, building, file>>

(* The Administrator confirms the access values and may override them. *)
sign_admin(v) ==
  /\ State(v) = "REVIEW" /\ v \notin confirmed
  /\ confirmed' = confirmed \union {v}
  /\ \E access \in {"visible", "hidden"} :
       revision' = [revision EXCEPT
         ![v[1]][v[2]].access = access,
         ![v[1]][v[2]].state = IF revision[v[1]][v[2]].signed THEN "PENDING" ELSE "REVIEW"]
  /\ UNCHANGED <<translated, published, building, file>>

sign_review(v) ==
  /\ State(v) = "REVIEW" /\ ~revision[v[1]][v[2]].signed
  /\ revision' = [revision EXCEPT
       ![v[1]][v[2]].signed = TRUE,
       ![v[1]][v[2]].state = IF v \in confirmed THEN "PENDING" ELSE "REVIEW"]
  /\ UNCHANGED <<confirmed, translated, published, building, file>>

chief_engineer_approve(v) ==
  /\ State(v) = "PENDING"
  /\ revision' = [revision EXCEPT ![v[1]][v[2]].state = "APPROVED"]
  /\ UNCHANGED <<confirmed, translated, published, building, file>>

(* Any of the three may reject; both sign-offs go. *)
clear_review_signoffs(v) ==
  /\ State(v) \in {"REVIEW", "PENDING"}
  /\ revision' = [revision EXCEPT ![v[1]][v[2]].signed = FALSE, ![v[1]][v[2]].state = "DRAFT"]
  /\ confirmed' = confirmed \ {v}
  /\ UNCHANGED <<translated, published, building, file>>

(* A translation is approved; saved anew it is a draft again. *)
approve_translation(v) ==
  /\ v \in InState({"APPROVED", "RELEASED"}) \ translated
  /\ translated' = translated \union {v}
  /\ UNCHANGED <<revision, confirmed, published, building, file>>

save_translation(v) ==
  /\ v \in translated
  /\ translated' = translated \ {v}
  /\ UNCHANGED <<revision, confirmed, published, building, file>>

\* A defect to test ExportsTypeOK with: a revision awaiting the Chief Engineer is accepted.
set_itemsDefect ==
  /\ \E items \in SUBSET InState({"PENDING", "APPROVED"}) :
       /\ items # building
       /\ building' = items
  /\ UNCHANGED <<revision, confirmed, translated, published, file>>

set_items ==
  /\ \E items \in SUBSET InState({"APPROVED"}) :
       /\ items # building
       /\ building' = items
  /\ UNCHANGED <<revision, confirmed, translated, published, file>>

publish ==
  /\ building # {} /\ Len(published) < MaxReleases
  /\ revision' = [c \in Codes |-> [n \in DOMAIN revision[c] |->
       IF <<c, n>> \in building THEN [revision[c][n] EXCEPT !.state = "RELEASED"]
       ELSE revision[c][n]]]
  /\ published' = Append(published, building)
  /\ building' = {}
  /\ UNCHANGED <<confirmed, translated, file>>

----------------------------------------------------------------------------
(* What a request asks for.  delta leaves only the items of a Release.  An *)
(* Administrator may change the profiles at any time, so a request meets   *)
(* any: a default audience, a default language, and whether its columns    *)
(* have content_language.  No profile means no default, and the mark; a    *)
(* default that the request overrides, and strict without a language, say  *)
(* nothing and are left out.                                               *)

Profiles == [audience : BOOLEAN, language : BOOLEAN, marks : BOOLEAN]

Options ==
  {o \in [profile : Profiles, audience : BOOLEAN, language : BOOLEAN, strict : BOOLEAN,
           platform : BOOLEAN, delta : BOOLEAN] :
     /\ o.audience => ~o.profile.audience
     /\ o.language => ~o.profile.language
     /\ o.strict => o.language \/ o.profile.language}

\* A defect to test CompleteUnlessNamed with: the items of the Releases before are left out.
baselineDefect(r) ==
  IF r = 0 THEN building ELSE published[r]

(* r = 0 is the Release that is not yet published. *)
baseline(r) ==
  Latest(IF r = 0 THEN building \union UNION {published[i] : i \in DOMAIN published}
         ELSE UNION {published[i] : i \in 1 .. r})

release_revisions(r, o) ==
  IF ~o.delta THEN baseline(r) ELSE IF r = 0 THEN building ELSE published[r]

released_revisions == Latest(InState({"RELEASED"}))

working_set_revisions == Latest(Revisions)

\* A defect to test AudienceSeesConfirmed with: a proposed value counts.
is_visibleDefect(v) == revision[v[1]][v[2]].access = "visible"

is_visible(v) == v \in confirmed /\ revision[v[1]][v[2]].access = "visible"

(* The default of the profile applies where the request names none. *)
Audience(o) == o.audience \/ o.profile.audience
Language(o) == o.language \/ o.profile.language

(* The platform and the audience, before the language. *)
Narrowed(revs, o) ==
  {v \in revs : (o.platform => v[1] \in Linked) /\ (Audience(o) => is_visible(v))}

prepare(revs, o) ==
  {v \in Narrowed(revs, o) : Language(o) /\ o.strict => v \in translated}

(* The title page, the rows and the job; the manifest's scope is what the  *)
(* caller hands over.                                                      *)
HandOut(kind, inside, revs, o, notice, scope) ==
  file' = [kind |-> kind, inside |-> inside, rows |-> prepare(revs, o),
           left |-> Narrowed(revs, o) \ prepare(revs, o),
           notice |-> notice, audience |-> Audience(o), language |-> Language(o),
           strict |-> o.strict, marked |-> o.profile.marks,
           asked |-> {f \in {"platform", "delta"} : o[f]},
           scope |-> scope]

export_released ==
  /\ file = NoFile
  /\ \E inside \in BOOLEAN, o \in {x \in Options : ~x.delta} :
       HandOut("released", inside, released_revisions, o, FALSE, {})
  /\ UNCHANGED <<revision, confirmed, translated, published, building>>

\* A defect to test UnreleasedStaysInside with: the state of the Release is not looked at.
require_released_or_ownerDefect(r, inside) == TRUE

require_released_or_owner(r, inside) == r = 0 => inside

export_release ==
  /\ file = NoFile
  /\ \E r \in 0 .. Len(published), inside \in BOOLEAN, o \in Options :
       /\ require_released_or_owner(r, inside)
       /\ HandOut("release", inside, release_revisions(r, o), o, FALSE,
                  {f \in {"platform", "delta"} : o[f]})
  /\ UNCHANGED <<revision, confirmed, translated, published, building>>

\* A defect to test UnapprovedIsLabelled with: the notice is an option.
export_working_setDefect ==
  /\ file = NoFile
  /\ \E o \in {x \in Options : ~x.audience /\ ~x.delta}, notice \in BOOLEAN :
       HandOut("working set", TRUE, working_set_revisions, o, notice, {})
  /\ UNCHANGED <<revision, confirmed, translated, published, building>>

(* The StCd Owner and the Administrator; an audience option is refused.    *)
export_working_set ==
  /\ file = NoFile
  /\ \E o \in {x \in Options : ~x.audience /\ ~x.delta} :
       HandOut("working set", TRUE, working_set_revisions, o, TRUE, {})
  /\ UNCHANGED <<revision, confirmed, translated, published, building>>

(* The page has its own columns, so the rows keep the mark of the language: *)
(* of a profile only the defaults count.                                    *)
export_offline_bundle ==
  /\ file = NoFile
  /\ \E r \in 1 .. Len(published), inside \in BOOLEAN, o \in {x \in Options : x.profile.marks} :
       HandOut("offline", inside, release_revisions(r, o), o, FALSE, {})
  /\ UNCHANGED <<revision, confirmed, translated, published, building>>

(* The next file is looked at; nothing in the system changes. *)
OutOfSight ==
  /\ file # NoFile /\ file' = NoFile
  /\ UNCHANGED <<revision, confirmed, translated, published, building>>

----------------------------------------------------------------------------
Next ==
  \/ \E c \in Codes : draft(c)
  \/ \E v \in Revisions :
       \/ submit(v) \/ sign_admin(v) \/ sign_review(v) \/ chief_engineer_approve(v) \/ clear_review_signoffs(v)
       \/ approve_translation(v) \/ save_translation(v)
  \/ set_items \/ publish
  \/ export_released \/ export_release \/ export_working_set \/ export_offline_bundle
  \/ OutOfSight

Spec == Init /\ [][Next]_vars

----------------------------------------------------------------------------
(* The variables keep their shape. *)
ExportsTypeOK ==
  /\ \A c \in Codes : revision[c] \in Seq([
       state : {"DRAFT", "REVIEW", "PENDING", "APPROVED", "RELEASED"}, signed : BOOLEAN,
       access : {"visible", "hidden"}])
  /\ confirmed \subseteq Revisions /\ translated \subseteq InState({"APPROVED", "RELEASED"})
  /\ building \subseteq InState({"APPROVED"})
  /\ file.rows \subseteq Revisions

(* What a user other than the StCd Owner and the Administrator takes is    *)
(* released, whichever export, Release and options it is taken with        *)
(* (FR-175).                                                               *)
UnreleasedStaysInside == ~file.inside => file.rows \subseteq InState({"RELEASED"})

(* A file with rows that were not approved says so on every row (FR-046).  *)
(* A revision that was decided stays decided, so the file may be old.      *)
UnapprovedIsLabelled == file.rows \subseteq InState({"APPROVED", "RELEASED"}) \/ file.notice

(* A code shown to an audience carries a value that an Administrator has   *)
(* confirmed and that lets the audience see it, at the moment the file is  *)
(* made and whichever set it is made from (BR-012, BR-016).                *)
AudienceSeesConfirmed ==
  [][file' # file /\ file'.audience =>
     \A v \in file'.rows : v \in confirmed /\ revision[v[1]][v[2]].access = "visible"]_vars

(* The file of a Release without an audience, and not strict, has one row  *)
(* for every code that has been published up to then, or is about to be,   *)
(* unless its manifest says how it was narrowed (FR-103, FR-173).          *)
CompleteUnlessNamed ==
  [][file' # file /\ file'.kind = "release" /\ ~file'.audience /\ ~file'.strict
       /\ file'.scope = {} =>
     LET Before(r) == UNION {published[i] : i \in 1 .. r}
         Members == {Before(r) : r \in DOMAIN published}
                      \union {building \union Before(Len(published))}
     IN  \E S \in Members : {v[1] : v \in file'.rows} = {v[1] : v \in S}]_vars

(* An audience file is never built from the unapproved working set, as the *)
(* code says; the check reads the options before the profile's default     *)
(* audience is put into them.                                              *)
AudienceIsReleased == ~(file.notice /\ file.audience)

(* A row in another language than the one asked for is marked, as a test   *)
(* says; a profile without the column content_language drops the mark.     *)
FallbackIsMarked ==
  [][file' # file /\ file'.language => file'.rows \subseteq translated \/ file'.marked]_vars

(* A strict file is refused when a translation is missing, as the document *)
(* says; the rows are left out instead.                                    *)
StrictRefuses == file.strict => file.left = {}

(* The manifest names how a Release was narrowed, as the requirement says; *)
(* the one of the offline page does not.                                   *)
ScopeIsNamed == file.kind \in {"release", "offline"} => file.asked \subseteq file.scope

=============================================================================
