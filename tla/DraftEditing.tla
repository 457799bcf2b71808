----------------------------- MODULE DraftEditing -----------------------------
(***************************************************************************)
(* The content of one revision between its author, an administrator and    *)
(* the people who sign it (status_code_service.update_draft,               *)
(* set_planned_dates and apply_access_overrides, field_review_service,     *)
(* change_request_service).  A page shows the content to its reader and    *)
(* comes back later: other requests run in between.                        *)
(*                                                                         *)
(* Who may do what, delegation and numbering are in ChangeRequests; here   *)
(* it matters what they had in front of them.  Every change of a content   *)
(* field stores a value of its own, taken from the counter `changes`.      *)
(***************************************************************************)
EXTENDS Naturals

CONSTANTS
  Editors,      \* people with the edit form
  Items,        \* items of the review checklist
  MaxChanges,   \* bound: changes of content fields and of the checklist
  MaxForms      \* bound: pages opened

VARIABLES
  revision,   \* the row: status, row_version, content, sign-offs
  form,       \* editor -> the edit form: open?, version it names (0: none), what it shows
  item,       \* checklist item -> wording, is_active
  reading,    \* the page of the reviewer: open?, the content and the items it shows
  confirmed,  \* checklist item -> the wording stored with the confirmation (0: none)
  read,       \* for the properties: checklist item -> the wording the reviewer had read
  vouched,    \* for the properties: the content when the reviewer and the administrator signed
  changes,
  pages
vars == <<revision, form, item, reading, confirmed, read, vouched, changes, pages>>
signing == <<item, reading, confirmed, read, vouched>>

NoForm == [open |-> FALSE, version |-> 0, text |-> 0, planned |-> 0]
Content(r) == [text |-> r.text, access |-> r.access]
Unread == [open |-> FALSE, items |-> [i \in Items |-> 0]]

Init ==
  /\ revision = [status |-> "DRAFT", version |-> 1, text |-> 0, access |-> 0, planned |-> 0,
                 reviewer |-> FALSE, admin |-> FALSE]
  /\ form = [e \in Editors |-> NoForm]
  /\ item = [i \in Items |-> [text |-> 1, active |-> TRUE]]
  /\ reading = Unread
  /\ confirmed = [i \in Items |-> 0]
  /\ read = [i \in Items |-> 0]
  /\ vouched = [reviewer |-> Content(revision), admin |-> Content(revision)]
  /\ changes = 1
  /\ pages = 0

Fresh == changes + 1
Change == changes < MaxChanges /\ changes' = Fresh
OpenPage == pages < MaxForms /\ pages' = pages + 1

----------------------------------------------------------------------------
(* The edit form; a program may send its own data and name no version. *)
OpenForm(e) ==
  /\ revision.status = "DRAFT" /\ ~form[e].open
  /\ \E version \in {0, revision.version} :
       form' = [form EXCEPT ![e] = [open |-> TRUE, version |-> version, text |-> revision.text,
                                    planned |-> revision.planned]]
  /\ OpenPage
  /\ UNCHANGED <<revision, signing, changes>>

\* A defect to test NoSaveIsUndone with: a form that names a later version is fresh, too.
_check_not_staleDefect(e) == form[e].version # 0 => form[e].version + 1 >= revision.version

_check_not_stale(e) == form[e].version # 0 => form[e].version = revision.version

\* A defect to test EditingTypeOK with: the first version is counted as none.
update_draftDefect(e) ==
  /\ form[e].open /\ revision.status = "DRAFT" /\ _check_not_stale(e)
  /\ revision' = [revision EXCEPT !.text = Fresh, !.access = Fresh, !.planned = form[e].planned,
                                  !.version = @ - 1]
  /\ form' = [form EXCEPT ![e] = NoForm]
  /\ Change
  /\ UNCHANGED <<signing, pages>>

(* A save stores all fields of the form, the ones its user left alone included. *)
update_draft(e) ==
  /\ form[e].open /\ revision.status = "DRAFT" /\ _check_not_stale(e)
  /\ revision' = [revision EXCEPT !.text = Fresh, !.access = Fresh, !.planned = form[e].planned,
                                  !.version = @ + 1]
  /\ form' = [form EXCEPT ![e] = NoForm]
  /\ Change
  /\ UNCHANGED <<signing, pages>>

(* The entries are shown again beside the current values; the next save names the version shown. *)
ShowConflict(e) ==
  /\ form[e].open /\ revision.status = "DRAFT" /\ ~_check_not_stale(e)
  /\ form' = [form EXCEPT ![e].version = revision.version, ![e].text = revision.text]
  /\ UNCHANGED <<revision, signing, changes, pages>>

(* In another state the form is turned away. *)
TurnAway(e) ==
  /\ form[e].open /\ revision.status # "DRAFT"
  /\ form' = [form EXCEPT ![e] = NoForm]
  /\ UNCHANGED <<revision, signing, changes, pages>>

(* An administrator, in every state but ARCHIVED; row_version and updated_at stay. *)
set_planned_dates ==
  /\ revision' = [revision EXCEPT !.planned = Fresh]
  /\ Change
  /\ UNCHANGED <<form, signing, pages>>

----------------------------------------------------------------------------
submit ==
  /\ revision.status = "DRAFT"
  /\ revision' = [revision EXCEPT !.status = "REVIEW"]
  /\ UNCHANGED <<form, signing, changes, pages>>

(* The page of the request shows the active items; it outlives a rejection. *)
OpenReview ==
  /\ revision.status = "REVIEW" /\ ~reading.open
  /\ reading' = [open |-> TRUE, items |-> [i \in Items |-> IF item[i].active THEN item[i].text ELSE 0]]
  /\ OpenPage
  /\ UNCHANGED <<revision, form, item, confirmed, read, vouched, changes>>

Active == {i \in Items : item[i].active}

assert_confirmed == \A i \in Active : reading.items[i] # 0

Signed(r) == [r EXCEPT !.status = IF r.reviewer /\ r.admin THEN "PENDING_APPROVAL" ELSE "REVIEW"]

(* An approval confirms what the page has listed; the wording of today is stored. *)
reviewer_signoff ==
  /\ reading.open /\ revision.status = "REVIEW" /\ assert_confirmed
  /\ revision' = Signed([revision EXCEPT !.reviewer = TRUE])
  /\ confirmed' = [i \in Items |-> IF i \in Active THEN item[i].text ELSE confirmed[i]]
  /\ read' = [i \in Items |-> IF i \in Active THEN reading.items[i] ELSE read[i]]
  /\ vouched' = [vouched EXCEPT !.reviewer = Content(revision)]
  /\ reading' = Unread
  /\ UNCHANGED <<form, item, changes, pages>>

(* An administrator approves, with or without changing access levels. *)
admin_signoff ==
  /\ revision.status = "REVIEW"
  /\ \/ revision' = Signed([revision EXCEPT !.admin = TRUE]) /\ UNCHANGED changes
     \/ revision' = Signed([revision EXCEPT !.admin = TRUE, !.access = Fresh]) /\ Change
  /\ vouched' = [vouched EXCEPT !.admin = Content(revision')]
  /\ UNCHANGED <<form, item, reading, confirmed, read, pages>>

\* A defect to test ApprovedAsSigned with: the administrator's confirmation is kept.
clear_review_signoffsDefect(r) == [r EXCEPT !.reviewer = FALSE]

clear_review_signoffs(r) == [r EXCEPT !.reviewer = FALSE, !.admin = FALSE]

(* One of the two in review, or the chief engineer after them. *)
Reject ==
  /\ revision.status \in {"REVIEW", "PENDING_APPROVAL"}
  /\ revision' = [clear_review_signoffs(revision) EXCEPT !.status = "DRAFT"]
  /\ UNCHANGED <<form, signing, changes, pages>>

Approve ==
  /\ revision.status = "PENDING_APPROVAL"
  /\ revision' = [revision EXCEPT !.status = "APPROVED"]
  /\ UNCHANGED <<form, signing, changes, pages>>

(* An administrator rewords an item or takes it in or out of use. *)
update_item(i) ==
  /\ \/ item' = [item EXCEPT ![i].text = Fresh]
     \/ item' = [item EXCEPT ![i].active = ~@]
  /\ Change
  /\ UNCHANGED <<revision, form, reading, confirmed, read, vouched, pages>>

Next ==
  \/ \E e \in Editors : OpenForm(e) \/ update_draft(e) \/ ShowConflict(e) \/ TurnAway(e)
  \/ set_planned_dates \/ submit \/ OpenReview \/ reviewer_signoff \/ admin_signoff
  \/ Reject \/ Approve
  \/ \E i \in Items : update_item(i)

Spec == Init /\ [][Next]_vars

----------------------------------------------------------------------------
(* Every variable has its type; row versions begin with 1, so that 0 names none. *)
EditingTypeOK ==
  /\ revision.status \in {"DRAFT", "REVIEW", "PENDING_APPROVAL", "APPROVED"}
  /\ revision.version \in 1..MaxChanges
  /\ {revision.text, revision.access, revision.planned} \subseteq 0..MaxChanges
  /\ \A e \in Editors : form[e].version \in 0..revision.version
  /\ \A i \in Items : item[i].text \in 1..MaxChanges /\ confirmed[i] \in 0..MaxChanges

(* A save that names a version changes the text its user has seen, never one that somebody   *)
(* saved in between, conflict pages, saves without a version and rejections included (BR-019). *)
NoSaveIsUndone ==
  [][\A e \in Editors : form[e].open /\ form[e].version # 0 /\ revision'.version # revision.version
                        /\ ~form'[e].open => form[e].text = revision.text]_vars

(* What the chief engineer is asked about and approves is the text both sign-offs were given  *)
(* for and the access levels the administrator has confirmed (BR-012), over any number of      *)
(* rejections, edits and resubmissions.                                                        *)
ApprovedAsSigned ==
  revision.status \in {"PENDING_APPROVAL", "APPROVED"} =>
    /\ vouched.reviewer.text = revision.text
    /\ vouched.admin = Content(revision)

(* Disagreement: a save that names its version is refused "instead of silently overwriting     *)
(* their work" (status_code_service.py:420).  Violated: planned dates an administrator has set *)
(* meanwhile do not count as a version, and the form stores the old ones.                      *)
PlannedDatesAreKept ==
  [][\A e \in Editors : form[e].open /\ form[e].version # 0 /\ ~form'[e].open
                        /\ revision'.version # revision.version
       => revision'.planned = revision.planned]_vars

(* Disagreement: "the wording confirmed is stored with the sign-off"                            *)
(* (field_review_service.py:7).  Violated by an item reworded while the reviewer reads the      *)
(* page.                                                                                        *)
ConfirmedAsRead ==
  \A i \in Items : confirmed[i] = read[i]

(* Disagreement: "later edits of the checklist never rewrite history"                           *)
(* (field_review_service.py:7).  Violated by the second sign-off of a request: it replaces the  *)
(* wording that was stored with the first one.                                                  *)
ConfirmationsStay ==
  [][\A i \in Items : confirmed[i] # 0 => confirmed'[i] = confirmed[i]]_vars
==========================================================================
