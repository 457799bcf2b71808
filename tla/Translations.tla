---------------------------- MODULE Translations -----------------------------
(***************************************************************************)
(* The translations of a status code (I-15, FR-110, BR-018).               *)
(*                                                                         *)
(* A translation belongs to one revision and one language.  It is saved    *)
(* once the text of the revision is decided, approved by somebody else,    *)
(* and may be carried over to the next revision.  The module follows the   *)
(* revisions of one code; a text stands for title, description and remedy. *)
(***************************************************************************)
EXTENDS Naturals

CONSTANTS
  Last,         \* bound: the number of revisions
  Languages,
  Sources,      \* what the revisions say
  Texts,        \* what their translations say
  NoText,
  Engineers, Reviewers, Administrators,
  Nobody

Revisions == 1 .. Last

People == Engineers \union Reviewers \union Administrators

\* What the constants are; assumed by the module that gives them values.
TranslationsAssumption ==
  /\ Last \in Nat \ {0}
  /\ Nobody \notin People /\ NoText \notin Texts

VARIABLES
  state,        \* OPEN until the Chief Engineer decided, then STABLE, at last ARCHIVED
  source,       \* the text of each revision
  translation   \* revision_translation

vars == <<state, source, translation>>

\* `author` is who thought of the text, `of` the source it was approved for.
Missing == [text |-> NoText, translator |-> Nobody, approver |-> Nobody,
            author |-> Nobody, of |-> NoText]

TranslationsTypeOK ==
  /\ state \in [Revisions -> {"NONE", "OPEN", "STABLE", "ARCHIVED"}]
  /\ source \in [Revisions -> Sources \union {NoText}]
  /\ \A r \in Revisions, l \in Languages :
       LET t == translation[r][l] IN
       /\ t.text \in Texts \union {NoText}
       /\ t.translator = Nobody <=> t.text = NoText
       /\ t.approver # Nobody => t.text # NoText
       /\ t.text # NoText => state[r] # "NONE"

-----------------------------------------------------------------------------
(* The revisions                                                           *)

OpenRevision(r, text) ==
  /\ state[r] = "NONE"
  /\ r > 1 => state[r - 1] \notin {"NONE", "OPEN"}
  /\ state' = [state EXCEPT ![r] = "OPEN"]
  /\ source' = [source EXCEPT ![r] = text]
  /\ UNCHANGED translation

EditSource(r, text) ==
  /\ state[r] = "OPEN"
  /\ source' = [source EXCEPT ![r] = text]
  /\ UNCHANGED <<state, translation>>

Decide(r) ==
  /\ state[r] = "OPEN"
  /\ state' = [state EXCEPT ![r] = "STABLE"]
  /\ UNCHANGED <<source, translation>>

Archive(r) ==
  /\ state[r] = "STABLE"
  /\ state' = [state EXCEPT ![r] = "ARCHIVED"]
  /\ UNCHANGED <<source, translation>>

\* The row of the revision is deleted, which the database refuses as long as a
\* translation refers to it.
Withdraw(r) ==
  /\ state[r] = "OPEN"
  /\ \A l \in Languages : translation[r][l] = Missing
  /\ state' = [state EXCEPT ![r] = "NONE"]
  /\ source' = [source EXCEPT ![r] = NoText]
  /\ UNCHANGED translation

-----------------------------------------------------------------------------
(* The translations                                                        *)

Becomes(r, l, t) == translation' = [translation EXCEPT ![r][l] = t]

\* A defect to test AgreedByTwo with: a correction keeps the approval.
SavedDefect(u, r, l, text) ==
  [translation[r][l] EXCEPT !.text = text, !.translator = u, !.author = u]

\* The translation that u saves.  The same text again changes the translator only.
Saved(u, r, l, text) ==
  LET old == translation[r][l] IN
  [text |-> text, translator |-> u, approver |-> Nobody, of |-> NoText,
   author |-> IF old.text = text THEN old.author ELSE u]

\* A defect to test TranslationsTypeOK with: any revision is translated.
TranslatableDefect(r) == TRUE

Translatable(r) == state[r] = "STABLE"

Save(u, r, l, text) ==
  /\ u \in Engineers \union Administrators
  /\ Translatable(r)
  /\ Becomes(r, l, Saved(u, r, l, text))
  /\ UNCHANGED <<state, source>>

\* A defect to test AgreedByTwo with: anybody may approve.
MayApproveDefect(u, t) == t.text # NoText

MayApprove(u, t) == t.text # NoText /\ t.approver = Nobody /\ t.translator # u

Approve(u, r, l) ==
  /\ u \in Reviewers \union Administrators
  /\ MayApprove(u, translation[r][l])
  /\ Becomes(r, l, [translation[r][l] EXCEPT !.approver = u, !.of = source[r]])
  /\ UNCHANGED <<state, source>>

\* A defect to test WorkIsKept with: what is there already is copied over.
CarriedDefect(u, r, l) == translation[r - 1][l].text # NoText

\* The translation that r has in l is the one of the revision before.
Carried(u, r, l) ==
  /\ translation[r - 1][l].text # NoText
  /\ translation[r][l].text = NoText

CarryOver(u, r) ==
  /\ u \in Engineers \union Administrators
  /\ r > 1 /\ state[r] # "NONE"
  /\ translation' = [translation EXCEPT ![r] = [l \in Languages |->
       IF Carried(u, r, l)
       THEN [translation[r - 1][l] EXCEPT !.translator = u, !.approver = Nobody, !.of = NoText]
       ELSE translation[r][l]]]
  /\ UNCHANGED <<state, source>>

-----------------------------------------------------------------------------

Init ==
  /\ state = [r \in Revisions |-> "NONE"]
  /\ source = [r \in Revisions |-> NoText]
  /\ translation = [r \in Revisions |-> [l \in Languages |-> Missing]]

Next ==
  \E r \in Revisions :
    \/ \E text \in Sources : OpenRevision(r, text) \/ EditSource(r, text)
    \/ Decide(r) \/ Archive(r) \/ Withdraw(r)
    \/ \E u \in People :
         \/ CarryOver(u, r)
         \/ \E l \in Languages :
              \/ Approve(u, r, l)
              \/ \E text \in Texts : Save(u, r, l, text)

Spec == Init /\ [][Next]_vars

-----------------------------------------------------------------------------

Agreement(r, l) == INSTANCE TwoPersons WITH
  text <- translation[r][l].text,
  writer <- translation[r][l].translator,
  approver <- translation[r][l].approver

\* BR-018: every translation is a text of two persons: whoever approved it is not
\* its translator, and every edit or copy takes the approval away.
AgreedByTwo ==
  /\ \A r \in Revisions, l \in Languages : Agreement(r, l)!Init
  /\ [][\A r \in Revisions, l \in Languages : Agreement(r, l)!Step]_vars

\* FR-110: carrying over is a head start and never a loss: a translation gets
\* another text only from somebody who types it.
WorkIsKept ==
  [][(\E u \in People, r \in Revisions : CarryOver(u, r)) =>
       \A r \in Revisions, l \in Languages :
         translation[r][l].text # NoText => translation'[r][l] = translation[r][l]]_vars

\* FR-110: what is approved was approved for the text that the revision has.
TranslationsFitTheSource ==
  \A r \in Revisions, l \in Languages :
    translation[r][l].approver # Nobody => translation[r][l].of = source[r]

\* BR-018: nobody approves what they have translated.
ApprovedByAnother ==
  \A r \in Revisions, l \in Languages :
    LET t == translation[r][l] IN t.approver # Nobody => t.approver # t.author

\* FR-026: an open revision can be withdrawn.
DraftsCanBeWithdrawn == \A r \in Revisions : state[r] = "OPEN" => ENABLED Withdraw(r)
=============================================================================
