----------------------------- MODULE Terminology -----------------------------
(***************************************************************************)
(* The technical nomenclature (FR-166, FR-178): terms, their translation   *)
(* into a language by one person and the approval by another, the approval *)
(* of all drafts at once, and the notices about every change.              *)
(*                                                                         *)
(* The module follows one language.  A notice is sent by a transaction of  *)
(* its own right after the change; the two are one step here.              *)
(***************************************************************************)
EXTENDS Naturals, FiniteSets

CONSTANTS
  Terms,
  Seeded,      \* the terms that ship with the tool, translated
  English,     \* what a term may say
  Texts,       \* what its translation may say
  NoText,
  Managers,    \* ADMINISTRATOR, STCD_OWNER, CHIEF_ENGINEER
  Engineers, Reviewers,
  Nobody,
  LastStamp    \* bound: how often a term is changed

People == Managers \union Engineers \union Reviewers

Approvers == Managers \union Reviewers

\* What the constants are; assumed by the module that gives them values.
TerminologyAssumption ==
  /\ Seeded \subseteq Terms /\ LastStamp \in Nat
  /\ Nobody \notin People /\ NoText \notin Texts \union English
  /\ Texts # {} /\ English # {}

VARIABLES
  term,         \* terminology_term
  translation,  \* terminology_translation
  bulk,         \* the drafts that a person's approve_all has still to come to
  notices       \* the dedupe keys of the notices sent

vars == <<term, translation, bulk, notices>>

\* `of` is the English text that the approval was given for.
Missing == [text |-> NoText, proposer |-> Nobody, approver |-> Nobody, of |-> NoText]

TerminologyTypeOK ==
  /\ \A t \in Terms :
       /\ term[t].english \in English \union {NoText} /\ term[t].stamp \in 0 .. LastStamp
       /\ term[t].english = NoText => translation[t] = Missing
       /\ translation[t].text \in Texts \union {NoText}
       /\ translation[t].approver # Nobody => translation[t].text # NoText
  /\ \A u \in People : bulk[u] \subseteq Terms

-----------------------------------------------------------------------------

\* One notice for each key.  The key of an approval is the time stamp of the term.
Tell(t, action, stamp) == notices' = notices \union {<<t, action, stamp>>}

Exists(t) == term[t].english # NoText

CreateTerm(u, t, english, keep) ==
  /\ u \in Managers /\ ~Exists(t)
  /\ term' = [term EXCEPT ![t] = [english |-> english, keep |-> keep, active |-> TRUE, stamp |-> 0]]
  /\ Tell(t, "added", 0)
  /\ UNCHANGED <<translation, bulk>>

\* A defect to test ApprovalsFitTheEnglish with: approvals outlive a new meaning.
ReopenedDefect(t, english) == translation[t]

\* A changed meaning: the approval has to be given again.
Reopened(t, english) ==
  IF english # term[t].english
  THEN [translation[t] EXCEPT !.approver = Nobody, !.of = NoText]
  ELSE translation[t]

UpdateTerm(u, t, english, keep, active) ==
  /\ u \in Managers /\ Exists(t) /\ term[t].stamp < LastStamp
  /\ term' = [term EXCEPT ![t] = [english |-> english, keep |-> keep, active |-> active,
                                  stamp |-> term[t].stamp + 1]]
  /\ translation' = [translation EXCEPT ![t] = Reopened(t, english)]
  /\ Tell(t, "changed", term[t].stamp + 1)
  /\ UNCHANGED bulk

\* A defect to test TerminologyTypeOK with: a term that nobody created is translated.
MayProposeDefect(t) == TRUE

MayPropose(t) == Exists(t) /\ ~term[t].keep

\* The same text again changes nothing, unless it comes with another note.
Propose(u, t, text, noted) ==
  /\ u \in People
  /\ MayPropose(t)
  /\ translation[t].text # text \/ noted
  /\ translation' = [translation EXCEPT ![t] =
       [text |-> text, proposer |-> u, approver |-> Nobody, of |-> NoText]]
  /\ UNCHANGED <<term, bulk, notices>>

IsDraft(t) == translation[t].text # NoText /\ translation[t].approver = Nobody

\* A defect to test AgreedByTwo with: nobody asks who proposed the draft.
MayApproveDefect(u, t) == u \in Approvers /\ IsDraft(t)

\* Who proposed a text does not approve it; nobody proposed what ships with the tool.
MayApprove(u, t) ==
  /\ u \in Approvers
  /\ IsDraft(t) /\ translation[t].proposer # u

Approving(u, t) ==
  /\ MayApprove(u, t)
  /\ translation' = [translation EXCEPT ![t] = [@ EXCEPT !.approver = u, !.of = term[t].english]]
  /\ Tell(t, "approved", term[t].stamp)
  /\ UNCHANGED term

Approve(u, t) == Approving(u, t) /\ UNCHANGED bulk

\* approve_all takes the drafts of the active terms and commits each approval.
StartBulk(u) ==
  /\ u \in Approvers /\ bulk[u] = {}
  /\ bulk' = [bulk EXCEPT ![u] = {t \in Terms : term[t].active /\ IsDraft(t)}]
  /\ UNCHANGED <<term, translation, notices>>

ApproveNext(u, t) ==
  /\ t \in bulk[u]
  /\ bulk' = [bulk EXCEPT ![u] = @ \ {t}]
  /\ \/ Approving(u, t)
     \/ translation[t].proposer = u /\ UNCHANGED <<term, translation, notices>>

\* Somebody else approved it in the meantime: the rest is left as it is.
BreakOff(u, t) ==
  /\ t \in bulk[u]
  /\ translation[t].proposer # u /\ ~IsDraft(t)
  /\ bulk' = [bulk EXCEPT ![u] = {}]
  /\ UNCHANGED <<term, translation, notices>>

Reject(u, t) ==
  /\ u \in Approvers
  /\ translation[t].text # NoText
  /\ translation' = [translation EXCEPT ![t] = [@ EXCEPT !.approver = Nobody, !.of = NoText]]
  /\ UNCHANGED <<term, bulk, notices>>

-----------------------------------------------------------------------------

\* The vocabulary that ships with the tool.
Init ==
  /\ term = [t \in Terms |->
       [english |-> IF t \in Seeded THEN CHOOSE e \in English : TRUE ELSE NoText,
        keep |-> FALSE, active |-> TRUE, stamp |-> 0]]
  /\ translation = [t \in Terms |->
       IF t \in Seeded THEN [Missing EXCEPT !.text = CHOOSE x \in Texts : TRUE] ELSE Missing]
  /\ bulk = [u \in People |-> {}]
  /\ notices = {}

Next ==
  \E u \in People :
    \/ StartBulk(u)
    \/ \E t \in Terms :
         \/ \E english \in English, keep \in BOOLEAN : CreateTerm(u, t, english, keep)
         \/ \E english \in English, keep, active \in BOOLEAN : UpdateTerm(u, t, english, keep, active)
         \/ \E text \in Texts, noted \in BOOLEAN : Propose(u, t, text, noted)
         \/ Approve(u, t) \/ ApproveNext(u, t) \/ BreakOff(u, t) \/ Reject(u, t)

Spec == Init /\ [][Next]_vars

-----------------------------------------------------------------------------

Agreement(t) == INSTANCE TwoPersons WITH
  text <- translation[t].text,
  writer <- translation[t].proposer,
  approver <- translation[t].approver

\* FR-166: every translation is a text of two persons, one by one or in bulk.
AgreedByTwo ==
  /\ \A t \in Terms : Agreement(t)!Init
  /\ [][\A t \in Terms : Agreement(t)!Step]_vars

\* FR-166: an approval was given for what the term says in English now.
ApprovalsFitTheEnglish ==
  \A t \in Terms : translation[t].approver # Nobody => translation[t].of = term[t].english

\* FR-166: a term that is never translated has no translation.
KeptTermsAreNotTranslated == \A t \in Terms : term[t].keep => translation[t].approver = Nobody

\* FR-178: somebody is told of every change of a term and of every approval.
EveryChangeIsTold ==
  [][\A t \in Terms :
       \/ term'[t] # term[t]
       \/ translation[t].approver = Nobody /\ translation'[t].approver # Nobody
       => notices' # notices]_vars

\* approve_all approves every draft that its caller did not propose.
BulkIsComplete ==
  [][\A u \in People :
       bulk[u] # {} /\ bulk'[u] = {} =>
         \A t \in bulk[u] : translation[t].proposer # u => translation'[t].approver # Nobody]_vars
=============================================================================
