------------------------- MODULE TranslationReview ---------------------------
(***************************************************************************)
(* The review of the interface translations by native speakers (FR-164,    *)
(* FR-176), for one language.                                              *)
(*                                                                         *)
(* Reviewers answer string by string on pages that were loaded earlier and *)
(* complete their review; managers decide on the proposals, and an         *)
(* accepted one overrides what ships with the tool.  What a Viewer reads   *)
(* follows from the completed reviews: a string whose text nobody approved *)
(* is withheld.                                                            *)
(***************************************************************************)
EXTENDS Naturals, Sequences, FiniteSets

CONSTANTS
  Strings, Texts, NoText,
  Reviewers,    \* who may be assigned to the language
  Managers,     \* ADMINISTRATOR or STCD_OWNER; one may be a reviewer as well
  Deliveries,   \* bound: what a new version may say, a text or NoText
  LastReview    \* bound: the number of reviews

Reviews == 1 .. LastReview

\* What the constants are; assumed by the module that gives them values.
ReviewAssumption ==
  NoText \notin Texts /\ Deliveries \subseteq Texts \union {NoText} /\ LastReview \in Nat

VARIABLES
  used,       \* the English strings of this version
  shipped,    \* their translations, as delivered
  override,   \* translation_override
  assigned,   \* language_reviewer
  review,     \* translation_review, a sequence
  completed,  \* the completed reviews in the order of their completion
  item,       \* translation_review_item, by review and string
  page        \* what the browser of a reviewer shows

vars == <<used, shipped, override, assigned, review, completed, item, page>>

People == Reviewers \union Managers

NoOverride == [text |-> NoText, by |-> 0]

\* `shown` is the column current_text.
NoItem == [verdict |-> "ABSENT", proposal |-> NoText, shown |-> NoText,
           decision |-> "PENDING", decider |-> "nobody"]

Closed == [s \in Strings |-> "CLOSED"]

ReviewTypeOK ==
  /\ \A s \in Strings : shipped[s] # NoText => s \in used
  /\ \A s \in Strings : override[s] # NoOverride =>
       /\ override[s].text \in Texts
       /\ item[override[s].by][s].decision = "ACCEPTED"
  /\ \A u \in Reviewers : Cardinality({r \in DOMAIN review : review[r] = [by |-> u, open |-> TRUE]}) <= 1
  /\ \A r \in Reviews : r \notin DOMAIN review => \A s \in Strings : item[r][s] = NoItem
  /\ {completed[k] : k \in DOMAIN completed} = {r \in DOMAIN review : ~review[r].open}

-----------------------------------------------------------------------------
(* What is shown and what is approved                                      *)

\* The delivered text with the accepted proposals on top.
Effective(s) == IF override[s] # NoOverride THEN override[s].text ELSE shipped[s]

\* What the answer of a completed review approves, NoText when it approves nothing.
ApprovedBy(r, s) ==
  LET i == item[r][s] IN
  CASE i.verdict = "OK" -> i.shown
    [] i.verdict = "CHANGE" /\ i.decision = "ACCEPTED" ->
         IF override[s].by = r THEN override[s].text ELSE i.proposal
    [] i.verdict # "OK" /\ i.decision \in {"REJECTED", "NOTED"} -> i.shown
    [] OTHER -> NoText

AnswersTo(s) == {k \in DOMAIN completed : item[completed[k]][s] # NoItem}

\* A defect to test FollowUpClears with: the first completed review counts.
ApprovedDefect(s) ==
  IF AnswersTo(s) = {} THEN NoText
  ELSE ApprovedBy(completed[CHOOSE k \in AnswersTo(s) : \A j \in AnswersTo(s) : k <= j], s)

\* The review that was completed last counts.
Approved(s) ==
  IF AnswersTo(s) = {} THEN NoText
  ELSE ApprovedBy(completed[CHOOSE k \in AnswersTo(s) : \A j \in AnswersTo(s) : j <= k], s)

Translated == {s \in Strings : Effective(s) # NoText}

Pending == {s \in Translated : Approved(s) # Effective(s)}

Reviewed == completed # <<>>

\* What a review has to answer before it is completed.
Required == IF Reviewed THEN Pending ELSE Translated

-----------------------------------------------------------------------------
(* The reviewers                                                           *)

OpenOf(u) == {r \in DOMAIN review : review[r] = [by |-> u, open |-> TRUE]}

\* The open review of u, a new one if there is none.
ReviewOf(u) == IF OpenOf(u) # {} THEN CHOOSE r \in OpenOf(u) : TRUE ELSE Len(review) + 1

Started(u) == IF OpenOf(u) # {} THEN review ELSE Append(review, [by |-> u, open |-> TRUE])

MayStart(u) == u \in assigned /\ ReviewOf(u) \in Reviews

OpenPage(u) ==
  /\ MayStart(u)
  /\ review' = Started(u)
  /\ page' = [page EXCEPT ![u] = [s \in Strings |-> IF s \in used THEN Effective(s) ELSE "CLOSED"]]
  /\ UNCHANGED <<used, shipped, override, assigned, completed, item>>

\* A defect to test DecisionsAreFinal with: what was refused is answered again.
MayAnswerDefect(r, s) == s \in used /\ item[r][s].decision # "ACCEPTED"

MayAnswer(r, s) == s \in used /\ item[r][s].decision = "PENDING"

\* The text of the row is stored when the answer is first saved.
Answered(r, s, verdict, proposal) ==
  [item[r][s] EXCEPT
     !.verdict = verdict, !.proposal = proposal,
     !.shown = IF item[r][s] = NoItem THEN Effective(s) ELSE @]

\* "NONE" is a comment without a verdict; an empty row takes the answer back.
Save(u, s, verdict, proposal) ==
  /\ page[u][s] # "CLOSED"
  /\ MayStart(u)
  /\ review' = Started(u)
  /\ MayAnswer(ReviewOf(u), s)
  /\ proposal # NoText <=> verdict = "CHANGE"
  /\ item' = [item EXCEPT ![ReviewOf(u)][s] =
       IF verdict = "ABSENT" THEN NoItem ELSE Answered(ReviewOf(u), s, verdict, proposal)]
  /\ UNCHANGED <<used, shipped, override, assigned, completed, page>>

HasVerdict(r, s) == item[r][s].verdict \in {"OK", "CHANGE", "UNCLEAR"}

Complete(u) ==
  /\ MayStart(u)
  /\ LET r == ReviewOf(u) IN
     /\ \A s \in Required : HasVerdict(r, s)
     /\ review' = [Started(u) EXCEPT ![r].open = FALSE]
     /\ completed' = Append(completed, r)
  /\ UNCHANGED <<used, shipped, override, assigned, item, page>>

-----------------------------------------------------------------------------
(* The managers and the maintainers                                        *)

Assign(m, u) ==
  /\ m \in Managers /\ u \in Reviewers \ assigned
  /\ assigned' = assigned \union {u}
  /\ UNCHANGED <<used, shipped, override, review, completed, item, page>>

Unassign(m, u) ==
  /\ m \in Managers /\ u \in assigned
  /\ assigned' = assigned \ {u}
  /\ UNCHANGED <<used, shipped, override, review, completed, item, page>>

\* A defect to test NobodyDecidesAlone with: one decides on one's own proposal.
MayDecideDefect(m, r, s) == item[r][s] # NoItem /\ item[r][s].decision = "PENDING"

MayDecide(m, r, s) ==
  /\ item[r][s] # NoItem /\ item[r][s].decision = "PENDING"
  /\ review[r].by # m

\* A defect to test ReviewTypeOK with: the answer does not keep the decision.
DecidedDefect(m, r, s, decision) == item' = [item EXCEPT ![r][s].decider = m]

Decided(m, r, s, decision) ==
  item' = [item EXCEPT ![r][s] = [@ EXCEPT !.decision = decision, !.decider = m]]

Accept(m, r, s, text) ==
  /\ m \in Managers /\ MayDecide(m, r, s)
  /\ item[r][s].verdict = "CHANGE"
  /\ Decided(m, r, s, "ACCEPTED")
  /\ override' = [override EXCEPT ![s] = [text |-> text, by |-> r]]
  /\ UNCHANGED <<used, shipped, assigned, review, completed, page>>

Refuse(m, r, s, decision) ==
  /\ m \in Managers /\ MayDecide(m, r, s)
  /\ decision = "NOTED" => item[r][s].verdict = "UNCLEAR"
  /\ Decided(m, r, s, decision)
  /\ UNCHANGED <<used, shipped, override, assigned, review, completed, page>>

RemoveOverride(m, s) ==
  /\ m \in Managers /\ override[s] # NoOverride
  /\ override' = [override EXCEPT ![s] = NoOverride]
  /\ UNCHANGED <<used, shipped, assigned, review, completed, item, page>>

\* A version whose catalogue says something else, or has the string no more.
Ship(s, text, there) ==
  /\ text # NoText => there
  /\ shipped' = [shipped EXCEPT ![s] = text]
  /\ used' = IF there THEN used \union {s} ELSE used \ {s}
  /\ UNCHANGED <<override, assigned, review, completed, item, page>>

-----------------------------------------------------------------------------

Init ==
  /\ used = Strings
  /\ shipped \in [Strings -> Texts]
  /\ override = [s \in Strings |-> NoOverride]
  /\ assigned = Reviewers
  /\ review = <<>> /\ completed = <<>>
  /\ item = [r \in Reviews |-> [s \in Strings |-> NoItem]]
  /\ page = [u \in Reviewers |-> Closed]

Next ==
  \/ \E u \in Reviewers :
       \/ OpenPage(u) \/ Complete(u)
       \/ \E s \in Strings, verdict \in {"OK", "CHANGE", "UNCLEAR", "NONE", "ABSENT"},
             proposal \in Texts \union {NoText} : Save(u, s, verdict, proposal)
  \/ \E m \in Managers :
       \/ \E u \in Reviewers : Assign(m, u) \/ Unassign(m, u)
       \/ \E s \in Strings :
            \/ RemoveOverride(m, s)
            \/ \E r \in DOMAIN review :
                 \/ \E text \in Texts : Accept(m, r, s, text)
                 \/ \E decision \in {"REJECTED", "NOTED"} : Refuse(m, r, s, decision)
  \/ \E s \in Strings, text \in Deliveries, there \in BOOLEAN : Ship(s, text, there)

Spec == Init /\ [][Next]_vars

-----------------------------------------------------------------------------

\* FR-164: a decision is final, whatever the reviewer saves and whoever decides again.
DecisionsAreFinal ==
  [][\A r \in Reviews, s \in Strings :
       item[r][s].decision # "PENDING" => item'[r][s] = item[r][s]]_vars

\* FR-164: nobody decides on a proposal of their own.
NobodyDecidesAlone ==
  \A r \in DOMAIN review, s \in Strings :
    item[r][s].decision # "PENDING" => item[r][s].decider # review[r].by

\* FR-176: completing a review whose answers are OK and up to date leaves none of the
\* strings it was about awaiting approval.
FollowUpClears ==
  [][\A u \in Reviewers :
       /\ Complete(u)
       /\ \A s \in Required :
            item[ReviewOf(u)][s].verdict = "OK" /\ item[ReviewOf(u)][s].shown = Effective(s)
       => Required \intersect Pending' = {}]_vars

\* FR-176: an OK is the answer to the text that the reviewer read.
ApprovedAsRead ==
  [][\A u \in Reviewers, s \in Strings :
       Save(u, s, "OK", NoText) => item'[ReviewOf(u)][s].shown = page[u][s]]_vars

\* FR-176: a review asks for nothing that cannot be answered.
ReviewsCanBeCompleted ==
  \A r \in DOMAIN review : review[r].open =>
    \A s \in Required : s \in used \/ HasVerdict(r, s)
=============================================================================
