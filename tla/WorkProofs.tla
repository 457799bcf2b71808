------------------------------ MODULE WorkProofs ------------------------------
(***************************************************************************)
(* Theorems about the work around the life of a code, for every number of  *)
(* people, forms, rows, requests and versions.  Each part has an inductive *)
(* invariant of its own; a step of another part leaves it alone.           *)
(***************************************************************************)
EXTENDS Work, FiniteSetTheorems, TLAPS

-----------------------------------------------------------------------------
(* The Draft form.  A form never names a version to come, and shows the    *)
(* text of the version it names; what a signer vouched for is what the     *)
(* revision still says, since only a Draft is edited and a rejection takes *)
(* both sign-offs back.                                                    *)

Text == [text : Nat, access : Nat]

Draft == [status : {"DRAFT", "REVIEW", "PENDING_APPROVAL", "APPROVED"}, version : Nat \ {0},
          text : Nat, access : Nat, planned : Nat, reviewer : BOOLEAN, admin : BOOLEAN]

Form == [open : BOOLEAN, version : Nat, text : Nat, planned : Nat]

EditingInv ==
  /\ draft \in Draft
  /\ form \in [Editors -> Form]
  /\ vouched \in [reviewer : Text, admin : Text]
  /\ changes \in Nat
  /\ \A e \in Editors :
       /\ form[e].version <= draft.version
       /\ form[e].open /\ form[e].version = draft.version => form[e].text = draft.text
  /\ draft.status = "DRAFT" => ~draft.reviewer /\ ~draft.admin
  /\ draft.status \in {"PENDING_APPROVAL", "APPROVED"} => draft.reviewer /\ draft.admin
  /\ draft.reviewer => vouched.reviewer.text = draft.text
  /\ draft.admin => vouched.admin = Editing!Content(draft)

LEMMA EditingBegins == Editing!Init => EditingInv
BY DEF Editing!Init, Editing!NoForm, Editing!Content, EditingInv, Draft, Form, Text

\* One form changes, the revision does not.
LEMMA OneFormChanges ==
  ASSUME EditingInv, NEW e \in Editors, NEW f \in Form, form' = [form EXCEPT ![e] = f],
         UNCHANGED <<draft, vouched, changes>>,
         f.version <= draft.version, f.open /\ f.version = draft.version => f.text = draft.text
  PROVE  EditingInv'
BY DEF EditingInv

\* A save: the version grows, so that no other form names it.
LEMMA SaveKeeps ==
  ASSUME EditingInv, NEW e \in Editors, Editing!update_draft(e)
  PROVE  EditingInv'
<1> DEFINE x == Editing!Fresh
           p == form[e].planned
           v == draft.version + 1
<1>1. /\ form' = [form EXCEPT ![e] = Editing!NoForm]
      /\ changes' = x /\ vouched' = vouched /\ draft.status = "DRAFT"
  BY DEF Editing!update_draft, Editing!Change, Editing!signing
<1>2. x \in Nat /\ p \in Nat /\ v \in Nat \ {0} /\ draft \in Draft
  BY DEF EditingInv, Editing!Fresh, Form, Draft
<1>3. /\ draft' \in Draft /\ draft'.version = v
      /\ draft'.status = draft.status
      /\ draft'.reviewer = draft.reviewer /\ draft'.admin = draft.admin
  <2>1. draft' = [draft EXCEPT !.text = x, !.access = x, !.planned = p, !.version = v]
    BY Zenon DEF Editing!update_draft
  <2> HIDE DEF x, p, v
  <2> QED BY ONLY <1>2, <2>1 DEF Draft
<1>4. Editing!NoForm \in Form
  BY DEF Editing!NoForm, Form
<1>5. form' \in [Editors -> Form]
  BY <1>1, <1>4 DEF EditingInv
<1>6. \A g \in Editors : form'[g].version < draft'.version
  <2> TAKE g \in Editors
  <2>1. CASE g = e
    <3>1. form'[g] = Editing!NoForm /\ v \in Nat \ {0}
      BY <1>1, <1>2, <2>1 DEF EditingInv
    <3> QED BY <1>3, <3>1 DEF Editing!NoForm
  <2>2. CASE g # e
    <3>1. form'[g] = form[g] /\ form[g].version \in Nat /\ form[g].version <= draft.version
      BY <1>1, <2>2 DEF EditingInv, Form
    <3> QED BY <1>2, <1>3, <3>1 DEF Draft
  <2> QED BY <2>1, <2>2
<1>7. \A g \in Editors : form'[g].version \in Nat /\ draft'.version \in Nat
  BY <1>3, <1>5 DEF Form, Draft
<1> QED BY <1>1, <1>2, <1>3, <1>5, <1>6, <1>7 DEF EditingInv

\* The revision changes, the forms and the text do not, nor the version they name.
LEMMA RevisionChanges ==
  ASSUME EditingInv, UNCHANGED form, draft' \in Draft, changes' \in Nat,
         vouched' \in [reviewer : Text, admin : Text],
         draft'.version = draft.version, draft'.text = draft.text,
         draft'.status = "DRAFT" => ~draft'.reviewer /\ ~draft'.admin,
         draft'.status \in {"PENDING_APPROVAL", "APPROVED"} => draft'.reviewer /\ draft'.admin,
         draft'.reviewer => vouched'.reviewer.text = draft'.text,
         draft'.admin => vouched'.admin = Editing!Content(draft')
  PROVE  EditingInv'
BY DEF EditingInv

LEMMA EditingStep ==
  ASSUME EditingInv, Editing!Next
  PROVE  EditingInv'
<1> draft \in Draft /\ form \in [Editors -> Form] /\ changes \in Nat
    /\ vouched \in [reviewer : Text, admin : Text]
  BY DEF EditingInv
<1>1. ASSUME NEW e \in Editors, Editing!OpenForm(e) PROVE EditingInv'
  <2>1. PICK shown \in {0, draft.version} :
          form' = [form EXCEPT ![e] = [open |-> TRUE, version |-> shown, text |-> draft.text,
                                       planned |-> draft.planned]]
    BY <1>1 DEF Editing!OpenForm
  <2> DEFINE f == [open |-> TRUE, version |-> shown, text |-> draft.text,
                   planned |-> draft.planned]
  <2>2. f \in Form /\ f.version <= draft.version /\ f.text = draft.text
    BY DEF Form, Draft
  <2>3. UNCHANGED <<draft, vouched, changes>>
    BY <1>1 DEF Editing!OpenForm, Editing!signing
  <2> HIDE DEF f
  <2> QED BY <2>1, <2>2, <2>3, OneFormChanges DEF f
<1>2. ASSUME NEW e \in Editors, Editing!update_draft(e) PROVE EditingInv'
  BY <1>2, SaveKeeps
<1>3. ASSUME NEW e \in Editors, Editing!ShowConflict(e) PROVE EditingInv'
  <2>1. PICK f : f = [form[e] EXCEPT !.version = draft.version, !.text = draft.text]
    OBVIOUS
  <2>2. draft.version \in Nat /\ draft.text \in Nat /\ form[e] \in Form
    BY DEF Draft
  <2>3. f \in Form /\ f.version = draft.version /\ f.text = draft.text
    BY ONLY <2>1, <2>2 DEF Form
  <2>4. form' = [form EXCEPT ![e] = f] /\ UNCHANGED <<draft, vouched, changes>>
    BY <1>3, <2>1, <2>2 DEF Editing!ShowConflict, Editing!signing
  <2>5. f.version <= draft.version
    BY <2>2, <2>3
  <2> QED BY <2>3, <2>4, <2>5, OneFormChanges
<1>4. ASSUME NEW e \in Editors, Editing!TurnAway(e) PROVE EditingInv'
  <2>1. Editing!NoForm \in Form /\ Editing!NoForm.version = 0 /\ ~Editing!NoForm.open
    BY DEF Editing!NoForm, Form
  <2>2. form' = [form EXCEPT ![e] = Editing!NoForm] /\ UNCHANGED <<draft, vouched, changes>>
    BY <1>4 DEF Editing!TurnAway, Editing!signing
  <2>3. Editing!NoForm.version <= draft.version
    BY <2>1 DEF Draft
  <2> QED BY <2>1, <2>2, <2>3, OneFormChanges
<1>5. ASSUME Editing!set_planned_dates PROVE EditingInv'
  <2> DEFINE x == Editing!Fresh
  <2>1. draft' = [draft EXCEPT !.planned = x] /\ changes' = x /\ UNCHANGED <<form, vouched>>
    BY <1>5 DEF Editing!set_planned_dates, Editing!Change, Editing!signing
  <2>2. x \in Nat
    BY DEF Editing!Fresh
  <2> HIDE DEF x
  <2>3. /\ draft' \in Draft /\ draft'.version = draft.version /\ draft'.text = draft.text
        /\ draft'.status = draft.status /\ draft'.access = draft.access
        /\ draft'.reviewer = draft.reviewer /\ draft'.admin = draft.admin
    BY ONLY <2>1, <2>2, draft \in Draft DEF Draft
  <2> QED BY <2>1, <2>2, <2>3, RevisionChanges DEF EditingInv, Editing!Content
<1>6. ASSUME Editing!submit PROVE EditingInv'
  <2>1. draft' = [draft EXCEPT !.status = "REVIEW"] /\ UNCHANGED <<form, vouched, changes>>
        /\ draft.status = "DRAFT"
    BY <1>6 DEF Editing!submit, Editing!signing
  <2>2. /\ draft' \in Draft /\ draft'.version = draft.version /\ draft'.text = draft.text
        /\ draft'.status = "REVIEW" /\ draft'.access = draft.access
        /\ draft'.reviewer = draft.reviewer /\ draft'.admin = draft.admin
    BY ONLY <2>1, draft \in Draft DEF Draft
  <2> QED BY <2>1, <2>2, RevisionChanges DEF EditingInv, Editing!Content
<1>7. ASSUME Editing!OpenReview PROVE EditingInv'
  BY <1>7 DEF Editing!OpenReview, EditingInv
<1>8. ASSUME Editing!reviewer_signoff PROVE EditingInv'
  <2> DEFINE signed == [draft EXCEPT !.reviewer = TRUE]
             status == IF signed.reviewer /\ signed.admin THEN "PENDING_APPROVAL" ELSE "REVIEW"
             signedFor == Editing!Content(draft)
  <2>1. /\ draft' = [signed EXCEPT !.status = status]
        /\ vouched' = [vouched EXCEPT !.reviewer = signedFor]
        /\ UNCHANGED <<form, changes>>
    BY <1>8, Zenon DEF Editing!reviewer_signoff, Editing!Signed
  <2>2. signedFor \in Text /\ signedFor.text = draft.text
    BY DEF Editing!Content, Text, Draft
  <2>3. /\ signed \in Draft /\ signed.version = draft.version /\ signed.text = draft.text
        /\ signed.access = draft.access /\ signed.reviewer /\ signed.admin = draft.admin
    BY ONLY draft \in Draft DEF Draft
  <2> HIDE DEF signed, signedFor
  <2>4. status \in {"PENDING_APPROVAL", "REVIEW"} /\ (status = "PENDING_APPROVAL" => draft.admin)
    BY <2>3
  <2> HIDE DEF status
  <2>5. /\ draft' \in Draft /\ draft'.version = draft.version /\ draft'.text = draft.text
        /\ draft'.status = status /\ draft'.access = draft.access
        /\ draft'.reviewer /\ draft'.admin = draft.admin
    BY ONLY <2>1, <2>3, <2>4 DEF Draft
  <2>6. /\ vouched' \in [reviewer : Text, admin : Text]
        /\ vouched'.reviewer.text = draft.text /\ vouched'.admin = vouched.admin
    BY <2>1, <2>2
  <2> QED BY <2>1, <2>4, <2>5, <2>6, RevisionChanges DEF EditingInv, Editing!Content
<1>9. ASSUME Editing!admin_signoff PROVE EditingInv'
  <2> DEFINE Confirmed(x) ==
               /\ draft' = Editing!Signed([draft EXCEPT !.admin = TRUE, !.access = x])
               /\ changes' \in Nat
  <2>1. PICK access \in Nat : Confirmed(access)
    <3>1. CASE draft' = Editing!Signed([draft EXCEPT !.admin = TRUE]) /\ UNCHANGED changes
      <4>1. [draft EXCEPT !.admin = TRUE] = [draft EXCEPT !.admin = TRUE, !.access = draft.access]
        BY ONLY draft \in Draft DEF Draft
      <4>2. draft.access \in Nat
        BY DEF Draft
      <4>3. Confirmed(draft.access)
        BY <3>1, <4>1
      <4> HIDE DEF Confirmed
      <4> QED BY <4>2, <4>3
    <3>2. CASE draft' = Editing!Signed([draft EXCEPT !.admin = TRUE, !.access = Editing!Fresh])
               /\ Editing!Change
      <4>1. Editing!Fresh \in Nat /\ changes' = Editing!Fresh
        BY <3>2 DEF Editing!Change, Editing!Fresh
      <4>2. Confirmed(Editing!Fresh)
        BY <3>2, <4>1
      <4> HIDE DEF Confirmed
      <4> QED BY <4>1, <4>2
    <3> QED BY <1>9, <3>1, <3>2 DEF Editing!admin_signoff
  <2> DEFINE signed == [draft EXCEPT !.admin = TRUE, !.access = access]
             status == IF signed.reviewer /\ signed.admin THEN "PENDING_APPROVAL" ELSE "REVIEW"
             signedFor == Editing!Content(draft')
  <2>2. /\ draft' = [signed EXCEPT !.status = status]
        /\ vouched' = [vouched EXCEPT !.admin = signedFor]
        /\ UNCHANGED form
    BY <1>9, <2>1, Zenon DEF Editing!admin_signoff, Editing!Signed
  <2>3. /\ signed \in Draft /\ signed.version = draft.version /\ signed.text = draft.text
        /\ signed.reviewer = draft.reviewer /\ signed.admin
    BY ONLY draft \in Draft, access \in Nat DEF Draft
  <2> HIDE DEF signed, signedFor
  <2>4. status \in {"PENDING_APPROVAL", "REVIEW"} /\ (status = "PENDING_APPROVAL" => draft.reviewer)
    BY <2>3
  <2> HIDE DEF status
  <2>5. /\ draft' \in Draft /\ draft'.version = draft.version /\ draft'.text = draft.text
        /\ draft'.status = status /\ draft'.reviewer = draft.reviewer /\ draft'.admin
    BY ONLY <2>2, <2>3, <2>4 DEF Draft
  <2>6. signedFor \in Text
    BY <2>5 DEF signedFor, Editing!Content, Text, Draft
  <2>7. /\ vouched' \in [reviewer : Text, admin : Text]
        /\ vouched'.reviewer = vouched.reviewer /\ vouched'.admin = signedFor
    BY <2>2, <2>6
  <2> QED BY <2>1, <2>2, <2>4, <2>5, <2>7, RevisionChanges DEF EditingInv, signedFor
<1>10. ASSUME Editing!Reject PROVE EditingInv'
  <2> DEFINE cleared == [draft EXCEPT !.reviewer = FALSE, !.admin = FALSE]
  <2>1. draft' = [cleared EXCEPT !.status = "DRAFT"] /\ UNCHANGED <<form, vouched, changes>>
    BY <1>10, Zenon DEF Editing!Reject, Editing!clear_review_signoffs, Editing!signing
  <2>2. /\ cleared \in Draft /\ cleared.version = draft.version /\ cleared.text = draft.text
        /\ ~cleared.reviewer /\ ~cleared.admin
    BY ONLY draft \in Draft DEF Draft
  <2> HIDE DEF cleared
  <2>3. /\ draft' \in Draft /\ draft'.version = draft.version /\ draft'.text = draft.text
        /\ draft'.status = "DRAFT" /\ ~draft'.reviewer /\ ~draft'.admin
    BY ONLY <2>1, <2>2 DEF Draft
  <2> QED BY <2>1, <2>3, RevisionChanges
<1>11. ASSUME Editing!Approve PROVE EditingInv'
  <2>1. draft' = [draft EXCEPT !.status = "APPROVED"] /\ UNCHANGED <<form, vouched, changes>>
        /\ draft.status = "PENDING_APPROVAL"
    BY <1>11 DEF Editing!Approve, Editing!signing
  <2>2. /\ draft' \in Draft /\ draft'.version = draft.version /\ draft'.text = draft.text
        /\ draft'.status = "APPROVED" /\ draft'.access = draft.access
        /\ draft'.reviewer = draft.reviewer /\ draft'.admin = draft.admin
    BY ONLY <2>1, draft \in Draft DEF Draft
  <2> QED BY <2>1, <2>2, RevisionChanges DEF EditingInv, Editing!Content
<1>12. ASSUME NEW i \in Items, Editing!update_item(i) PROVE EditingInv'
  BY <1>12 DEF Editing!update_item, Editing!Change, Editing!Fresh, EditingInv
<1> QED BY <1>1, <1>2, <1>3, <1>4, <1>5, <1>6, <1>7, <1>8, <1>9, <1>10, <1>11, <1>12
        DEF Editing!Next

\* Only a save counts as a version.
LEMMA VersionStays ==
  ASSUME EditingInv, Editing!Next, \A e \in Editors : ~Editing!update_draft(e)
  PROVE  draft'.version = draft.version
<1> draft \in Draft
  BY DEF EditingInv
<1>1. ASSUME NEW r \in Draft, NEW s \in {"DRAFT", "REVIEW", "PENDING_APPROVAL", "APPROVED"}
      PROVE  [r EXCEPT !.status = s] \in Draft /\ [r EXCEPT !.status = s].version = r.version
  BY ONLY <1>1 DEF Draft
<1>2. ASSUME NEW r \in Draft PROVE Editing!Signed(r).version = r.version
  BY <1>1 DEF Editing!Signed
<1>3. CASE Editing!set_planned_dates
  BY <1>3 DEF Editing!set_planned_dates, Draft
<1>4. CASE Editing!submit \/ Editing!Approve
  BY <1>1, <1>4 DEF Editing!submit, Editing!Approve
<1>5. CASE Editing!reviewer_signoff
  <2> DEFINE d == [draft EXCEPT !.reviewer = TRUE]
  <2>1. d \in Draft /\ d.version = draft.version
    BY ONLY draft \in Draft DEF Draft
  <2>2. draft' = Editing!Signed(d)
    BY <1>5 DEF Editing!reviewer_signoff
  <2> HIDE DEF d
  <2> QED BY <1>2, <2>1, <2>2
<1>6. CASE Editing!admin_signoff
  <2> DEFINE d == [draft EXCEPT !.admin = TRUE]
             x == Editing!Fresh
             g == [draft EXCEPT !.admin = TRUE, !.access = x]
  <2>1. d \in Draft /\ d.version = draft.version
    BY ONLY draft \in Draft DEF Draft
  <2>2. x \in Nat
    BY DEF Editing!Fresh, EditingInv
  <2>3. draft' = Editing!Signed(d) \/ draft' = Editing!Signed(g)
    BY <1>6 DEF Editing!admin_signoff
  <2> HIDE DEF d, x
  <2>4. g \in Draft /\ g.version = draft.version
    BY ONLY draft \in Draft, <2>2 DEF Draft
  <2> HIDE DEF g
  <2> QED BY <1>2, <2>1, <2>3, <2>4
<1>7. CASE Editing!Reject
  <2> DEFINE d == Editing!clear_review_signoffs(draft)
  <2>1. d \in Draft /\ d.version = draft.version
    BY ONLY draft \in Draft DEF Draft, Editing!clear_review_signoffs
  <2>2. draft' = [d EXCEPT !.status = "DRAFT"]
    BY <1>7 DEF Editing!Reject
  <2> HIDE DEF d
  <2> QED BY <1>1, <2>1, <2>2
<1> QED BY <1>3, <1>4, <1>5, <1>6, <1>7
        DEF Editing!Next, Editing!OpenForm, Editing!ShowConflict, Editing!TurnAway,
            Editing!OpenReview, Editing!update_item

\* ApprovedAsSigned: what the Chief Engineer is asked about and approves is the text both
\* sign-offs were given for and the access levels the administrator confirmed, over any
\* number of rejections, edits and forms (change_request_service, BR-012).
THEOREM WorkApprovedAsSigned == Spec => []ApprovedAsSigned
<1>1. Init => EditingInv
  BY EditingBegins DEF Init
<1>2. EditingInv /\ [Next]_vars => EditingInv'
  <2> SUFFICES ASSUME EditingInv, [Next]_vars PROVE EditingInv'
    OBVIOUS
  <2>1. Editing!Next \/ UNCHANGED editing
    BY DEF Next, Only, vars
  <2>2. ASSUME UNCHANGED editing PROVE EditingInv'
    BY <2>2 DEF editing, EditingInv, Editing!Content
  <2> QED BY <2>1, <2>2, EditingStep
<1>3. EditingInv => ApprovedAsSigned
  BY DEF EditingInv, ApprovedAsSigned, Editing!ApprovedAsSigned
<1> QED BY <1>1, <1>2, <1>3, PTL DEF Spec

\* NoSaveIsUndone: however many forms are open, a save that names a version changes the text
\* its user has seen and nobody's in between (update_draft, BR-019).
THEOREM WorkNoSaveIsUndone == Spec => NoSaveIsUndone
<1>1. Init => EditingInv
  BY EditingBegins DEF Init
<1>2. [Next]_vars => [Editing!Next]_editing
  BY DEF Next, Only, vars
<1>3. EditingInv /\ [Editing!Next]_editing => EditingInv'
  <2>1. ASSUME EditingInv, UNCHANGED editing PROVE EditingInv'
    BY <2>1 DEF editing, EditingInv, Editing!Content
  <2> QED BY <2>1, EditingStep
<1>4. EditingInv /\ [Editing!Next]_editing =>
        [\A e \in Editors : form[e].open /\ form[e].version # 0
                            /\ draft'.version # draft.version /\ ~form'[e].open
           => form[e].text = draft.text]_editing
  <2> SUFFICES ASSUME EditingInv, Editing!Next, NEW e \in Editors,
                      form[e].open, form[e].version # 0,
                      draft'.version # draft.version, ~form'[e].open
               PROVE  form[e].text = draft.text
    OBVIOUS
  <2> draft \in Draft /\ form \in [Editors -> Form]
    BY DEF EditingInv
  <2>1. ASSUME NEW g \in Editors, Editing!update_draft(g) PROVE form[e].text = draft.text
    <3>1. form' = [form EXCEPT ![g] = Editing!NoForm]
      BY <2>1 DEF Editing!update_draft
    <3>2. g = e
      BY <3>1
    <3> QED BY <2>1, <3>2 DEF Editing!update_draft, Editing!_check_not_stale, EditingInv
  <2>2. CASE \A g \in Editors : ~Editing!update_draft(g)
    BY <2>2, VersionStays
  <2> QED BY <2>1, <2>2
<1> QED BY <1>1, <1>2, <1>3, <1>4, PTL
        DEF Spec, NoSaveIsUndone, Editing!NoSaveIsUndone, Editing!vars, editing

-----------------------------------------------------------------------------
(* The mapping.  A row is rewritten with a new version only, so a request  *)
(* whose rows have the versions it was made on still shows what they say.  *)

Settings == {"NONE", "APPROVED", "ISSUED", "PROPOSED", "FROM_PROGRAM", "REJECTED"}

\* What rows may say; a place without a row says something, too.
Cores == Mapping!Core \union {Mapping!NoRow.core}

Cell == [core : Cores, version : Nat, status : Settings]

Request == [action : {"ADD", "CHANGE", "CONFIRM", "REJECT"}, row : RowIds \union {Mapping!AnyRow},
            base : Nat, before : Cores, after : Cores]

Vote == [role : Mapping!Approvers, user : Officials, decision : {"APPROVE", "REJECT"}]

Question == [state : {"NONE", "OPEN", "APPLIED", "REJECTED", "WITHDRAWN"},
             requester : Officials \union {Nobody}, items : SUBSET Request,
             approvals : SUBSET Vote]

\* The request is about rows there are, and knows what they say if they have the version
\* it was made on.
Informed(items) ==
  \A i \in items : i.action # "ADD" =>
    /\ i.row \in Mapping!Stored
    /\ i.base <= table[i.row].version
    /\ i.base = table[i.row].version => i.before = table[i.row].core

\* Every approval is of a person and a role of its own.
Independent(approvals) ==
  \A a, b \in approvals :
    a.decision = "APPROVE" /\ (a # b => a.role # b.role /\ a.user # b.user)

Asked(question) ==
  question.state = "OPEN" => Informed(question.items) /\ Independent(question.approvals)

MappingInv ==
  /\ table \in [RowIds -> Cell]
  /\ change \in [ChangeIds -> Question]
  /\ Mapping!NumbersUnique
  /\ \A k \in ChangeIds : Asked(change[k])

Adds(items) == {i \in items : i.action = "ADD"}

LEMMA MappingBegins == Mapping!Init => MappingInv
<1> SUFFICES ASSUME Mapping!Init PROVE MappingInv
  OBVIOUS
<1>1. Mapping!NoRow \in Cell /\ Mapping!NoRow.status = "NONE"
  BY DEF Mapping!NoRow, Cell, Cores, Settings
<1>2. Mapping!NoChange \in Question /\ Mapping!NoChange.state = "NONE"
  BY DEF Mapping!NoChange, Question
<1>3. table = [r \in RowIds |-> Mapping!NoRow] /\ change = [k \in ChangeIds |-> Mapping!NoChange]
  BY DEF Mapping!Init, Mapping!MappingInit
<1> HIDE DEF Mapping!NoRow, Mapping!NoChange
<1> QED BY <1>1, <1>2, <1>3 DEF MappingInv, Asked, Mapping!NumbersUnique, Mapping!Stored

\* The rows as a request that is applied writes them: its own, and a free one for each that
\* it adds.
Written(items, place) ==
  /\ place \in [Adds(items) -> RowIds \ Mapping!Stored]
  /\ \A i, j \in Adds(items) : place[i] = place[j] => i = j
  /\ table' \in [RowIds -> Cell]
  /\ \A i \in items \ Adds(items) :
       /\ i.row \in Mapping!Stored
       /\ table'[i.row].core = i.after
       /\ table'[i.row].version = table[i.row].version + 1
       /\ table'[i.row].status = Mapping!StatusAfter(i)
  /\ \A i \in Adds(items) :
       table'[place[i]].core = i.after /\ table'[place[i]].status = "APPROVED"
  /\ \A r \in RowIds \ Mapping!Changed(items) :
       (\A i \in Adds(items) : place[i] # r) => table'[r] = table[r]

LEMMA RowsAreWritten ==
  ASSUME MappingInv, NEW items \in SUBSET Request, Mapping!Fits(items), Mapping!Write(items)
  PROVE  \E place : Written(items, place)
<1> DEFINE adds == Adds(items)
           free == RowIds \ Mapping!Stored
<1>1. PICK place \in Mapping!Injection(adds, free) :
        table' = [r \in RowIds |->
          IF \E i \in items \ adds : i.row = r
          THEN LET i == CHOOSE j \in items \ adds : j.row = r IN
               [core |-> i.after, version |-> table[r].version + 1,
                status |-> Mapping!StatusAfter(i)]
          ELSE IF \E i \in adds : place[i] = r
               THEN LET i == CHOOSE j \in adds : place[j] = r IN
                    [core |-> i.after, version |-> 1, status |-> Mapping!StatusAfter(i)]
               ELSE table[r]]
  BY DEF Mapping!Write, Adds
<1>2. place \in [adds -> free] /\ \A i, j \in adds : place[i] = place[j] => i = j
  BY DEF Mapping!Injection, Mapping!IsInjective
<1>3. \A i \in items : /\ Mapping!StatusAfter(i) \in Settings
                       /\ Mapping!StatusAfter(i) # "NONE"
                       /\ i.after \in Cores
                       /\ i.action = "ADD" => Mapping!StatusAfter(i) = "APPROVED"
  BY DEF Mapping!StatusAfter, Settings, Request
<1>4. \A i \in items \ adds : i.row \in Mapping!Stored /\ i.row \in RowIds
  BY DEF Mapping!Fits, Mapping!Stored, Adds
<1>5. \A r \in RowIds : table[r] \in Cell /\ table[r].version \in Nat
  BY DEF MappingInv, Cell
<1>6. ASSUME NEW i \in items \ adds
      PROVE  table'[i.row] = [core |-> i.after, version |-> table[i.row].version + 1,
                              status |-> Mapping!StatusAfter(i)]
  <2>1. \A j \in items \ adds : j.row = i.row => j = i
    BY DEF Mapping!Fits, Adds
  <2>2. (CHOOSE j \in items \ adds : j.row = i.row) = i
    BY <2>1
  <2> QED BY <1>1, <1>4, <2>2
<1>7. ASSUME NEW i \in adds
      PROVE  table'[place[i]] = [core |-> i.after, version |-> 1,
                                 status |-> Mapping!StatusAfter(i)]
  <2>1. (CHOOSE j \in adds : place[j] = place[i]) = i
    BY <1>2
  <2>2. place[i] \in RowIds /\ ~\E j \in items \ adds : j.row = place[i]
    BY <1>2, <1>4
  <2> QED BY <1>1, <2>1, <2>2
<1>8. ASSUME NEW r \in RowIds, \A i \in items \ adds : i.row # r, \A i \in adds : place[i] # r
      PROVE  table'[r] = table[r]
  BY <1>1, <1>8
<1>9. table' \in [RowIds -> Cell]
  <2>1. DOMAIN table' = RowIds /\ table' = [r \in RowIds |-> table'[r]]
    BY <1>1
  <2>2. ASSUME NEW r \in RowIds PROVE table'[r] \in Cell
    <3> \A c \in Cores, v \in Nat, w \in Settings :
          [core |-> c, version |-> v, status |-> w] \in Cell
      BY DEF Cell
    <3>1. ASSUME NEW i \in items \ adds, i.row = r PROVE table'[r] \in Cell
      <4>1. i.after \in Cores /\ table[r].version + 1 \in Nat /\ Mapping!StatusAfter(i) \in Settings
        BY <1>3, <1>5
      <4> QED BY <1>6, <3>1, <4>1
    <3>2. ASSUME NEW i \in adds, place[i] = r PROVE table'[r] \in Cell
      <4>1. i.after \in Cores /\ Mapping!StatusAfter(i) \in Settings
        BY <1>3 DEF Adds
      <4> QED BY <1>7, <3>2, <4>1
    <3>3. CASE (\A i \in items \ adds : i.row # r) /\ \A i \in adds : place[i] # r
      BY <1>5, <1>8, <3>3
    <3> QED BY <3>1, <3>2, <3>3
  <2> QED BY <2>1, <2>2
<1>10. \A r \in RowIds \ Mapping!Changed(items) : \A i \in items \ adds : i.row # r
  BY DEF Mapping!Changed, Adds
<1>11. \A i \in items \ adds :
         /\ table'[i.row].core = i.after
         /\ table'[i.row].version = table[i.row].version + 1
         /\ table'[i.row].status = Mapping!StatusAfter(i)
  <2> TAKE i \in items \ adds
  <2>1. table'[i.row] = [core |-> i.after, version |-> table[i.row].version + 1,
                         status |-> Mapping!StatusAfter(i)]
    BY <1>6
  <2> QED BY ONLY <2>1
<1>12. \A i \in adds : table'[place[i]].core = i.after /\ table'[place[i]].status = "APPROVED"
  <2> TAKE i \in adds
  <2>1. table'[place[i]] = [core |-> i.after, version |-> 1, status |-> Mapping!StatusAfter(i)]
    BY <1>7
  <2>2. Mapping!StatusAfter(i) = "APPROVED"
    BY <1>3 DEF Adds
  <2> QED BY ONLY <2>1, <2>2
<1>13. \A r \in RowIds \ Mapping!Changed(items) :
         (\A i \in adds : place[i] # r) => table'[r] = table[r]
  BY <1>8, <1>10
<1>14. Written(items, place)
  BY ONLY <1>2, <1>4, <1>9, <1>11, <1>12, <1>13 DEF Written
<1> QED BY <1>14

\* Rows that are rewritten have a later version; none is taken away.
LEMMA RowsGrow ==
  ASSUME MappingInv, NEW items \in SUBSET Request, NEW place, Written(items, place)
  PROVE  /\ Mapping!Stored \subseteq Mapping!Stored'
         /\ \A r \in Mapping!Stored :
              \/ table'[r] = table[r]
              \/ table'[r].version = table[r].version + 1
<1> SUFFICES ASSUME NEW r \in Mapping!Stored
             PROVE  /\ r \in Mapping!Stored'
                    /\ \/ table'[r] = table[r]
                       \/ table'[r].version = table[r].version + 1
  OBVIOUS
<1>1. r \in RowIds /\ table[r].status # "NONE"
  BY DEF Mapping!Stored
<1>2. \A i \in Adds(items) : place[i] # r
  BY DEF Written
<1>3. CASE r \in Mapping!Changed(items)
  <2>1. PICK i \in items \ Adds(items) : i.row = r
    BY <1>3 DEF Mapping!Changed, Adds
  <2>2. table'[r].version = table[r].version + 1 /\ table'[r].status # "NONE"
    BY <2>1 DEF Written, Mapping!StatusAfter
  <2> QED BY <1>1, <2>2 DEF Mapping!Stored
<1>4. CASE r \notin Mapping!Changed(items)
  BY <1>1, <1>2, <1>4 DEF Written, Mapping!Stored
<1> QED BY <1>3, <1>4

\* A request that fits leaves no number twice: every row comes from an entry of its own among
\* those that were checked.
LEMMA NumbersStayUnique ==
  ASSUME MappingInv, NEW items \in SUBSET Request, NEW place, Written(items, place),
         Mapping!Unique(Mapping!Result(items))
  PROVE  Mapping!NumbersUnique'
<1> DEFINE Entry(r, p) ==
             /\ p \in Mapping!Result(items)
             /\ p[3] = table'[r].core
             /\ \/ p = <<"row", r, table[r].core>>
                \/ \E i \in items :
                     /\ p = <<"item", i, i.after>>
                     /\ \/ i \notin Adds(items) /\ i.row = r
                        \/ i \in Adds(items) /\ place[i] = r
<1>1. ASSUME NEW r \in Mapping!Stored' PROVE \E p : Entry(r, p)
  <2>1. r \in RowIds /\ table'[r].status # "NONE"
    BY DEF Mapping!Stored
  <2>2. CASE r \in Mapping!Changed(items)
    <3>1. PICK i \in items \ Adds(items) : i.row = r
      BY <2>2 DEF Mapping!Changed, Adds
    <3>2. table'[r].core = i.after
      BY <3>1 DEF Written
    <3>3. Entry(r, <<"item", i, i.after>>)
      BY <3>1, <3>2 DEF Mapping!Result
    <3> HIDE DEF Entry
    <3> QED BY <3>3
  <2>3. CASE \E i \in Adds(items) : place[i] = r
    <3>1. PICK i \in Adds(items) : place[i] = r
      BY <2>3
    <3>2. table'[r].core = i.after /\ i \in items
      BY <3>1 DEF Written, Adds
    <3>3. Entry(r, <<"item", i, i.after>>)
      BY <3>1, <3>2 DEF Mapping!Result
    <3> HIDE DEF Entry
    <3> QED BY <3>3
  <2>4. CASE r \notin Mapping!Changed(items) /\ \A i \in Adds(items) : place[i] # r
    <3>1. table'[r] = table[r] /\ r \in Mapping!Stored
      BY <2>1, <2>4 DEF Written, Mapping!Stored
    <3>2. Entry(r, <<"row", r, table[r].core>>)
      BY <2>4, <3>1 DEF Mapping!Result
    <3> HIDE DEF Entry
    <3> QED BY <3>2
  <2> QED BY <2>2, <2>3, <2>4
<1>2. ASSUME NEW r, NEW s, NEW p, Entry(r, p), Entry(s, p) PROVE r = s
  BY <1>2
<1> HIDE DEF Entry
<1> SUFFICES ASSUME NEW r \in Mapping!Stored', NEW s \in Mapping!Stored', r # s
             PROVE  /\ table'[r].core.number # table'[s].core.number
                    /\ table'[r].core.legacy \in Legacies =>
                         table'[r].core.legacy # table'[s].core.legacy
  BY DEF Mapping!NumbersUnique
<1>3. PICK p : Entry(r, p)
  BY <1>1
<1>4. PICK q : Entry(s, q)
  BY <1>1
<1>5. p # q /\ p \in Mapping!Result(items) /\ q \in Mapping!Result(items)
      /\ p[3] = table'[r].core /\ q[3] = table'[s].core
  BY <1>2, <1>3, <1>4 DEF Entry
<1>6. ~Mapping!Clash(table'[r].core, table'[s].core)
  BY <1>5 DEF Mapping!Unique
<1>7. \A x \in Legacies : x # Mapping!NoLegacy
  BY MappingAssumption DEF MappingAssumption, Mapping!MappingAssumption, Mapping!NoLegacy
<1> QED BY <1>6, <1>7 DEF Mapping!Clash

\* A request that was made on rows as they are knows of every later one that it is another.
LEMMA StillInformed ==
  ASSUME MappingInv, table' \in [RowIds -> Cell],
         Mapping!Stored \subseteq Mapping!Stored',
         \A r \in Mapping!Stored :
           \/ table'[r].core = table[r].core /\ table'[r].version = table[r].version
           \/ table'[r].version = table[r].version + 1,
         NEW items \in SUBSET Request, Informed(items)
  PROVE  Informed(items)'
<1> SUFFICES ASSUME NEW i \in items, i.action # "ADD"
             PROVE  /\ i.row \in Mapping!Stored'
                    /\ i.base <= table'[i.row].version
                    /\ i.base = table'[i.row].version => i.before = table'[i.row].core
  BY DEF Informed
<1>1. /\ i.row \in Mapping!Stored /\ i.row \in Mapping!Stored' /\ i.row \in RowIds
      /\ i.base <= table[i.row].version
      /\ i.base = table[i.row].version => i.before = table[i.row].core
  BY DEF Informed, Mapping!Stored
<1>2. i.base \in Nat /\ table[i.row].version \in Nat /\ table'[i.row].version \in Nat
  BY <1>1 DEF Request, MappingInv, Cell
<1> QED BY <1>1, <1>2

\* One request changes, the rows do not.
LEMMA RequestMoves ==
  ASSUME MappingInv, NEW k \in ChangeIds, NEW q \in Question, Asked(q),
         change' = [change EXCEPT ![k] = q], UNCHANGED table
  PROVE  MappingInv'
<1>1. change' \in [ChangeIds -> Question] /\ \A j \in ChangeIds : Asked(change'[j])
  BY DEF MappingInv
<1>2. \A x : Asked(x)' <=> Asked(x)
  BY DEF Asked, Informed, Mapping!Stored
<1> QED BY <1>1, <1>2 DEF MappingInv, Mapping!NumbersUnique, Mapping!Stored

\* What somebody may ask for: rows there are, or new ones.
Askable(items) ==
  items \in SUBSET Request /\ \A i \in items : i.action # "ADD" => i.row \in Mapping!Stored

LEMMA RequestsAreAskable ==
  ASSUME MappingInv, NEW items \in Mapping!Requests
  PROVE  Askable(items)
<1> DEFINE entry(action, r, core) ==
             [action |-> action, row |-> r, base |-> 1, before |-> core, after |-> core]
<1>1. \A c \in Mapping!Core : c \in Cores
  BY DEF Cores
<1>2. \A r \in Mapping!Stored : r \in RowIds /\ table[r].core \in Cores
  BY DEF Mapping!Stored, MappingInv, Cell
<1>3. \A c \in Cores, a \in {"ADD", "CHANGE", "CONFIRM", "REJECT"},
         r \in RowIds \union {Mapping!AnyRow} : entry(a, r, c) \in Request
  BY DEF Request
<1>4. ASSUME NEW i \in items
      PROVE  \/ \E c \in Mapping!Core : i = entry("ADD", Mapping!AnyRow, c)
             \/ \E r \in Mapping!Stored, c \in Mapping!Core : i = entry("CHANGE", r, c)
             \/ \E a \in {"CONFIRM", "REJECT"}, r \in Mapping!Stored :
                  i = entry(a, r, table[r].core)
  BY DEF Mapping!Requests
<1>5. ASSUME NEW i \in items
      PROVE  i \in Request /\ (i.action # "ADD" => i.row \in Mapping!Stored)
  <2>1. ASSUME NEW c \in Mapping!Core, i = entry("ADD", Mapping!AnyRow, c)
        PROVE  i \in Request /\ i.action = "ADD"
    BY <1>1, <1>3, <2>1
  <2>2. ASSUME NEW r \in Mapping!Stored, NEW c \in Mapping!Core, i = entry("CHANGE", r, c)
        PROVE  i \in Request /\ i.row = r
    BY <1>1, <1>2, <1>3, <2>2
  <2>3. ASSUME NEW a \in {"CONFIRM", "REJECT"}, NEW r \in Mapping!Stored,
               i = entry(a, r, table[r].core)
        PROVE  i \in Request /\ i.row = r
    BY <1>2, <1>3, <2>3
  <2> HIDE DEF entry
  <2> QED BY <1>4, <2>1, <2>2, <2>3
<1> QED BY <1>5 DEF Askable

LEMMA PlansAreAskable ==
  ASSUME MappingInv, NEW workbook \in Workbooks, NEW confirm \in BOOLEAN
  PROVE  Askable(Mapping!Plan(workbook, confirm))
<1> DEFINE entry(action, r, core) ==
             [action |-> action, row |-> r, base |-> 1, before |-> core, after |-> core]
<1>1. \A c \in workbook : c \in Cores
  BY MappingAssumption DEF MappingAssumption, Mapping!MappingAssumption, Cores
<1>2. \A r \in Mapping!Stored : r \in RowIds
  BY DEF Mapping!Stored
<1>3. \A c \in Cores, a \in {"ADD", "CHANGE", "CONFIRM", "REJECT"},
         r \in RowIds \union {Mapping!AnyRow} : entry(a, r, c) \in Request
  BY DEF Request
<1>4. ASSUME NEW i \in Mapping!Plan(workbook, confirm)
      PROVE  \/ \E c \in workbook : i = entry("ADD", Mapping!AnyRow, c)
             \/ \E a \in {"CONFIRM", "CHANGE"}, r \in Mapping!Stored, c \in workbook :
                  i = entry(a, r, c)
  BY DEF Mapping!Plan
<1>5. ASSUME NEW i \in Mapping!Plan(workbook, confirm)
      PROVE  i \in Request /\ (i.action # "ADD" => i.row \in Mapping!Stored)
  <2>1. ASSUME NEW c \in workbook, i = entry("ADD", Mapping!AnyRow, c)
        PROVE  i \in Request /\ i.action = "ADD"
    BY <1>1, <1>3, <2>1
  <2>2. ASSUME NEW a \in {"CONFIRM", "CHANGE"}, NEW r \in Mapping!Stored, NEW c \in workbook,
               i = entry(a, r, c)
        PROVE  i \in Request /\ i.row = r
    BY <1>1, <1>2, <1>3, <2>2
  <2> HIDE DEF entry
  <2> QED BY <1>4, <2>1, <2>2
<1> QED BY <1>5 DEF Askable

\* The items of a request as they are kept.
LEMMA ItemsAreRecorded ==
  ASSUME MappingInv, NEW items, Askable(items)
  PROVE  /\ Mapping!AsRequested(items) \in SUBSET Request
         /\ \A i \in Mapping!AsRequested(items) : i.action # "ADD" =>
              /\ i.row \in Mapping!Stored
              /\ i.base = table[i.row].version /\ i.before = table[i.row].core
<1> SUFFICES ASSUME NEW i \in Mapping!AsRequested(items)
             PROVE  /\ i \in Request
                    /\ i.action # "ADD" =>
                         /\ i.row \in Mapping!Stored
                         /\ i.base = table[i.row].version /\ i.before = table[i.row].core
  OBVIOUS
<1>1. PICK j \in items :
        i = IF j.action = "ADD" THEN j
            ELSE [j EXCEPT !.base = table[j.row].version, !.before = table[j.row].core,
                           !.after = IF j.action = "REJECT" THEN table[j.row].core ELSE j.after]
  BY DEF Mapping!AsRequested
<1>2. j \in Request /\ (j.action # "ADD" => j.row \in Mapping!Stored)
  BY DEF Askable
<1>3. CASE j.action = "ADD"
  BY <1>1, <1>2, <1>3
<1>4. CASE j.action # "ADD"
  <2> DEFINE base == table[j.row].version
             core == table[j.row].core
             after == IF j.action = "REJECT" THEN core ELSE j.after
  <2>1. base \in Nat /\ core \in Cores /\ j.row \in Mapping!Stored
    BY <1>2, <1>4 DEF Mapping!Stored, MappingInv, Cell
  <2>2. after \in Cores
    BY <1>2, <2>1 DEF Request
  <2>3. i = [j EXCEPT !.base = base, !.before = core, !.after = after]
    BY <1>1, <1>4
  <2> HIDE DEF base, core, after
  <2>4. /\ i \in Request /\ i.row = j.row /\ i.action = j.action
        /\ i.base = base /\ i.before = core
    BY ONLY <1>2, <2>1, <2>2, <2>3 DEF Request
  <2> QED BY <2>1, <2>4 DEF base, core
<1> QED BY <1>3, <1>4

\* The rows move on; the requests that stay open are the same.
LEMMA RowsMove ==
  ASSUME MappingInv, table' \in [RowIds -> Cell], Mapping!NumbersUnique',
         Mapping!Stored \subseteq Mapping!Stored',
         \A r \in Mapping!Stored :
           \/ table'[r].core = table[r].core /\ table'[r].version = table[r].version
           \/ table'[r].version = table[r].version + 1,
         change' \in [ChangeIds -> Question],
         \A k \in ChangeIds : change'[k].state = "OPEN" => change'[k] = change[k]
  PROVE  MappingInv'
<1> SUFFICES ASSUME NEW k \in ChangeIds PROVE Asked(change[k])'
  BY DEF MappingInv
<1>1. CASE change'[k].state # "OPEN"
  BY <1>1 DEF Asked
<1>2. CASE change'[k].state = "OPEN"
  <2> DEFINE items == change[k].items
  <2>1. change'[k] = change[k] /\ items \in SUBSET Request
    BY <1>2 DEF MappingInv, Question
  <2>2. Informed(items) /\ Independent(change[k].approvals)
    BY <1>2, <2>1 DEF MappingInv, Asked
  <2>3. ASSUME NEW S \in SUBSET Request, Informed(S) PROVE Informed(S)'
    BY <2>3, StillInformed
  <2>4. \A i \in items : i.action # "ADD" =>
          /\ i.row \in Mapping!Stored'
          /\ i.base <= table'[i.row].version
          /\ i.base = table'[i.row].version => i.before = table'[i.row].core
    BY <2>1, <2>2, <2>3 DEF Informed
  <2> QED BY <2>1, <2>2, <2>4 DEF Asked, Informed, Independent
<1> QED BY <1>1, <1>2

LEMMA ApplyMovesRows ==
  ASSUME MappingInv, NEW items \in SUBSET Request, Mapping!Apply(items)
  PROVE  /\ table' \in [RowIds -> Cell] /\ Mapping!NumbersUnique'
         /\ Mapping!Stored \subseteq Mapping!Stored'
         /\ \A r \in Mapping!Stored :
              \/ table'[r].core = table[r].core /\ table'[r].version = table[r].version
              \/ table'[r].version = table[r].version + 1
<1>1. Mapping!Fits(items) /\ Mapping!Write(items) /\ Mapping!Unique(Mapping!Result(items))
  BY DEF Mapping!Apply, Mapping!Fits
<1>2. PICK place : Written(items, place)
  BY <1>1, RowsAreWritten
<1>3. table' \in [RowIds -> Cell]
  BY <1>2 DEF Written
<1> QED BY <1>1, <1>2, <1>3, RowsGrow, NumbersStayUnique

\* Who may decide has one of the three roles and has not decided yet.
LEMMA DecisionIsTyped ==
  ASSUME MappingInv, NEW actor \in Officials, NEW k \in ChangeIds, Mapping!MayDecide(actor, k),
         NEW decision \in {"APPROVE", "REJECT"}
  PROVE  LET vote == [role |-> mapAccount[actor].role, user |-> actor, decision |-> decision]
         IN  /\ vote \in Vote
             /\ change[k].approvals \in SUBSET Vote
             /\ change[k].state = "OPEN" /\ Asked(change[k])
             /\ decision = "APPROVE" => Independent(change[k].approvals \union {vote})
<1> DEFINE vote == [role |-> mapAccount[actor].role, user |-> actor, decision |-> decision]
<1>1. vote \in Vote
  BY DEF Mapping!MayDecide, Mapping!HasRole, Vote
<1>2. change[k].state = "OPEN" /\ Asked(change[k]) /\ change[k].approvals \in SUBSET Vote
  BY DEF Mapping!MayDecide, MappingInv, Question
<1>3. \A a \in change[k].approvals : a.role # vote.role /\ a.user # vote.user
  BY DEF Mapping!MayDecide
<1>4. vote.decision = decision
  OBVIOUS
<1> HIDE DEF vote
<1>5. decision = "APPROVE" => Independent(change[k].approvals \union {vote})
  BY <1>2, <1>3, <1>4 DEF Asked, Independent
<1> QED BY <1>1, <1>2, <1>5 DEF vote

\* A decision, in terms of the request it is about.
LEMMA RequestIsDecided ==
  ASSUME MappingInv, NEW actor \in Officials, NEW k \in ChangeIds,
         NEW decision \in {"APPROVE", "REJECT"}, Mapping!Decide(actor, k, decision)
  PROVE  \E q \in Question :
           /\ change' = [change EXCEPT ![k] = q]
           /\ q.items = change[k].items /\ q.requester = change[k].requester
           /\ q.approvals = change[k].approvals \union
                {[role |-> mapAccount[actor].role, user |-> actor, decision |-> decision]}
           /\ \/ /\ decision = "REJECT" /\ q.state = "REJECTED" /\ UNCHANGED table
              \/ /\ decision = "APPROVE" /\ q.state = "OPEN" /\ UNCHANGED table
                 /\ {a.role : a \in q.approvals} # Mapping!Approvers
              \/ /\ decision = "APPROVE" /\ q.state = "APPLIED"
                 /\ Mapping!Apply(change[k].items)
                 /\ {a.role : a \in q.approvals} = Mapping!Approvers
<1> DEFINE vote == [role |-> mapAccount[actor].role, user |-> actor, decision |-> decision]
           approvals == change[k].approvals \union {vote}
           last == {a.role : a \in approvals} = Mapping!Approvers
           next == IF decision = "REJECT" THEN "REJECTED" ELSE IF last THEN "APPLIED" ELSE "OPEN"
<1>1. Mapping!MayDecide(actor, k)
  BY DEF Mapping!Decide
<1>2. approvals \in SUBSET Vote
  BY <1>1, DecisionIsTyped
<1>3. /\ change' = [change EXCEPT ![k].approvals = approvals, ![k].state = next]
      /\ IF decision = "APPROVE" /\ last THEN Mapping!Apply(change[k].items) ELSE UNCHANGED table
  BY Zenon DEF Mapping!Decide
<1>4. change \in [ChangeIds -> Question]
  BY DEF MappingInv
<1>5. last \in BOOLEAN /\ (last <=> {a.role : a \in approvals} = Mapping!Approvers)
  OBVIOUS
<1> HIDE DEF approvals, last
<1>6. /\ decision = "REJECT" => next = "REJECTED"
      /\ decision = "APPROVE" => next = IF last THEN "APPLIED" ELSE "OPEN"
      /\ next \in {"OPEN", "REJECTED", "APPLIED"}
  OBVIOUS
<1> HIDE DEF next
<1> DEFINE q == [change[k] EXCEPT !.approvals = approvals, !.state = next]
<1>7. change' = [change EXCEPT ![k] = q]
  BY ONLY <1>3, <1>4, k \in ChangeIds
<1>8. /\ q \in Question /\ q.items = change[k].items /\ q.requester = change[k].requester
      /\ q.approvals = approvals /\ q.state = next
  <2>1. change[k] \in Question
    BY <1>4
  <2> QED BY ONLY <1>2, <1>6, <2>1 DEF Question
<1> HIDE DEF q
<1> QED BY <1>3, <1>5, <1>6, <1>7, <1>8 DEF approvals

\* The seed workbook goes into an empty table.
LEMMA SeedMovesRows ==
  ASSUME MappingInv, NEW actor, NEW seed \in Seeds, Mapping!Seed(actor, seed)
  PROVE  /\ table' \in [RowIds -> Cell] /\ Mapping!NumbersUnique' /\ Mapping!Stored = {}
         /\ \A r \in RowIds : table'[r].core \in Mapping!Core
<1>1. \A r \in RowIds : seed[r] \in Mapping!Row
  BY MappingAssumption DEF MappingAssumption, Mapping!MappingAssumption
<1>2. table' = [r \in RowIds |-> [seed[r] EXCEPT !.version = 1]]
  BY DEF Mapping!Seed
<1>3. ASSUME NEW r \in RowIds
      PROVE  /\ table'[r] \in Cell
             /\ table'[r].core = seed[r].core /\ table'[r].status = seed[r].status
             /\ table'[r].core \in Mapping!Core
  <2>1. \A w \in Mapping!Row :
          /\ [w EXCEPT !.version = 1] \in Cell
          /\ [w EXCEPT !.version = 1].core = w.core
          /\ [w EXCEPT !.version = 1].status = w.status
          /\ w.core \in Mapping!Core
    BY DEF Mapping!Row, Cell, Cores, Settings, Mapping!Settled
  <2> QED BY <1>1, <1>2, <2>1
<1>4. table' \in [RowIds -> Cell]
  BY <1>2, <1>3
<1>5. Mapping!Stored = {}
  BY DEF Mapping!Seed, Mapping!EmptyTable, Mapping!Stored
<1>6. \A r, s \in Mapping!Stored' : r # s => ~Mapping!Clash(table'[r].core, table'[s].core)
  <2> SUFFICES ASSUME NEW r \in Mapping!Stored', NEW s \in Mapping!Stored', r # s
               PROVE  ~Mapping!Clash(seed[r].core, seed[s].core)
    BY <1>3 DEF Mapping!Stored
  <2> DEFINE result == {<<"row", w, seed[w].core>> :
                          w \in {v \in RowIds : seed[v].status # "NONE"}}
             p == <<"row", r, seed[r].core>>
             q == <<"row", s, seed[s].core>>
  <2>1. r \in RowIds /\ s \in RowIds /\ seed[r].status # "NONE" /\ seed[s].status # "NONE"
    BY <1>3 DEF Mapping!Stored
  <2>2. p \in result /\ q \in result /\ p # q /\ p[3] = seed[r].core /\ q[3] = seed[s].core
    BY <2>1
  <2>3. Mapping!Unique(result)
    BY DEF Mapping!Seed
  <2> HIDE DEF result, p, q
  <2> QED BY <2>2, <2>3 DEF Mapping!Unique
<1>7. \A x \in Legacies : x # Mapping!NoLegacy
  BY MappingAssumption DEF MappingAssumption, Mapping!MappingAssumption, Mapping!NoLegacy
<1> QED BY <1>3, <1>4, <1>5, <1>6, <1>7 DEF Mapping!NumbersUnique, Mapping!Clash

\* A number that is issued moves the version of its row, and nothing else of it.
LEMMA CatalogueMovesRows ==
  ASSUME MappingInv, NEW n, NEW imported \in BOOLEAN, Mapping!CatalogueTakes(n, imported)
  PROVE  /\ table' \in [RowIds -> Cell] /\ Mapping!NumbersUnique'
         /\ Mapping!Stored' = Mapping!Stored
         /\ \A r \in RowIds :
              /\ table'[r].core = table[r].core
              /\ table'[r].status \in {table[r].status, "ISSUED"}
              /\ table'[r].version \in {table[r].version, table[r].version + 1}
<1>1. ASSUME NEW r \in RowIds
      PROVE  /\ table'[r] \in Cell
             /\ table'[r].core = table[r].core
             /\ \/ table'[r].status = table[r].status
                \/ table'[r].status = "ISSUED" /\ table[r].status = "APPROVED"
             /\ table'[r].version \in {table[r].version, table[r].version + 1}
  <2>1. \A w \in Cell : w.version \in Nat
    BY DEF Cell
  <2>2. ASSUME NEW w \in Cell, NEW v \in Nat
        PROVE  /\ [w EXCEPT !.status = "ISSUED", !.version = v] \in Cell
               /\ [w EXCEPT !.status = "ISSUED", !.version = v].core = w.core
               /\ [w EXCEPT !.status = "ISSUED", !.version = v].status = "ISSUED"
               /\ [w EXCEPT !.status = "ISSUED", !.version = v].version = v
    BY ONLY w \in Cell, v \in Nat DEF Cell, Settings
  <2>3. table[r] \in Cell /\ table[r].version + 1 \in Nat
    BY <2>1 DEF MappingInv
  <2>4. \/ table'[r] = table[r]
        \/ /\ table'[r] = [table[r] EXCEPT !.status = "ISSUED", !.version = table[r].version + 1]
           /\ table[r].status = "APPROVED"
    BY DEF Mapping!CatalogueTakes
  <2> DEFINE w == table[r]
             v == table[r].version + 1
             new == [w EXCEPT !.status = "ISSUED", !.version = v]
  <2>5. new \in Cell /\ new.core = w.core /\ new.status = "ISSUED" /\ new.version = v
    BY <2>2, <2>3
  <2>6. table'[r] = w \/ (table'[r] = new /\ w.status = "APPROVED")
    BY <2>4
  <2> HIDE DEF new
  <2> QED BY <2>3, <2>5, <2>6
<1>2. table' \in [RowIds -> Cell]
  <2>1. table' = [r \in RowIds |-> table'[r]]
    BY DEF Mapping!CatalogueTakes
  <2> QED BY <1>1, <2>1
<1>3. Mapping!Stored' = Mapping!Stored
  BY <1>1 DEF Mapping!Stored
<1>4. Mapping!NumbersUnique'
  BY <1>1, <1>3 DEF Mapping!NumbersUnique, MappingInv, Mapping!Stored
<1> QED BY <1>1, <1>2, <1>3, <1>4

LEMMA MappingStep ==
  ASSUME MappingInv, Mapping!Next
  PROVE  MappingInv'
<1> table \in [RowIds -> Cell] /\ change \in [ChangeIds -> Question]
  BY DEF MappingInv
<1>1. ASSUME UNCHANGED Mapping!mappingVars PROVE MappingInv'
  BY <1>1 DEF Mapping!mappingVars, MappingInv, Asked, Informed, Independent,
              Mapping!NumbersUnique, Mapping!Stored
<1>2. ASSUME NEW actor \in Askers, NEW k \in ChangeIds, NEW items, Askable(items),
             Mapping!Propose(actor, k, items)
      PROVE  MappingInv'
  <2> DEFINE kept == Mapping!AsRequested(items)
             q == [state |-> "OPEN", requester |-> actor, items |-> kept, approvals |-> {}]
  <2>1. change' = [change EXCEPT ![k] = q] /\ UNCHANGED table
    BY <1>2 DEF Mapping!Propose
  <2>2. /\ kept \in SUBSET Request
        /\ \A i \in kept : i.action # "ADD" =>
             /\ i.row \in Mapping!Stored
             /\ i.base = table[i.row].version /\ i.before = table[i.row].core
    BY <1>2, ItemsAreRecorded
  <2> HIDE DEF kept
  <2>3. Informed(kept)
    <3> SUFFICES ASSUME NEW i \in kept, i.action # "ADD"
                 PROVE  i.base <= table[i.row].version
      BY <2>2 DEF Informed
    <3>1. i.base = table[i.row].version /\ i.base \in Nat
      BY <2>2 DEF Request
    <3> QED BY <3>1
  <2>4. actor \in Officials
    BY MappingAssumption DEF MappingAssumption, Mapping!MappingAssumption
  <2>5. q \in Question
    BY <2>2, <2>4 DEF Question
  <2>6. Asked(q)
    BY <2>3 DEF Asked, Independent
  <2> HIDE DEF q
  <2> QED BY <2>1, <2>5, <2>6, RequestMoves
<1>3. ASSUME NEW actor \in Officials, NEW k \in ChangeIds, Mapping!Withdraw(actor, k)
      PROVE  MappingInv'
  <2> DEFINE q == [change[k] EXCEPT !.state = "WITHDRAWN"]
  <2>1. change' = [change EXCEPT ![k] = q] /\ UNCHANGED table
    BY <1>3 DEF Mapping!Withdraw
  <2>2. change[k] \in Question
    OBVIOUS
  <2>3. q \in Question /\ q.state = "WITHDRAWN"
    BY ONLY <2>2 DEF Question
  <2> HIDE DEF q
  <2>4. Asked(q)
    BY <2>3 DEF Asked
  <2> QED BY <2>1, <2>3, <2>4, RequestMoves
<1>4. ASSUME NEW actor \in Officials, NEW k \in ChangeIds,
             NEW decision \in {"APPROVE", "REJECT"}, Mapping!Decide(actor, k, decision)
      PROVE  MappingInv'
  <2> DEFINE vote == [role |-> mapAccount[actor].role, user |-> actor, decision |-> decision]
  <2>1. PICK q \in Question :
           /\ change' = [change EXCEPT ![k] = q]
           /\ q.items = change[k].items /\ q.requester = change[k].requester
           /\ q.approvals = change[k].approvals \union {vote}
           /\ \/ decision = "REJECT" /\ q.state = "REJECTED" /\ UNCHANGED table
              \/ decision = "APPROVE" /\ q.state = "OPEN" /\ UNCHANGED table
              \/ decision = "APPROVE" /\ q.state = "APPLIED" /\ Mapping!Apply(change[k].items)
    BY <1>4, RequestIsDecided
  <2>2. /\ change[k].state = "OPEN" /\ Asked(change[k])
        /\ decision = "APPROVE" => Independent(change[k].approvals \union {vote})
    BY <1>4, DecisionIsTyped DEF Mapping!Decide
  <2> HIDE DEF vote
  <2>3. CASE UNCHANGED table /\ q.state = "REJECTED"
    BY <2>1, <2>3, RequestMoves DEF Asked
  <2>4. CASE UNCHANGED table /\ q.state = "OPEN" /\ decision = "APPROVE"
    <3>1. Asked(q)
      BY <2>1, <2>2, <2>4 DEF Asked
    <3> QED BY <2>1, <2>4, <3>1, RequestMoves
  <2>5. CASE q.state = "APPLIED" /\ Mapping!Apply(change[k].items)
    <3>1. change[k].items \in SUBSET Request
      BY DEF Question
    <3>2. change' \in [ChangeIds -> Question]
          /\ \A j \in ChangeIds : change'[j].state = "OPEN" => change'[j] = change[j]
      BY <2>1, <2>5
    <3> QED BY <2>5, <3>1, <3>2, ApplyMovesRows, RowsMove
  <2> QED BY <2>1, <2>3, <2>4, <2>5
<1>5. ASSUME NEW actor, NEW seed \in Seeds, Mapping!Seed(actor, seed) PROVE MappingInv'
  <2>1. change' = change
    BY <1>5 DEF Mapping!Seed
  <2> QED BY <1>5, <2>1, SeedMovesRows, RowsMove
<1>6. ASSUME NEW n, NEW imported \in BOOLEAN, Mapping!CatalogueTakes(n, imported)
      PROVE  MappingInv'
  <2>1. change' = change
    BY <1>6 DEF Mapping!CatalogueTakes
  <2>2. \A r \in Mapping!Stored : r \in RowIds
    BY DEF Mapping!Stored
  <2> QED BY <1>6, <2>1, <2>2, CatalogueMovesRows, RowsMove
<1>7. ASSUME NEW n, Mapping!CatalogueGivesUp(n) PROVE MappingInv'
  BY <1>1, <1>7 DEF Mapping!CatalogueGivesUp, Mapping!mappingVars, MappingInv, Asked, Informed,
              Independent, Mapping!NumbersUnique, Mapping!Stored
<1>8. ASSUME NEW actor \in Askers, NEW k \in ChangeIds, NEW workbook \in Workbooks,
             NEW confirm \in BOOLEAN, Mapping!ProposeWorkbook(actor, k, workbook, confirm)
      PROVE  MappingInv'
  BY <1>2, <1>8, PlansAreAskable DEF Mapping!ProposeWorkbook
<1>9. ASSUME NEW actor \in Askers, NEW k \in ChangeIds, NEW items \in Mapping!Requests,
             Mapping!Propose(actor, k, items)
      PROVE  MappingInv'
  BY <1>2, <1>9, RequestsAreAskable
<1> QED BY <1>1, <1>3, <1>4, <1>5, <1>6, <1>7, <1>8, <1>9 DEF Mapping!Next, Mapping!MappingNext

\* What a step does to the rows: nothing, a request's writing, the first filling or a number
\* that is issued.
LEMMA RowsChangeBy ==
  ASSUME MappingInv, Mapping!Next
  PROVE  \/ UNCHANGED table
         \/ \E items \in SUBSET Request : Mapping!Apply(items)
         \/ Mapping!Stored = {}
         \/ \E n \in NewNumbers, imported \in BOOLEAN : Mapping!CatalogueTakes(n, imported)
<1>1. ASSUME NEW actor \in Officials, NEW k \in ChangeIds,
             NEW decision \in {"APPROVE", "REJECT"}, Mapping!Decide(actor, k, decision)
      PROVE  UNCHANGED table \/ \E items \in SUBSET Request : Mapping!Apply(items)
  <2>1. change[k].items \in SUBSET Request
    BY DEF MappingInv, Question
  <2> QED BY <1>1, <2>1, RequestIsDecided
<1>2. ASSUME NEW actor, NEW seed \in Seeds, Mapping!Seed(actor, seed)
      PROVE  Mapping!Stored = {}
  BY <1>2, SeedMovesRows
<1> QED BY <1>1, <1>2 DEF Mapping!Next, Mapping!MappingNext, Mapping!mappingVars, Mapping!Propose,
        Mapping!ProposeWorkbook, Mapping!Withdraw, Mapping!CatalogueGivesUp

\* HeldNumbersStay: two rows never share a number, rejected rows included, and while a code
\* carries the number of a row no request renumbers or rejects it, made before or after the
\* code took it (mapping_change_service, FR-195).
THEOREM WorkHeldNumbersStay == Spec => HeldNumbersStay
<1>1. Init => MappingInv
  BY MappingBegins DEF Init
<1>2. [Next]_vars => [Mapping!Next]_mapping
  BY DEF Next, Only, vars
<1>3. MappingInv /\ [Mapping!Next]_mapping => MappingInv'
  <2>1. ASSUME MappingInv, UNCHANGED mapping PROVE MappingInv'
    BY <2>1 DEF mapping, MappingInv, Asked, Informed, Independent, Mapping!NumbersUnique,
                Mapping!Stored
  <2> QED BY <2>1, MappingStep
<1>4. MappingInv => Mapping!NumbersUnique
  BY DEF MappingInv
<1> DEFINE Stays(r) ==
             LET now == table[r] IN
             now.core.number \in held =>
               /\ table'[r].core.number = now.core.number
               /\ table'[r].core.legacy = now.core.legacy
               /\ table'[r].status = "REJECTED" => now.status = "REJECTED"
<1>5. MappingInv /\ [Mapping!Next]_mapping => [\A r \in Mapping!Stored : Stays(r)]_mapping
  <2> SUFFICES ASSUME MappingInv, Mapping!Next, NEW r \in Mapping!Stored,
                      table[r].core.number \in held
               PROVE  /\ table'[r].core.number = table[r].core.number
                      /\ table'[r].core.legacy = table[r].core.legacy
                      /\ table'[r].status = "REJECTED" => table[r].status = "REJECTED"
    OBVIOUS
  <2> r \in RowIds
    BY DEF Mapping!Stored
  <2>1. ASSUME NEW items \in SUBSET Request, Mapping!Apply(items)
        PROVE  /\ table'[r].core.number = table[r].core.number
               /\ table'[r].core.legacy = table[r].core.legacy
               /\ table'[r].status = "REJECTED" => table[r].status = "REJECTED"
    <3>1. Mapping!Fits(items) /\ Mapping!Write(items)
      BY <2>1 DEF Mapping!Apply
    <3>2. PICK place : Written(items, place)
      BY <3>1, RowsAreWritten
    <3>3. CASE r \in Mapping!Changed(items)
      <4>1. PICK i \in items \ Adds(items) : i.row = r
        BY <3>3 DEF Mapping!Changed, Adds
      <4>2. /\ i.action # "REJECT"
            /\ i.after.number = table[r].core.number /\ i.after.legacy = table[r].core.legacy
        BY <3>1, <4>1 DEF Mapping!Fits, Adds
      <4>3. table'[r].core = i.after /\ table'[r].status = Mapping!StatusAfter(i)
        BY <3>2, <4>1 DEF Written
      <4> QED BY <4>2, <4>3 DEF Mapping!StatusAfter
    <3>4. CASE r \notin Mapping!Changed(items)
      <4>1. \A i \in Adds(items) : place[i] # r
        BY <3>2 DEF Written
      <4> QED BY <3>2, <3>4, <4>1 DEF Written
    <3> QED BY <3>3, <3>4
  <2>2. ASSUME NEW n, NEW imported \in BOOLEAN, Mapping!CatalogueTakes(n, imported)
        PROVE  table'[r].core = table[r].core /\ table'[r].status \in {table[r].status, "ISSUED"}
    BY <2>2, CatalogueMovesRows
  <2> QED BY <2>1, <2>2, RowsChangeBy
<1> QED BY <1>1, <1>2, <1>3, <1>4, <1>5, PTL
        DEF Spec, HeldNumbersStay, Mapping!HeldNumbersStay, Mapping!vars, mapping

\* What the voters see of the rows and of a request (the refinement of Mapping!Votes).
Shown == [r \in RowIds |-> IF r \in Mapping!Stored THEN {table[r].core} ELSE {}]

Motion(i) ==
  [place |-> IF i.action = "ADD" THEN {} ELSE {i.row},
   from |-> IF i.action = "ADD" THEN {} ELSE {i.before},
   to |-> i.after]

Motions(items) == {Motion(i) : i \in items}

Yes(approvals) == {a.user : a \in {b \in approvals : b.decision = "APPROVE"}}

Stage(s) ==
  CASE s \in {"NONE", "OPEN"} -> s
    [] s = "APPLIED" -> "CARRIED"
    [] OTHER -> "CLOSED"

BallotOf(q) ==
  [state |-> Stage(q.state), proposer |-> q.requester, motions |-> Motions(q.items),
   yes |-> Yes(q.approvals)]

Poll == [k \in ChangeIds |-> BallotOf(change[k])]

LEMMA VotesBegin == Mapping!Init => Mapping!Votes!Init
<1> SUFFICES ASSUME Mapping!Init PROVE Mapping!Votes!Init
  OBVIOUS
<1>1. \A r \in RowIds : table[r].status = "NONE"
  BY DEF Mapping!Init, Mapping!MappingInit, Mapping!NoRow
<1>2. \A k \in ChangeIds : change[k].state = "NONE" /\ change[k].approvals = {}
  BY DEF Mapping!Init, Mapping!MappingInit, Mapping!NoChange
<1> QED BY <1>1, <1>2 DEF Mapping!Votes!Init, Mapping!Stored

\* A step on one question that shows no other content.
LEMMA QuestionIsPut ==
  ASSUME NEW k \in ChangeIds, NEW q, change' = [change EXCEPT ![k] = q],
         DOMAIN change = ChangeIds, Shown' = Shown,
         change[k].state = "NONE", q.state = "OPEN", q.requester \in Officials,
         q.approvals = {},
         \A m \in Motions(q.items) : \A p \in m.place : Shown[p] = m.from
  PROVE  Mapping!Votes!Next
<1> Poll' = [Poll EXCEPT ![k] = BallotOf(q)] /\ Poll[k] = BallotOf(change[k])
  BY DEF Poll
<1> BallotOf(q).state = "OPEN" /\ BallotOf(q).proposer \in Officials /\ BallotOf(q).yes = {}
    /\ BallotOf(q).motions = Motions(q.items)
  BY DEF BallotOf, Stage, Yes
<1> BallotOf(change[k]).state = "NONE"
  BY DEF BallotOf, Stage
<1> SUFFICES Mapping!Votes!Put(k) /\ \A other \in ChangeIds \ {k} : Poll'[other] = Poll[other]
  BY DEF Mapping!Votes!Next, Poll, BallotOf, Motions, Motion, Yes, Stage
<1> QED BY DEF Mapping!Votes!Put, Mapping!Votes!MayMove, Shown, Poll, BallotOf, Motions, Motion, Yes, Stage

\* What a step on one question shows of it and of the others.
LEMMA OneQuestion ==
  ASSUME NEW k \in ChangeIds, NEW q, change' = [change EXCEPT ![k] = q], DOMAIN change = ChangeIds
  PROVE  /\ Poll[k] = BallotOf(change[k]) /\ Poll'[k] = BallotOf(q)
         /\ \A other \in ChangeIds \ {k} : Poll'[other] = Poll[other]
BY DEF Poll

LEMMA QuestionIsDropped ==
  ASSUME NEW k \in ChangeIds, NEW q, change' = [change EXCEPT ![k] = q],
         DOMAIN change = ChangeIds, Shown' = Shown,
         change[k].state = "OPEN", q.state \in {"REJECTED", "WITHDRAWN"},
         q.requester = change[k].requester, q.items = change[k].items,
         Yes(q.approvals) = Yes(change[k].approvals)
  PROVE  Mapping!Votes!Next
<1>1. /\ Poll[k] = BallotOf(change[k]) /\ Poll'[k] = BallotOf(q)
      /\ \A other \in ChangeIds \ {k} : Poll'[other] = Poll[other]
  BY OneQuestion
<1>2. BallotOf(q).state = "CLOSED" /\ BallotOf(change[k]).state = "OPEN"
      /\ BallotOf(q).proposer = BallotOf(change[k]).proposer
      /\ BallotOf(q).motions = BallotOf(change[k]).motions
      /\ BallotOf(q).yes = BallotOf(change[k]).yes
  BY DEF BallotOf, Stage
<1>3. Mapping!Votes!Drop(k)
  BY <1>1, <1>2 DEF Mapping!Votes!Drop, Mapping!Votes!SameQuestion, Shown, Poll, BallotOf,
                    Motions, Motion, Yes, Stage
<1> QED BY <1>1, <1>3 DEF Mapping!Votes!Next, Poll, BallotOf, Motions, Motion, Yes, Stage

\* Somebody else says yes to request k, which becomes q.
SaidYes(k, q, u) ==
  /\ change' = [change EXCEPT ![k] = q] /\ DOMAIN change = ChangeIds
  /\ change[k].state = "OPEN"
  /\ q.requester = change[k].requester /\ q.items = change[k].items
  /\ u # q.requester /\ u \notin Yes(change[k].approvals)
  /\ Yes(q.approvals) = Yes(change[k].approvals) \union {u}

LEMMA SomebodySaysYes ==
  ASSUME NEW k \in ChangeIds, NEW q, NEW u \in Officials, SaidYes(k, q, u)
  PROVE  /\ Mapping!Votes!SayYes(k, u)
         /\ Poll[k] = BallotOf(change[k]) /\ Poll'[k] = BallotOf(q)
         /\ \A other \in ChangeIds \ {k} : Poll'[other] = Poll[other]
<1>1. /\ Poll[k] = BallotOf(change[k]) /\ Poll'[k] = BallotOf(q)
      /\ \A other \in ChangeIds \ {k} : Poll'[other] = Poll[other]
  BY OneQuestion DEF SaidYes
<1>2. BallotOf(change[k]).state = "OPEN"
      /\ BallotOf(q).proposer = BallotOf(change[k]).proposer
      /\ BallotOf(q).motions = BallotOf(change[k]).motions
      /\ BallotOf(q).proposer = q.requester
      /\ BallotOf(q).yes = BallotOf(change[k]).yes \union {u}
      /\ u \notin BallotOf(change[k]).yes /\ u # q.requester
  BY DEF BallotOf, Stage, SaidYes
<1> QED BY <1>1, <1>2 DEF Mapping!Votes!SayYes, Mapping!Votes!SameQuestion, Shown, Poll,
           BallotOf, Motions, Motion, Yes, Stage

LEMMA QuestionIsSupported ==
  ASSUME NEW k \in ChangeIds, NEW q, NEW u \in Officials, SaidYes(k, q, u),
         Shown' = Shown, q.state = "OPEN", Cardinality(Yes(q.approvals)) < 3
  PROVE  Mapping!Votes!Next
<1>1. /\ Mapping!Votes!SayYes(k, u)
      /\ Poll[k] = BallotOf(change[k]) /\ Poll'[k] = BallotOf(q)
      /\ \A other \in ChangeIds \ {k} : Poll'[other] = Poll[other]
  BY SomebodySaysYes
<1>2. Poll'[k].state = "OPEN" /\ Cardinality(Poll'[k].yes) < 3 /\ Shown' = Shown
  BY <1>1 DEF BallotOf, Stage
<1>3. Mapping!Votes!Cardinality(Poll'[k].yes) < 3
  BY <1>2 DEF Mapping!Votes!Cardinality, Cardinality
<1>4. Mapping!Votes!Support(k, u)
  BY ONLY <1>1, <1>2, <1>3
     DEF Mapping!Votes!Support, Shown, Poll, BallotOf, Motions, Motion, Yes, Stage
<1> QED BY <1>1, <1>4 DEF Mapping!Votes!Next, Poll, BallotOf, Motions, Motion, Yes, Stage

\* The places that no motion names and that show something else afterwards.
Fresh(motions) ==
  {p \in RowIds \ UNION {m.place : m \in motions} : Shown'[p] # Shown[p]}

\* The motions could be made and are made, with a free place for each that names none.
Moved(motions) ==
  /\ \A m \in motions : \A p \in m.place : Shown[p] = m.from
  /\ \A m \in motions : \A p \in m.place : Shown'[p] = {m.to}
  /\ \A p \in Fresh(motions) : Shown[p] = {}
  /\ UNION {Shown'[p] : p \in Fresh(motions)} = {m.to : m \in {n \in motions : n.place = {}}}

LEMMA QuestionIsCarried ==
  ASSUME NEW k \in ChangeIds, NEW q, NEW u \in Officials, SaidYes(k, q, u),
         q.state = "APPLIED", Cardinality(Yes(q.approvals)) = 3, Moved(Motions(q.items))
  PROVE  Mapping!Votes!Next
<1>1. /\ Mapping!Votes!SayYes(k, u)
      /\ Poll[k] = BallotOf(change[k]) /\ Poll'[k] = BallotOf(q)
      /\ \A other \in ChangeIds \ {k} : Poll'[other] = Poll[other]
  BY SomebodySaysYes
<1>2. Poll'[k].state = "CARRIED" /\ Cardinality(Poll'[k].yes) = 3
  BY <1>1 DEF BallotOf, Stage
<1>3. Poll[k].motions = Motions(q.items)
  BY <1>1 DEF BallotOf, SaidYes
<1>4. Moved(Poll[k].motions)
  BY <1>3
<1>5. Mapping!Votes!Cardinality(Poll'[k].yes) = 3
  BY <1>2 DEF Mapping!Votes!Cardinality, Cardinality
<1>6. Mapping!Votes!Carry(k, u)
  BY ONLY <1>1, <1>2, <1>4, <1>5
     DEF Mapping!Votes!Carry, Mapping!Votes!MayMove, Moved, Fresh, Shown, Poll, BallotOf,
         Motions, Motion, Yes, Stage
<1> QED BY <1>1, <1>6 DEF Mapping!Votes!Next, Poll, BallotOf, Motions, Motion, Yes, Stage

\* Whoever approves says yes; with every role of the three there are three of them.
LEMMA ThreeRolesAreThreePeople ==
  ASSUME NEW approvals \in SUBSET Vote, Independent(approvals)
  PROVE  /\ {a.role : a \in approvals} = Mapping!Approvers => Cardinality(Yes(approvals)) = 3
         /\ {a.role : a \in approvals} # Mapping!Approvers => Cardinality(Yes(approvals)) < 3
<1> DEFINE Of(role) == (CHOOSE a \in approvals : a.role = role).user
           owner == Of("STCD_OWNER")
           chief == Of("CHIEF_ENGINEER")
           admin == Of("ADMINISTRATOR")
<1>1. \A a \in approvals : /\ a.role \in {"STCD_OWNER", "CHIEF_ENGINEER", "ADMINISTRATOR"}
                           /\ a.user = Of(a.role) /\ a.decision = "APPROVE"
  <2> TAKE a \in approvals
  <2>1. \A b \in approvals : b.role = a.role => b = a
    BY DEF Independent
  <2>2. (CHOOSE b \in approvals : b.role = a.role) = a
    BY <2>1
  <2>3. a.role \in {"STCD_OWNER", "CHIEF_ENGINEER", "ADMINISTRATOR"} /\ a.decision = "APPROVE"
    BY DEF Vote, Mapping!Approvers, Independent
  <2> QED BY <2>2, <2>3
<1>2. \A x, y : Cardinality({x, y}) \in Nat /\ Cardinality({x, y}) <= 2 /\ IsFiniteSet({x, y})
      /\ (x # y => Cardinality({x, y}) = 2)
  <2> TAKE x, y
  <2>1. IsFiniteSet({x}) /\ Cardinality({x}) = 1
    BY FS_Singleton
  <2>2. /\ IsFiniteSet({x} \union {y})
        /\ Cardinality({x} \union {y}) = IF y \in {x} THEN Cardinality({x}) ELSE Cardinality({x}) + 1
    BY <2>1, FS_AddElement
  <2>3. {x} \union {y} = {x, y}
    OBVIOUS
  <2> QED BY <2>1, <2>2, <2>3
<1>3. ASSUME {a.role : a \in approvals} = Mapping!Approvers
      PROVE  Cardinality(Yes(approvals)) = 3
  <2>1. PICK a \in approvals, b \in approvals, c \in approvals :
          a.role = "STCD_OWNER" /\ b.role = "CHIEF_ENGINEER" /\ c.role = "ADMINISTRATOR"
    BY <1>3 DEF Mapping!Approvers
  <2>2. a.user = owner /\ b.user = chief /\ c.user = admin
    BY <1>1, <2>1
  <2>3. owner # chief /\ owner # admin /\ chief # admin
    BY <2>1, <2>2 DEF Independent
  <2>4. \A x \in approvals : x.user \in {owner, chief, admin} /\ x.decision = "APPROVE"
    BY <1>1
  <2> HIDE DEF owner, chief, admin
  <2>5. Yes(approvals) = {owner, chief} \union {admin}
    BY ONLY <2>1, <2>2, <2>4 DEF Yes
  <2>6. Cardinality({owner, chief} \union {admin}) = Cardinality({owner, chief}) + 1
    BY <1>2, <2>3, FS_AddElement
  <2>7. Cardinality({owner, chief}) = 2
    BY <1>2, <2>3
  <2> QED BY <2>5, <2>6, <2>7
<1>4. ASSUME {a.role : a \in approvals} # Mapping!Approvers
      PROVE  Cardinality(Yes(approvals)) < 3
  <2>1. \E x, y : Yes(approvals) \subseteq {x, y}
    <3>1. \/ \A a \in approvals : a.role # "STCD_OWNER"
          \/ \A a \in approvals : a.role # "CHIEF_ENGINEER"
          \/ \A a \in approvals : a.role # "ADMINISTRATOR"
      BY <1>1, <1>4 DEF Mapping!Approvers
    <3>2. \/ Yes(approvals) \subseteq {chief, admin}
          \/ Yes(approvals) \subseteq {owner, admin}
          \/ Yes(approvals) \subseteq {owner, chief}
      BY <1>1, <3>1 DEF Yes
    <3> QED BY <3>2
  <2>2. PICK x, y : Yes(approvals) \subseteq {x, y}
    BY <2>1
  <2>3. Cardinality(Yes(approvals)) <= Cardinality({x, y})
    BY <1>2, <2>2, FS_Subset
  <2>4. Cardinality(Yes(approvals)) \in Nat
    BY <1>2, <2>2, FS_Subset, FS_CardinalityType
  <2>5. Cardinality({x, y}) \in Nat /\ Cardinality({x, y}) <= 2
    BY <1>2
  <2> QED BY <2>3, <2>4, <2>5
<1> QED BY <1>3, <1>4

\* A request that is applied moves what its motions say.
LEMMA WritingMoves ==
  ASSUME MappingInv, NEW items \in SUBSET Request, Informed(items), Mapping!Apply(items)
  PROVE  Moved(Motions(items))
<1>1. Mapping!Fits(items) /\ Mapping!Write(items) /\ ~Mapping!Stale(items)
  BY DEF Mapping!Apply
<1>2. PICK place : Written(items, place)
  BY <1>1, RowsAreWritten
<1>3. /\ \A r \in Mapping!Stored : r \in RowIds /\ Shown[r] = {table[r].core}
      /\ \A r \in RowIds \ Mapping!Stored : Shown[r] = {}
      /\ \A r \in RowIds : table'[r].status # "NONE" => Shown'[r] = {table'[r].core}
      /\ \A r \in RowIds : table'[r] = table[r] => Shown'[r] = Shown[r]
  BY DEF Shown, Mapping!Stored
<1>4. ASSUME NEW i \in items \ Adds(items)
      PROVE  Shown[i.row] = {i.before} /\ Shown'[i.row] = {i.after} /\ i.row \in Mapping!Stored
  <2>1. i.row \in Mapping!Stored /\ i.before = table[i.row].core
    BY <1>1 DEF Informed, Mapping!Stale, Adds
  <2>2. table'[i.row].core = i.after /\ table'[i.row].status # "NONE"
    BY <1>2 DEF Written, Mapping!StatusAfter
  <2> QED BY <1>3, <2>1, <2>2
<1>5. ASSUME NEW i \in Adds(items)
      PROVE  /\ place[i] \in RowIds \ Mapping!Stored
             /\ Shown[place[i]] = {} /\ Shown'[place[i]] = {i.after}
  <2>1. /\ place[i] \in RowIds \ Mapping!Stored
        /\ table'[place[i]].core = i.after /\ table'[place[i]].status # "NONE"
    BY <1>2 DEF Written
  <2> QED BY <1>3, <2>1
<1> DEFINE moved == UNION {m.place : m \in Motions(items)}
<1>6. /\ \A i \in items \ Adds(items) : Motion(i).place = {i.row} /\ Motion(i).from = {i.before}
      /\ \A i \in Adds(items) : Motion(i).place = {}
      /\ \A i \in items : Motion(i).to = i.after
  BY DEF Motion, Adds
<1>7. moved = {i.row : i \in items \ Adds(items)} /\ moved = Mapping!Changed(items)
  BY <1>6 DEF Motions, Mapping!Changed, Adds
<1>8. Fresh(Motions(items)) = {place[i] : i \in Adds(items)}
  <2>1. ASSUME NEW p \in Fresh(Motions(items)) PROVE \E i \in Adds(items) : place[i] = p
    <3>1. p \in RowIds \ Mapping!Changed(items) /\ Shown'[p] # Shown[p]
      BY <1>7 DEF Fresh
    <3> QED BY <1>2, <1>3, <3>1 DEF Written
  <2>2. ASSUME NEW i \in Adds(items) PROVE place[i] \in Fresh(Motions(items))
    <3>1. place[i] \notin moved
      BY <1>4, <1>5, <1>7
    <3>2. Shown'[place[i]] # Shown[place[i]]
      BY <1>5
    <3> QED BY <1>5, <3>1, <3>2 DEF Fresh
  <2> QED BY <2>1, <2>2
<1>9. \A m \in Motions(items) : \A p \in m.place : Shown[p] = m.from /\ Shown'[p] = {m.to}
  <2> SUFFICES ASSUME NEW i \in items, NEW p \in Motion(i).place
               PROVE  Shown[p] = Motion(i).from /\ Shown'[p] = {Motion(i).to}
    BY DEF Motions
  <2>1. i \in items \ Adds(items) /\ p = i.row
    BY <1>6
  <2> QED BY <1>4, <1>6, <2>1
<1>10. \A p \in Fresh(Motions(items)) : Shown[p] = {}
  BY <1>5, <1>8
<1>11. {m.to : m \in {n \in Motions(items) : n.place = {}}} = {i.after : i \in Adds(items)}
  <2>1. \A i \in items : Motion(i).place = {} <=> i \in Adds(items)
    BY <1>6
  <2>2. \A i \in Adds(items) : i \in items
    BY DEF Adds
  <2> QED BY <1>6, <2>1, <2>2 DEF Motions
<1>12. UNION {Shown'[p] : p \in Fresh(Motions(items))} = {i.after : i \in Adds(items)}
  <2>1. UNION {Shown'[p] : p \in Fresh(Motions(items))} =
          UNION {Shown'[place[i]] : i \in Adds(items)}
    BY <1>8
  <2>2. UNION {Shown'[place[i]] : i \in Adds(items)} = UNION {{i.after} : i \in Adds(items)}
    BY <1>5
  <2> QED BY <2>1, <2>2
<1> QED BY <1>9, <1>10, <1>11, <1>12 DEF Moved

LEMMA BallotStep ==
  ASSUME MappingInv, Mapping!Next
  PROVE  Mapping!Votes!Next \/ (Shown' = Shown /\ Poll' = Poll)
<1> table \in [RowIds -> Cell] /\ change \in [ChangeIds -> Question] /\ DOMAIN change = ChangeIds
  BY DEF MappingInv
<1>1. table' = table => Shown' = Shown
  BY DEF Shown, Mapping!Stored
<1>2. change' = change => Poll' = Poll
  BY DEF Poll
<1>3. ASSUME NEW actor \in Askers, NEW k \in ChangeIds, NEW items, Askable(items),
             Mapping!Propose(actor, k, items)
      PROVE  Mapping!Votes!Next
  <2> DEFINE kept == Mapping!AsRequested(items)
             q == [state |-> "OPEN", requester |-> actor, items |-> kept, approvals |-> {}]
  <2>1. change' = [change EXCEPT ![k] = q] /\ UNCHANGED table /\ change[k].state = "NONE"
    BY <1>3 DEF Mapping!Propose
  <2>2. \A i \in kept : i.action # "ADD" => Shown[i.row] = {i.before}
    <3>1. \A i \in kept : i.action # "ADD" =>
            i.row \in Mapping!Stored /\ i.before = table[i.row].core
      BY <1>3, ItemsAreRecorded
    <3> QED BY <3>1 DEF Shown, Mapping!Stored
  <2>3. actor \in Officials
    BY MappingAssumption DEF MappingAssumption, Mapping!MappingAssumption
  <2>4. q.state = "OPEN" /\ q.requester \in Officials /\ q.approvals = {} /\ q.items = kept
    BY <2>3
  <2> HIDE DEF kept, q
  <2>5. \A m \in Motions(kept) : \A p \in m.place : Shown[p] = m.from
    <3> SUFFICES ASSUME NEW i \in kept, NEW p \in Motion(i).place
                 PROVE  Shown[p] = Motion(i).from
      BY DEF Motions
    <3>1. i.action # "ADD" /\ p = i.row /\ Motion(i).from = {i.before}
      BY DEF Motion
    <3> QED BY <2>2, <3>1
  <2> QED BY <1>1, <2>1, <2>4, <2>5, QuestionIsPut
<1>4. ASSUME NEW actor \in Officials, NEW k \in ChangeIds, Mapping!Withdraw(actor, k)
      PROVE  Mapping!Votes!Next
  <2> DEFINE q == [change[k] EXCEPT !.state = "WITHDRAWN"]
  <2>1. change' = [change EXCEPT ![k] = q] /\ UNCHANGED table /\ change[k].state = "OPEN"
    BY <1>4 DEF Mapping!Withdraw
  <2>2. change[k] \in Question
    OBVIOUS
  <2>3. q.state = "WITHDRAWN" /\ q.items = change[k].items
        /\ q.requester = change[k].requester /\ q.approvals = change[k].approvals
    BY ONLY <2>2 DEF Question
  <2> HIDE DEF q
  <2> QED BY <1>1, <2>1, <2>3, QuestionIsDropped
<1>5. ASSUME NEW actor \in Officials, NEW k \in ChangeIds,
             NEW decision \in {"APPROVE", "REJECT"}, Mapping!Decide(actor, k, decision)
      PROVE  Mapping!Votes!Next
  <2> DEFINE vote == [role |-> mapAccount[actor].role, user |-> actor, decision |-> decision]
  <2>1. PICK q \in Question :
           /\ change' = [change EXCEPT ![k] = q]
           /\ q.items = change[k].items /\ q.requester = change[k].requester
           /\ q.approvals = change[k].approvals \union {vote}
           /\ \/ /\ decision = "REJECT" /\ q.state = "REJECTED" /\ UNCHANGED table
              \/ /\ decision = "APPROVE" /\ q.state = "OPEN" /\ UNCHANGED table
                 /\ {a.role : a \in q.approvals} # Mapping!Approvers
              \/ /\ decision = "APPROVE" /\ q.state = "APPLIED"
                 /\ Mapping!Apply(change[k].items)
                 /\ {a.role : a \in q.approvals} = Mapping!Approvers
    BY <1>5, RequestIsDecided
  <2>2. /\ change[k].state = "OPEN" /\ Asked(change[k])
        /\ decision = "APPROVE" => Independent(q.approvals)
    <3>1. /\ change[k].state = "OPEN" /\ Asked(change[k])
          /\ decision = "APPROVE" => Independent(change[k].approvals \union {vote})
      BY <1>5, DecisionIsTyped DEF Mapping!Decide
    <3> HIDE DEF vote
    <3> QED BY <2>1, <3>1
  <2>3. /\ vote.user = actor /\ vote.decision = decision
        /\ actor # change[k].requester
        /\ \A a \in change[k].approvals : a.user # actor
    BY <1>5 DEF Mapping!Decide, Mapping!MayDecide
  <2>4. q.approvals \in SUBSET Vote /\ change[k].items \in SUBSET Request
    BY DEF Question
  <2> HIDE DEF vote
  <2>5. decision = "REJECT" => Yes(q.approvals) = Yes(change[k].approvals)
    BY <2>1, <2>3 DEF Yes
  <2>6. decision = "APPROVE" => SaidYes(k, q, actor)
    <3> SUFFICES ASSUME decision = "APPROVE"
                 PROVE  /\ actor \notin Yes(change[k].approvals)
                        /\ Yes(q.approvals) = Yes(change[k].approvals) \union {actor}
      BY <2>1, <2>2, <2>3 DEF SaidYes
    <3> QED BY <2>1, <2>3 DEF Yes
  <2>7. CASE decision = "REJECT" /\ q.state = "REJECTED" /\ UNCHANGED table
    BY <1>1, <2>1, <2>2, <2>5, <2>7, QuestionIsDropped
  <2>8. CASE /\ decision = "APPROVE" /\ q.state = "OPEN" /\ UNCHANGED table
             /\ {a.role : a \in q.approvals} # Mapping!Approvers
    <3>1. Cardinality(Yes(q.approvals)) < 3
      BY <2>2, <2>4, <2>8, ThreeRolesAreThreePeople
    <3> QED BY <1>1, <2>6, <2>8, <3>1, QuestionIsSupported
  <2>9. CASE /\ decision = "APPROVE" /\ q.state = "APPLIED"
             /\ Mapping!Apply(change[k].items)
             /\ {a.role : a \in q.approvals} = Mapping!Approvers
    <3>1. Cardinality(Yes(q.approvals)) = 3
      BY <2>2, <2>4, <2>9, ThreeRolesAreThreePeople
    <3>2. Informed(change[k].items)
      BY <2>2 DEF Asked
    <3>3. Moved(Motions(q.items))
      BY <2>1, <2>4, <2>9, <3>2, WritingMoves
    <3> QED BY <2>6, <2>9, <3>1, <3>3, QuestionIsCarried
  <2> QED BY <2>1, <2>7, <2>8, <2>9
<1>6. ASSUME NEW actor, NEW seed \in Seeds, Mapping!Seed(actor, seed)
      PROVE  Mapping!Votes!Next
  <2>1. Mapping!Stored = {} /\ (\A r \in RowIds : table'[r].core \in Mapping!Core) /\ Poll' = Poll
    BY <1>2, <1>6, SeedMovesRows DEF Mapping!Seed
  <2>2. \A r \in RowIds : Shown[r] = {}
    BY <2>1 DEF Shown
  <2>3. Shown' \in [RowIds -> {{}} \union {{c} : c \in Mapping!Core}]
    BY <2>1 DEF Shown
  <2>4. Mapping!Votes!Load
    BY ONLY <2>1, <2>2, <2>3
       DEF Mapping!Votes!Load, Shown, Poll, BallotOf, Motions, Motion, Yes, Stage
  <2> QED BY <2>4 DEF Mapping!Votes!Next
<1>7. ASSUME NEW n, NEW imported \in BOOLEAN, Mapping!CatalogueTakes(n, imported)
      PROVE  Shown' = Shown /\ Poll' = Poll
  <2>1. Mapping!Stored' = Mapping!Stored /\ \A r \in RowIds : table'[r].core = table[r].core
    BY <1>7, CatalogueMovesRows
  <2>2. Poll' = Poll
    BY <1>2, <1>7 DEF Mapping!CatalogueTakes
  <2> QED BY <2>1, <2>2 DEF Shown
<1>8. ASSUME NEW n, Mapping!CatalogueGivesUp(n) PROVE Shown' = Shown /\ Poll' = Poll
  BY <1>1, <1>2, <1>8 DEF Mapping!CatalogueGivesUp
<1>9. ASSUME NEW actor \in Askers, NEW k \in ChangeIds, NEW workbook \in Workbooks,
             NEW confirm \in BOOLEAN, Mapping!ProposeWorkbook(actor, k, workbook, confirm)
      PROVE  Mapping!Votes!Next
  BY <1>3, <1>9, PlansAreAskable DEF Mapping!ProposeWorkbook
<1>10. ASSUME NEW actor \in Askers, NEW k \in ChangeIds, NEW items \in Mapping!Requests,
              Mapping!Propose(actor, k, items)
       PROVE  Mapping!Votes!Next
  BY <1>3, <1>10, RequestsAreAskable
<1>11. ASSUME UNCHANGED Mapping!mappingVars PROVE Shown' = Shown /\ Poll' = Poll
  BY <1>1, <1>2, <1>11 DEF Mapping!mappingVars
<1> QED BY <1>4, <1>5, <1>6, <1>7, <1>8, <1>9, <1>10, <1>11 DEF Mapping!Next, Mapping!MappingNext

\* ImplementsBallot: a row's content changes only when three people, none of them the
\* requester, approved exactly that change of exactly the content the row still has, however
\* requests, imports and withdrawals interleave (mapping_change_service, BR-027, FR-194).
THEOREM WorkImplementsBallot == Spec => ImplementsBallot
<1>1. Init => MappingInv /\ Mapping!Votes!Init
  BY MappingBegins, VotesBegin DEF Init
<1>2. MappingInv /\ [Next]_vars => MappingInv' /\ [Mapping!Votes!Next]_Mapping!Votes!ballotVars
  <2> SUFFICES ASSUME MappingInv, [Next]_vars
               PROVE  MappingInv' /\ [Mapping!Votes!Next]_Mapping!Votes!ballotVars
    OBVIOUS
  <2>1. Mapping!Next \/ UNCHANGED mapping
    BY DEF Next, Only, vars
  <2>2. ASSUME UNCHANGED mapping PROVE MappingInv' /\ Shown' = Shown /\ Poll' = Poll
    BY <2>2 DEF mapping, MappingInv, Asked, Informed, Independent, Mapping!NumbersUnique,
                Mapping!Stored, Shown, Poll
  <2>3. Shown' = Shown /\ Poll' = Poll => UNCHANGED Mapping!Votes!ballotVars
    BY DEF Mapping!Votes!ballotVars, Shown, Poll, BallotOf, Motions, Motion, Yes, Stage
  <2> QED BY <2>1, <2>2, <2>3, MappingStep, BallotStep
<1> QED BY <1>1, <1>2, PTL
        DEF Spec, ImplementsBallot, Mapping!ImplementsBallot, Mapping!Votes!Spec

-----------------------------------------------------------------------------
(* The samples of bulk work.  Drawing one replaces the live ones that the  *)
(* same person holds for the same step, a verdict is taken on a live one   *)
(* only, and a sitting closes a sample and never opens it.                 *)

IsSample(x) ==
  /\ x = [status |-> x.status, step |-> x.step, by |-> x.by, population |-> x.population,
          verdict |-> x.verdict, read |-> x.read, young |-> x.young]
  /\ x.status \in Bulk!Live \union {"NONE", "USED", "VOID"}

IsSitting(x) ==
  /\ x = [kind |-> x.kind, actor |-> x.actor, step |-> x.step, decision |-> x.decision,
          sample |-> x.sample, left |-> x.left, batch |-> x.batch, done |-> x.done]
  /\ x.kind \in {"IDLE", "DECIDE", "SIGN", "SEND_BACK"}
  /\ x.sample \in SampleIds \union {Nobody}
  /\ x.kind = "SEND_BACK" => x.sample \in SampleIds

SamplesFit ==
  /\ sample = [s \in SampleIds |-> sample[s]]
  /\ \A s \in SampleIds : IsSample(sample[s])
  /\ Bulk!OneLiveSample

SittingsFit ==
  /\ sitting = [k \in SittingIds |-> sitting[k]]
  /\ \A k \in SittingIds : IsSitting(sitting[k])

SampleInv == SamplesFit /\ SittingsFit

\* What ClosedSamplesStay says of one step.
ClosedStay ==
  \A s \in SampleIds :
    /\ sample[s].status = "USED" => sample'[s].status = "USED"
    /\ sample[s].status = "VOID" => sample'[s].status \in {"VOID", "USED"}

LEMMA SamplesBegin == Bulk!Init => SampleInv
<1> SUFFICES ASSUME Bulk!Init PROVE SampleInv
  OBVIOUS
<1>1. \A s \in SampleIds : sample[s] = Bulk!Undrawn
  BY DEF Bulk!Init
<1>2. \A k \in SittingIds : sitting[k] = Bulk!Idle
  BY DEF Bulk!Init
<1>3. IsSample(Bulk!Undrawn) /\ Bulk!Undrawn.status = "NONE"
  BY DEF Bulk!Undrawn, IsSample
<1>4. IsSitting(Bulk!Idle)
  BY DEF Bulk!Idle, IsSitting
<1>5. Bulk!OneLiveSample
  BY <1>1, <1>3 DEF Bulk!OneLiveSample, Bulk!Live
<1>6. sample = [s \in SampleIds |-> sample[s]] /\ sitting = [k \in SittingIds |-> sitting[k]]
  BY DEF Bulk!Init
<1> QED BY <1>1, <1>2, <1>3, <1>4, <1>5, <1>6 DEF SampleInv, SamplesFit, SittingsFit

\* One sample gets another status, and with a status that is not live from before it gets none.
LEMMA OneSampleChanges ==
  ASSUME SamplesFit, NEW s \in SampleIds, NEW x, IsSample(x),
         sample' = [sample EXCEPT ![s] = x],
         x.by = sample[s].by, x.step = sample[s].step,
         x.status \in Bulk!Live => sample[s].status \in Bulk!Live
  PROVE  SamplesFit'
<1>1. \A t \in SampleIds : sample'[t] = IF t = s THEN x ELSE sample[t]
  BY DEF SampleInv, SamplesFit, SittingsFit
<1>2. \A t \in SampleIds : /\ IsSample(sample'[t])
                           /\ sample'[t].by = sample[t].by /\ sample'[t].step = sample[t].step
                           /\ sample'[t].status \in Bulk!Live => sample[t].status \in Bulk!Live
  BY <1>1 DEF SampleInv, SamplesFit, SittingsFit
<1>3. Bulk!OneLiveSample'
  BY ONLY <1>2, SamplesFit DEF SamplesFit, Bulk!OneLiveSample, Bulk!Live
<1>4. sample' = [t \in SampleIds |-> sample'[t]]
  BY DEF SampleInv, SamplesFit, SittingsFit
<1> QED BY <1>2, <1>3, <1>4 DEF SampleInv, SamplesFit, SittingsFit

LEMMA SampleIsDrawn ==
  ASSUME SampleInv, NEW actor, NEW step, NEW wanted, NEW s \in SampleIds,
         Bulk!DrawSample(actor, step, wanted, s)
  PROVE  SampleInv' /\ ClosedStay
<1>1. PICK x : /\ x.status = "OPEN" /\ x.step = step /\ x.by = actor
               /\ IsSample(x)
               /\ sample' = [t \in SampleIds |->
                    IF t = s THEN x
                    ELSE IF t \in Bulk!Replaced(actor, step)
                    THEN [sample[t] EXCEPT !.status = "VOID"] ELSE sample[t]]
  <2> DEFINE eligible == Bulk!Eligible(actor, step, wanted)
  <2>1. PICK drawn :
          sample' = [t \in SampleIds |->
         IF t = s THEN [status |-> "OPEN", step |-> step, by |-> actor,
                        population |-> eligible,
                        verdict |-> [p \in drawn |-> "NONE"],
                        read |-> [p \in drawn |-> 0], young |-> TRUE]
         ELSE IF t \in Bulk!Replaced(actor, step) THEN [sample[t] EXCEPT !.status = "VOID"]
         ELSE sample[t]]
    BY DEF Bulk!DrawSample
  <2> DEFINE x == [status |-> "OPEN", step |-> step, by |-> actor, population |-> eligible,
                   verdict |-> [p \in drawn |-> "NONE"],
                   read |-> [p \in drawn |-> 0], young |-> TRUE]
  <2>2. IsSample(x) /\ x.status = "OPEN" /\ x.step = step /\ x.by = actor
    BY DEF IsSample, Bulk!Live
  <2> HIDE DEF x, eligible
  <2> QED BY <2>1, <2>2 DEF x
<1>2. ASSUME NEW t \in SampleIds
      PROVE  LET v == [sample[t] EXCEPT !.status = "VOID"] IN
             IsSample(v) /\ v.status = "VOID" /\ v.step = sample[t].step /\ v.by = sample[t].by
  <2>1. IsSample(sample[t])
    BY DEF SampleInv, SamplesFit, SittingsFit
  <2> QED BY <2>1 DEF IsSample
<1>3. \A t \in SampleIds :
        /\ IsSample(sample'[t])
        /\ t # s => /\ sample'[t].by = sample[t].by /\ sample'[t].step = sample[t].step
                    /\ sample'[t].status \in Bulk!Live =>
                         /\ sample[t].status \in Bulk!Live
                         /\ ~(sample[t].by = actor /\ sample[t].step = step)
                    /\ sample'[t].status # sample[t].status => sample[t].status \in Bulk!Live
  <2> TAKE t \in SampleIds
  <2>1. CASE t = s
    BY <1>1, <2>1
  <2>2. CASE t # s /\ t \in Bulk!Replaced(actor, step)
    BY <1>1, <1>2, <2>2 DEF Bulk!Replaced, Bulk!Live
  <2>3. CASE t # s /\ t \notin Bulk!Replaced(actor, step)
    <3>1. sample'[t] = sample[t]
      BY <1>1, <2>3
    <3> QED BY <2>3, <3>1 DEF Bulk!Replaced, SampleInv, SamplesFit
  <2> QED BY <2>1, <2>2, <2>3
<1>4. sample'[s].by = actor /\ sample'[s].step = step /\ sample[s].status = "NONE"
  BY <1>1 DEF Bulk!DrawSample
<1>5. Bulk!OneLiveSample'
  <2> SUFFICES ASSUME NEW a \in SampleIds, NEW b \in SampleIds, a # b,
                      sample'[a].by = sample'[b].by, sample'[a].step = sample'[b].step,
                      sample'[a].status \in Bulk!Live, sample'[b].status \in Bulk!Live
               PROVE  FALSE
    BY DEF Bulk!OneLiveSample, Bulk!Live
  <2>1. CASE a = s
    BY <1>3, <1>4, <2>1
  <2>2. CASE b = s
    BY <1>3, <1>4, <2>2
  <2>3. CASE a # s /\ b # s
    BY <1>3, <2>3 DEF SampleInv, SamplesFit, SittingsFit, Bulk!OneLiveSample
  <2> QED BY <2>1, <2>2, <2>3
<1>6. ClosedStay
  BY <1>3, <1>4 DEF ClosedStay, Bulk!Live
<1>7. sample' = [t \in SampleIds |-> sample'[t]] /\ UNCHANGED sitting
  BY <1>1 DEF Bulk!DrawSample
<1> QED BY <1>3, <1>5, <1>6, <1>7 DEF SampleInv, SamplesFit, SittingsFit

\* A sample of other verdicts, read texts and status.
Settles(w, v, a, b, c) == v = [w EXCEPT !.verdict = a, !.read = b, !.status = c]

LEMMA SampleIsInspected ==
  ASSUME SampleInv, NEW actor, NEW s \in SampleIds, NEW p, NEW mark,
         Bulk!RecordVerdict(actor, s, p, mark)
  PROVE  SampleInv' /\ ClosedStay
<1> DEFINE marks == [sample[s].verdict EXCEPT ![p] = mark]
           seen == [sample[s].read EXCEPT ![p] = text[p]]
           x == [sample[s] EXCEPT !.verdict = marks, !.read = seen,
                                  !.status = Bulk!Settled(marks)]
<1>1. sample' = [sample EXCEPT ![s] = x] /\ UNCHANGED sitting /\ sample[s].status \in Bulk!Live
  BY Zenon DEF Bulk!RecordVerdict, Bulk!MayInspect
<1>2. Bulk!Settled(marks) \in Bulk!Live
  BY DEF Bulk!Settled, Bulk!Live
<1>3. IsSample(sample[s])
  BY DEF SampleInv, SamplesFit, SittingsFit
<1> HIDE DEF marks, seen
<1>7. ASSUME NEW w, IsSample(w), NEW a, NEW b, NEW c \in {"OPEN", "PASSED", "FAILED"},
             NEW v, Settles(w, v, a, b, c)
      PROVE  IsSample(v) /\ v.by = w.by /\ v.step = w.step /\ v.status = c
  <2> DEFINE st == w.status
             step == w.step
             by == w.by
             all == w.population
             old == w.verdict
             saw == w.read
             young == w.young
  <2>1. w = [status |-> st, step |-> step, by |-> by, population |-> all,
             verdict |-> old, read |-> saw, young |-> young]
    BY ONLY IsSample(w) DEF IsSample
  <2> HIDE DEF st, step, by, all, old, saw, young
  <2>2. v = [status |-> c, step |-> step, by |-> by, population |-> all,
             verdict |-> a, read |-> b, young |-> young]
    BY ONLY <2>1, Settles(w, v, a, b, c) DEF Settles
  <2> QED BY ONLY <2>1, <2>2, c \in {"OPEN", "PASSED", "FAILED"} DEF IsSample, Bulk!Live
<1>4. IsSample(x) /\ x.by = sample[s].by /\ x.step = sample[s].step /\ x.status \in Bulk!Live
  <2> DEFINE c == Bulk!Settled(marks)
  <2>1. c \in {"OPEN", "PASSED", "FAILED"}
    BY <1>2 DEF Bulk!Live
  <2>2. Settles(sample[s], x, marks, seen, c)
    BY DEF Settles
  <2> HIDE DEF c, x
  <2>3. x.status = c /\ IsSample(x) /\ x.by = sample[s].by /\ x.step = sample[s].step
    BY ONLY <1>3, <1>7, <2>1, <2>2
  <2> QED BY <2>1, <2>3 DEF Bulk!Live
<1> HIDE DEF x
<1>5. SampleInv'
  BY <1>1, <1>4, OneSampleChanges DEF SampleInv, SittingsFit
<1>6. \A t \in SampleIds : t # s => sample'[t] = sample[t]
  BY <1>1
<1> QED BY <1>1, <1>5, <1>6 DEF ClosedStay, Bulk!Live

\* One sitting goes on, the samples stay.
LEMMA OneSittingChanges ==
  ASSUME SampleInv, NEW k \in SittingIds, NEW x, IsSitting(x),
         sitting' = [sitting EXCEPT ![k] = x]
  PROVE  SittingsFit'
<1>1. \A j \in SittingIds : sitting'[j] = IF j = k THEN x ELSE sitting[j]
  BY DEF SampleInv, SamplesFit, SittingsFit
<1>2. sitting' = [j \in SittingIds |-> sitting'[j]]
  BY DEF SampleInv, SamplesFit, SittingsFit
<1> QED BY <1>1, <1>2 DEF SampleInv, SittingsFit

LEMMA SamplesStay ==
  ASSUME SamplesFit, UNCHANGED sample
  PROVE  SamplesFit' /\ ClosedStay
BY DEF SamplesFit, ClosedStay, Bulk!OneLiveSample

\* A sample is closed.
LEMMA SampleIsClosed ==
  ASSUME SampleInv, NEW s \in SampleIds, NEW status \in {"VOID", "USED"},
         status = "VOID" => sample[s].status # "USED",
         sample' = [sample EXCEPT ![s].status = status]
  PROVE  SamplesFit' /\ ClosedStay
<1> DEFINE x == [sample[s] EXCEPT !.status = status]
<1>1. IsSample(sample[s])
  BY DEF SampleInv, SamplesFit, SittingsFit
<1>2. IsSample(x) /\ x.by = sample[s].by /\ x.step = sample[s].step /\ x.status = status
  BY <1>1 DEF IsSample
<1>3. sample' = [sample EXCEPT ![s] = x]
  BY Zenon
<1> HIDE DEF x
<1>4. SamplesFit'
  BY <1>2, <1>3, OneSampleChanges DEF SampleInv, Bulk!Live
<1>5. \A t \in SampleIds : sample'[t] = IF t = s THEN x ELSE sample[t]
  BY <1>3 DEF SampleInv, SamplesFit, SittingsFit
<1> QED BY <1>2, <1>4, <1>5 DEF ClosedStay

\* Another thing is left, or something was decided.
Shortens(work, x, left, done) == x = [work EXCEPT !.left = left, !.done = done]

LEMMA SittingIsShorter ==
  ASSUME NEW work, IsSitting(work), NEW left, NEW done, NEW x, Shortens(work, x, left, done)
  PROVE  IsSitting(x)
<1> DEFINE kind == work.kind
           actor == work.actor
           step == work.step
           decision == work.decision
           on == work.sample
           old == work.left
           batch == work.batch
           was == work.done
<1>1. work = [kind |-> kind, actor |-> actor, step |-> step, decision |-> decision,
             sample |-> on, left |-> old, batch |-> batch, done |-> was]
  BY ONLY IsSitting(work) DEF IsSitting
<1>2. /\ kind \in {"IDLE", "DECIDE", "SIGN", "SEND_BACK"} /\ on \in SampleIds \union {Nobody}
      /\ kind = "SEND_BACK" => on \in SampleIds
  BY DEF IsSitting
<1> HIDE DEF kind, actor, step, decision, on, old, batch, was
<1>3. x = [kind |-> kind, actor |-> actor, step |-> step, decision |-> decision,
           sample |-> on, left |-> left, batch |-> batch, done |-> done]
  BY ONLY <1>1, Shortens(work, x, left, done) DEF Shortens
<1> QED BY ONLY <1>2, <1>3 DEF IsSitting

LEMMA SittingGoesOn ==
  ASSUME SampleInv, NEW k \in SittingIds, NEW work, IsSitting(work), Bulk!Proceed(k, work)
  PROVE  SampleInv' /\ ClosedStay
<1>1. ASSUME Bulk!DecideOne(k, work) PROVE SampleInv' /\ ClosedStay
  <2>1. PICK gone :
          sitting' = [sitting EXCEPT ![k] = [work EXCEPT !.left = @ \ gone, !.done = TRUE]]
    BY <1>1, Zenon DEF Bulk!DecideOne
  <2> DEFINE left == work.left \ gone
             x == [work EXCEPT !.left = left, !.done = TRUE]
  <2>2. Shortens(work, x, left, TRUE) /\ sitting' = [sitting EXCEPT ![k] = x]
    BY <2>1, Zenon DEF Shortens
  <2>3. UNCHANGED sample
    BY <1>1 DEF Bulk!DecideOne
  <2> HIDE DEF x, left
  <2>4. IsSitting(x)
    BY <2>2, SittingIsShorter
  <2> QED BY <2>2, <2>3, <2>4, OneSittingChanges, SamplesStay DEF SampleInv
<1>2. ASSUME Bulk!RefuseOne(k, work) PROVE SampleInv' /\ ClosedStay
  <2>1. PICK gone : sitting' = [sitting EXCEPT ![k] = [work EXCEPT !.left = @ \ gone]]
    BY <1>2, Zenon DEF Bulk!RefuseOne
  <2> DEFINE left == work.left \ gone
             x == [work EXCEPT !.left = left]
  <2>2. sitting' = [sitting EXCEPT ![k] = x]
    BY <2>1, Zenon
  <2>3. UNCHANGED sample
    BY <1>2 DEF Bulk!RefuseOne
  <2>4. Shortens(work, x, left, work.done)
    <3>1. work = [kind |-> work.kind, actor |-> work.actor, step |-> work.step,
                 decision |-> work.decision, sample |-> work.sample, left |-> work.left,
                 batch |-> work.batch, done |-> work.done]
      BY DEF IsSitting
    <3> HIDE DEF left
    <3> QED BY ONLY <3>1 DEF Shortens
  <2> HIDE DEF x, left
  <2>5. IsSitting(x)
    BY <2>4, SittingIsShorter
  <2> QED BY <2>2, <2>3, <2>5, OneSittingChanges, SamplesStay DEF SampleInv
<1>3. ASSUME Bulk!Finish(k, work) PROVE SampleInv' /\ ClosedStay
  <2>1. IsSitting(Bulk!Idle) /\ sitting' = [sitting EXCEPT ![k] = Bulk!Idle]
    BY <1>3 DEF Bulk!Idle, IsSitting, Bulk!Finish
  <2>2. SittingsFit'
    BY <2>1, OneSittingChanges DEF SampleInv
  <2>3. CASE work.kind = "SEND_BACK" /\ sample[work.sample].status # "USED"
    <3>1. work.sample \in SampleIds /\ sample' = [sample EXCEPT ![work.sample].status = "VOID"]
      BY <1>3, <2>3 DEF Bulk!Finish, IsSitting
    <3> QED BY <2>2, <2>3, <3>1, SampleIsClosed DEF SampleInv
  <2>4. CASE work.kind # "SEND_BACK" /\ work.sample # Nobody /\ work.done
    <3>1. work.sample \in SampleIds /\ sample' = [sample EXCEPT ![work.sample].status = "USED"]
      BY <1>3, <2>4 DEF Bulk!Finish, IsSitting
    <3> QED BY <2>2, <3>1, SampleIsClosed DEF SampleInv
  <2>5. CASE /\ ~(work.kind = "SEND_BACK" /\ sample[work.sample].status # "USED")
             /\ ~(work.kind # "SEND_BACK" /\ work.sample # Nobody /\ work.done)
    <3>1. UNCHANGED sample
      BY <1>3, <2>5 DEF Bulk!Finish
    <3> QED BY <2>2, <3>1, SamplesStay DEF SampleInv
  <2> QED BY <2>3, <2>4, <2>5
<1> QED BY <1>1, <1>2, <1>3 DEF Bulk!Proceed

LEMMA SampleStep ==
  ASSUME SampleInv, Bulk!Next
  PROVE  SampleInv' /\ ClosedStay
<1>1. ASSUME UNCHANGED <<sample, sitting>> PROVE SampleInv' /\ ClosedStay
  BY <1>1, SamplesStay DEF SampleInv, SittingsFit
<1>2. CASE Bulk!OnSet
  <2>1. ASSUME NEW actor, NEW p, Bulk!AddCr(actor, p) \/ Bulk!RemoveCr(actor, p) \/ Bulk!CloseSet(actor)
        PROVE  UNCHANGED <<sample, sitting>>
    BY <2>1 DEF Bulk!AddCr, Bulk!RemoveCr, Bulk!CloseSet
  <2> QED BY <1>1, <1>2, <2>1, SampleIsDrawn, SampleIsInspected DEF Bulk!OnSet
<1>3. ASSUME NEW s \in SampleIds, Bulk!SampleAges(s) PROVE SampleInv' /\ ClosedStay
  <2> DEFINE x == [sample[s] EXCEPT !.young = FALSE]
  <2>1. sample' = [sample EXCEPT ![s] = x] /\ UNCHANGED sitting
    BY <1>3, Zenon DEF Bulk!SampleAges
  <2>2. IsSample(sample[s]) /\ sample[s].status \in Bulk!Live
    BY <1>3 DEF SampleInv, SamplesFit, Bulk!SampleAges
  <2>3. /\ IsSample(x) /\ x.by = sample[s].by /\ x.step = sample[s].step
        /\ x.status = sample[s].status
    <3> DEFINE st == sample[s].status
               step == sample[s].step
               by == sample[s].by
               all == sample[s].population
               old == sample[s].verdict
               saw == sample[s].read
               young == sample[s].young
               w == sample[s]
    <3>2. w = [status |-> st, step |-> step, by |-> by, population |-> all,
               verdict |-> old, read |-> saw, young |-> young]
      BY <2>2 DEF IsSample
    <3>3. x = [w EXCEPT !.young = FALSE]
      OBVIOUS
    <3>8. st \in Bulk!Live \union {"NONE", "USED", "VOID"}
      BY <2>2 DEF IsSample
    <3>4. st = sample[s].status /\ step = sample[s].step /\ by = sample[s].by
      OBVIOUS
    <3> HIDE DEF x, w, st, step, by, all, old, saw, young
    <3>5. x = [status |-> st, step |-> step, by |-> by, population |-> all,
               verdict |-> old, read |-> saw, young |-> FALSE]
      BY ONLY <3>2, <3>3
    <3>6. x.status = st /\ x.by = by /\ x.step = step
      BY ONLY <3>5
    <3>7. IsSample(x)
      BY ONLY <3>5, <3>8 DEF IsSample
    <3> QED BY ONLY <3>4, <3>6, <3>7
  <2> HIDE DEF x
  <2>4. SampleInv'
    BY <2>1, <2>3, OneSampleChanges DEF SampleInv, SittingsFit
  <2>5. \A t \in SampleIds : sample'[t] = IF t = s THEN x ELSE sample[t]
    BY <2>1 DEF SampleInv, SamplesFit
  <2> QED BY <2>2, <2>3, <2>4, <2>5 DEF ClosedStay, Bulk!Live
<1>4. ASSUME NEW actor \in Sitters, NEW k \in SittingIds, NEW step \in Bulk!Steps, NEW decision,
             NEW wanted, NEW s \in SampleIds \union {Nobody},
             Bulk!BulkDecide(actor, k, step, decision, wanted, s)
      PROVE  SampleInv' /\ ClosedStay
  <2> DEFINE left == members \intersect wanted
             batch == Bulk!Eligible(actor, step, wanted)
             work == [kind |-> "DECIDE", actor |-> actor, step |-> step, decision |-> decision,
                     sample |-> s, left |-> left, batch |-> batch, done |-> FALSE]
  <2>1. Bulk!Proceed(k, work)
    BY <1>4 DEF Bulk!BulkDecide
  <2> HIDE DEF left, batch
  <2>2. IsSitting(work)
    BY DEF IsSitting
  <2> HIDE DEF work
  <2> QED BY <2>1, <2>2, SittingGoesOn
<1>5. ASSUME NEW actor \in Sitters, NEW k \in SittingIds, NEW wanted,
             NEW s \in SampleIds \union {Nobody}, Bulk!BulkDomainSignoff(actor, k, wanted, s)
      PROVE  SampleInv' /\ ClosedStay
  <2> DEFINE left == Bulk!Eligible(actor, "domain", wanted)
             work == [kind |-> "SIGN", actor |-> actor, step |-> "domain", decision |-> "APPROVE",
                     sample |-> s, left |-> left, batch |-> left, done |-> FALSE]
  <2>1. Bulk!Proceed(k, work)
    BY <1>5 DEF Bulk!BulkDomainSignoff
  <2> HIDE DEF left
  <2>2. IsSitting(work)
    BY DEF IsSitting
  <2> HIDE DEF work
  <2> QED BY <2>1, <2>2, SittingGoesOn
<1>6. ASSUME NEW actor \in Sitters, NEW k \in SittingIds, NEW s \in SampleIds,
             Bulk!RejectDefects(actor, k, s)
      PROVE  SampleInv' /\ ClosedStay
  <2> DEFINE left == {p \in DOMAIN sample[s].verdict : sample[s].verdict[p] = "DEFECT"}
             step == sample[s].step
             work == [kind |-> "SEND_BACK", actor |-> actor, step |-> step, decision |-> "REJECT",
                     sample |-> s, left |-> left, batch |-> left, done |-> FALSE]
  <2>1. Bulk!Proceed(k, work)
    BY <1>6 DEF Bulk!RejectDefects
  <2> HIDE DEF left, step
  <2>2. IsSitting(work)
    BY DEF IsSitting
  <2> HIDE DEF work
  <2> QED BY <2>1, <2>2, SittingGoesOn
<1>7. ASSUME NEW k \in SittingIds, Bulk!Continue(k) PROVE SampleInv' /\ ClosedStay
  BY <1>7, SittingGoesOn DEF Bulk!Continue, SampleInv, SittingsFit
<1>8. ASSUME NEW k \in SittingIds, Bulk!Break(k) PROVE SampleInv' /\ ClosedStay
  <2>1. IsSitting(Bulk!Idle)
    BY DEF Bulk!Idle, IsSitting
  <2> QED BY <1>8, <2>1, OneSittingChanges, SamplesStay DEF Bulk!Break, SampleInv
<1>9. CASE Bulk!Alone
  <2>1. ASSUME NEW actor, NEW p, Bulk!EditDraft(actor, p) \/ Bulk!Attach(actor, p)
                                 \/ Bulk!WithdrawRequest(actor, p) \/ Bulk!DecideAlone(actor, p)
        PROVE  UNCHANGED <<sample, sitting>>
    BY <2>1 DEF Bulk!EditDraft, Bulk!Attach, Bulk!WithdrawRequest, Bulk!DecideAlone, Bulk!bulkVars
  <2> QED BY <1>1, <1>9, <2>1 DEF Bulk!Alone
<1>10. CASE Bulk!Sit
  BY <1>4, <1>5, <1>6, <1>10 DEF Bulk!Sit
<1> QED BY <1>2, <1>3, <1>7, <1>8, <1>9, <1>10 DEF Bulk!Next

\* SamplesStand: of the samples a person drew for a step at most one is live, and one that was
\* used or replaced is never live again, whoever draws, inspects and decides and whichever
\* sittings break off in between (bulk_service, FR-180).
THEOREM WorkSamplesStand == Spec => SamplesStand
<1>1. Init => SampleInv
  BY SamplesBegin DEF Init
<1>2. SampleInv /\ [Next]_vars => SampleInv' /\ ClosedStay
  <2> SUFFICES ASSUME SampleInv, [Next]_vars PROVE SampleInv' /\ ClosedStay
    OBVIOUS
  <2>1. Bulk!Next \/ UNCHANGED bulk
    BY DEF Next, Only, vars
  <2>2. ASSUME UNCHANGED bulk PROVE SampleInv' /\ ClosedStay
    BY <2>2, SamplesStay DEF bulk, SampleInv, SittingsFit
  <2> QED BY <2>1, <2>2, SampleStep
<1>3. SampleInv => Bulk!OneLiveSample
  BY DEF SampleInv, SamplesFit
<1> QED BY <1>1, <1>2, <1>3, PTL
        DEF Spec, SamplesStand, Bulk!ClosedSamplesStay, ClosedStay

-----------------------------------------------------------------------------
(* The review of the delivered translation.  Only reviews that were begun  *)
(* have answers; an answer that is decided is neither saved nor decided    *)
(* again, so that its decider stays somebody else than its reviewer.       *)

Said == Wordings \union {Nothing}

Reply == [verdict : {"ABSENT", "NONE", "OK", "CHANGE", "UNCLEAR"}, proposal : Said, shown : Said,
          decision : {"PENDING", "ACCEPTED", "REJECTED", "NOTED"},
          decider : ReviewManagers \union {"nobody"}]

ReviewingInv ==
  /\ review \in Seq([by : ReviewersOfLanguage, open : BOOLEAN]) /\ Len(review) <= LastReview
  /\ completed \in Seq(Reviewing!Reviews)
  /\ verdict \in [Reviewing!Reviews -> [Strings -> Reply]]
  /\ shipped \in [Strings -> Said]
  /\ override \in [Strings -> [text : Said, by : Nat]]
  /\ \A r \in Reviewing!Reviews, s \in Strings :
       verdict[r][s].decision # "PENDING" =>
         r \in DOMAIN review /\ verdict[r][s].decider # review[r].by

\* What DecisionsAreFinal says of one step.
DecidedStay ==
  \A r \in Reviewing!Reviews, s \in Strings :
    verdict[r][s].decision # "PENDING" => verdict'[r][s] = verdict[r][s]

LEMMA ReviewingBegins == Reviewing!Init => ReviewingInv
<1> SUFFICES ASSUME Reviewing!Init PROVE ReviewingInv
  OBVIOUS
<1>1. Reviewing!NoItem \in Reply /\ Reviewing!NoItem.decision = "PENDING"
  BY DEF Reviewing!NoItem, Reply, Said
<1>2. \A r \in Reviewing!Reviews, s \in Strings : verdict[r][s] = Reviewing!NoItem
  BY DEF Reviewing!Init
<1>3. verdict \in [Reviewing!Reviews -> [Strings -> Reply]]
  BY <1>1 DEF Reviewing!Init
<1>4. Reviewing!NoOverride \in [text : Said, by : Nat]
  BY DEF Reviewing!NoOverride, Said
<1>5. override \in [Strings -> [text : Said, by : Nat]] /\ shipped \in [Strings -> Said]
  BY <1>4 DEF Reviewing!Init, Said
<1>6. /\ review \in Seq([by : ReviewersOfLanguage, open : BOOLEAN]) /\ Len(review) <= LastReview
      /\ completed \in Seq(Reviewing!Reviews)
  BY ReviewingAssumption
     DEF ReviewingAssumption, Reviewing!ReviewAssumption, Reviewing!Init, Reviewing!Reviews
<1> QED BY <1>1, <1>2, <1>3, <1>5, <1>6 DEF ReviewingInv

\* A review that is begun is there from then on, by the same reviewer.
LEMMA ReviewsAreBegun ==
  ASSUME ReviewingInv, NEW u \in ReviewersOfLanguage, Reviewing!MayStart(u)
  PROVE  LET r == Reviewing!ReviewOf(u)
             reviews == Reviewing!Started(u)
         IN  /\ r \in Reviewing!Reviews /\ r \in DOMAIN reviews
             /\ reviews \in Seq([by : ReviewersOfLanguage, open : BOOLEAN])
             /\ Len(reviews) <= LastReview
             /\ \A q \in DOMAIN review : q \in DOMAIN reviews /\ reviews[q] = review[q]
<1> DEFINE x == [by |-> u, open |-> TRUE]
<1>1. LastReview \in Nat
  BY ReviewingAssumption DEF ReviewingAssumption, Reviewing!ReviewAssumption
<1>2. x \in [by : ReviewersOfLanguage, open : BOOLEAN]
  OBVIOUS
<1>3. Reviewing!ReviewOf(u) \in Reviewing!Reviews
  BY DEF Reviewing!MayStart
<1>4. CASE Reviewing!OpenOf(u) # {}
  <2>1. Reviewing!ReviewOf(u) \in DOMAIN review /\ Reviewing!Started(u) = review
    BY <1>4 DEF Reviewing!ReviewOf, Reviewing!Started, Reviewing!OpenOf
  <2> QED BY <1>3, <2>1 DEF ReviewingInv
<1>5. CASE Reviewing!OpenOf(u) = {}
  <2>1. Reviewing!ReviewOf(u) = Len(review) + 1 /\ Reviewing!Started(u) = Append(review, x)
    BY <1>5 DEF Reviewing!ReviewOf, Reviewing!Started
  <2> DEFINE reviews == Append(review, x)
  <2> HIDE DEF x
  <2>2. /\ reviews \in Seq([by : ReviewersOfLanguage, open : BOOLEAN])
        /\ Len(reviews) = Len(review) + 1 /\ DOMAIN reviews = 1 .. Len(review) + 1
        /\ \A q \in 1 .. Len(review) : reviews[q] = review[q]
    BY <1>2 DEF ReviewingInv
  <2>3. DOMAIN review = 1 .. Len(review) /\ Len(review) \in Nat
    BY DEF ReviewingInv
  <2> HIDE DEF reviews
  <2> QED BY <1>1, <1>3, <2>1, <2>2, <2>3 DEF Reviewing!Reviews, reviews
<1> QED BY <1>4, <1>5

\* The reviews grow, their reviewers stay.
Grows ==
  /\ review' \in Seq([by : ReviewersOfLanguage, open : BOOLEAN]) /\ Len(review') <= LastReview
  /\ \A q \in DOMAIN review : q \in DOMAIN review' /\ review'[q].by = review[q].by

LEMMA ReviewsStay ==
  ASSUME ReviewingInv, UNCHANGED review
  PROVE  Grows
BY DEF ReviewingInv, Grows

LEMMA StartedGrows ==
  ASSUME ReviewingInv, NEW u \in ReviewersOfLanguage, Reviewing!MayStart(u),
         review' = Reviewing!Started(u)
  PROVE  Grows /\ Reviewing!ReviewOf(u) \in DOMAIN review'
BY ReviewsAreBegun DEF Grows

\* The answers stay while the reviews grow.
LEMMA AnswersStay ==
  ASSUME ReviewingInv, Grows, UNCHANGED verdict,
         completed' \in Seq(Reviewing!Reviews), shipped' \in [Strings -> Said],
         override' \in [Strings -> [text : Said, by : Nat]]
  PROVE  ReviewingInv' /\ DecidedStay
BY DEF ReviewingInv, Grows, DecidedStay

\* One answer that nobody decided changes; a decision on it is somebody else's.
LEMMA OneAnswerChanges ==
  ASSUME ReviewingInv, Grows, NEW r \in Reviewing!Reviews, NEW s \in Strings, NEW x \in Reply,
         verdict[r][s].decision = "PENDING",
         x.decision # "PENDING" => r \in DOMAIN review' /\ x.decider # review'[r].by,
         verdict' = [verdict EXCEPT ![r][s] = x],
         UNCHANGED <<completed, shipped>>, override' \in [Strings -> [text : Said, by : Nat]]
  PROVE  ReviewingInv' /\ DecidedStay
<1>1. \A q \in Reviewing!Reviews, t \in Strings :
        verdict'[q][t] = IF q = r /\ t = s THEN x ELSE verdict[q][t]
  BY DEF ReviewingInv
<1>2. verdict' \in [Reviewing!Reviews -> [Strings -> Reply]]
  BY DEF ReviewingInv
<1> QED BY <1>1, <1>2 DEF ReviewingInv, Grows, DecidedStay

LEMMA TextsAreSaid ==
  ASSUME ReviewingInv, NEW s \in Strings
  PROVE  Reviewing!Effective(s) \in Said
BY DEF ReviewingInv, Reviewing!Effective

LEMMA ReviewIsCompleted ==
  ASSUME ReviewingInv, NEW u \in ReviewersOfLanguage, Reviewing!Complete(u)
  PROVE  /\ Grows
         /\ Reviewing!ReviewOf(u) \in Reviewing!Reviews
         /\ completed' = Append(completed, Reviewing!ReviewOf(u))
         /\ UNCHANGED <<used, shipped, override, verdict>>
<1> DEFINE r == Reviewing!ReviewOf(u)
           reviews == Reviewing!Started(u)
<1>1. /\ Reviewing!MayStart(u) /\ review' = [reviews EXCEPT ![r].open = FALSE]
      /\ completed' = Append(completed, r)
      /\ UNCHANGED <<used, shipped, override, verdict>>
  BY DEF Reviewing!Complete
<1>2. /\ r \in Reviewing!Reviews /\ r \in DOMAIN reviews
      /\ reviews \in Seq([by : ReviewersOfLanguage, open : BOOLEAN])
      /\ Len(reviews) <= LastReview
      /\ \A q \in DOMAIN review : q \in DOMAIN reviews /\ reviews[q] = review[q]
  BY <1>1, ReviewsAreBegun
<1> HIDE DEF r, reviews
<1>7. reviews[r] \in [by : ReviewersOfLanguage, open : BOOLEAN]
  <2>1. ASSUME NEW S, NEW q \in Seq(S), NEW i \in DOMAIN q PROVE q[i] \in S
    OBVIOUS
  <2> DEFINE S == [by : ReviewersOfLanguage, open : BOOLEAN]
  <2>2. reviews \in Seq(S) /\ r \in DOMAIN reviews
    BY <1>2
  <2> HIDE DEF S
  <2>3. reviews[r] \in S
    BY ONLY <2>1, <2>2
  <2> QED BY <2>3 DEF S
<1> DEFINE x == [reviews[r] EXCEPT !.open = FALSE]
<1>3. x \in [by : ReviewersOfLanguage, open : BOOLEAN] /\ x.by = reviews[r].by
  BY ONLY <1>7
<1>4. review' = [reviews EXCEPT ![r] = x]
  BY <1>1, Zenon
<1> HIDE DEF x
<1>5. /\ review' \in Seq([by : ReviewersOfLanguage, open : BOOLEAN]) /\ Len(review') = Len(reviews)
      /\ \A q \in DOMAIN reviews : q \in DOMAIN review' /\ review'[q].by = reviews[q].by
  BY ONLY <1>2, <1>3, <1>4
<1>6. Grows
  BY <1>2, <1>5 DEF Grows
<1> QED BY <1>1, <1>2, <1>6 DEF r

LEMMA ReviewingStep ==
  ASSUME ReviewingInv, Reviewing!Next
  PROVE  ReviewingInv' /\ DecidedStay
<1> USE DEF Said
<1>1. /\ completed \in Seq(Reviewing!Reviews) /\ shipped \in [Strings -> Said]
      /\ override \in [Strings -> [text : Said, by : Nat]]
      /\ Deliveries \subseteq Said /\ LastReview \in Nat
  BY ReviewingAssumption
     DEF ReviewingAssumption, Reviewing!ReviewAssumption, ReviewingInv
<1>2. ASSUME NEW u \in ReviewersOfLanguage, Reviewing!OpenPage(u)
      PROVE  ReviewingInv' /\ DecidedStay
  BY <1>1, <1>2, StartedGrows, AnswersStay DEF Reviewing!OpenPage
<1>3. ASSUME NEW u \in ReviewersOfLanguage, Reviewing!Complete(u)
      PROVE  ReviewingInv' /\ DecidedStay
  <2> DEFINE r == Reviewing!ReviewOf(u)
  <2>1. /\ Grows /\ r \in Reviewing!Reviews /\ completed' = Append(completed, r)
        /\ UNCHANGED <<shipped, override, verdict>>
    BY <1>3, ReviewIsCompleted
  <2> HIDE DEF r
  <2>2. completed' \in Seq(Reviewing!Reviews)
    BY ONLY <1>1, <2>1
  <2> QED BY <1>1, <2>1, <2>2, AnswersStay
<1>4. ASSUME NEW u \in ReviewersOfLanguage, NEW s \in Strings,
             NEW v \in {"OK", "CHANGE", "UNCLEAR", "NONE", "ABSENT"},
             NEW proposal \in Wordings \union {Nothing}, Reviewing!Save(u, s, v, proposal)
      PROVE  ReviewingInv' /\ DecidedStay
  <2> DEFINE r == Reviewing!ReviewOf(u)
             a == verdict[r][s]
             shown == IF a = Reviewing!NoItem THEN Reviewing!Effective(s) ELSE a.shown
             y == [a EXCEPT !.verdict = v, !.proposal = proposal, !.shown = shown]
             x == IF v = "ABSENT" THEN Reviewing!NoItem ELSE Reviewing!Answered(r, s, v, proposal)
  <2>1. Reviewing!MayStart(u) /\ Grows /\ r \in Reviewing!Reviews /\ r \in DOMAIN review'
    BY <1>4, StartedGrows, ReviewsAreBegun DEF Reviewing!Save
  <2>2. /\ a \in Reply /\ a.decision = "PENDING" /\ Reviewing!Effective(s) \in Said
        /\ shown \in Said
    BY <1>4, <2>1, TextsAreSaid DEF Reviewing!Save, Reviewing!MayAnswer, ReviewingInv, Reply
  <2>3. Reviewing!Answered(r, s, v, proposal) = y
    BY Zenon DEF Reviewing!Answered
  <2>4. /\ verdict' = [verdict EXCEPT ![r][s] = x]
        /\ UNCHANGED <<completed, shipped, override>>
    BY <1>4, Zenon DEF Reviewing!Save
  <2>5. y \in Reply /\ y.decision = "PENDING"
    <3> HIDE DEF a, shown
    <3> QED BY ONLY <2>2, v \in {"OK", "CHANGE", "UNCLEAR", "NONE", "ABSENT"},
                    proposal \in Wordings \union {Nothing} DEF Reply, Said
  <2>6. Reviewing!NoItem \in Reply /\ Reviewing!NoItem.decision = "PENDING"
    BY DEF Reviewing!NoItem, Reply
  <2> HIDE DEF y
  <2>7. x \in Reply /\ x.decision = "PENDING"
    BY <2>3, <2>5, <2>6
  <2> HIDE DEF x
  <2> QED BY <1>1, <2>1, <2>2, <2>4, <2>7, OneAnswerChanges
<1>5. ASSUME NEW m \in ReviewManagers, NEW u \in ReviewersOfLanguage,
             Reviewing!Assign(m, u) \/ Reviewing!Unassign(m, u)
      PROVE  ReviewingInv' /\ DecidedStay
  BY <1>1, <1>5, ReviewsStay, AnswersStay DEF Reviewing!Assign, Reviewing!Unassign
<1>6. ASSUME NEW m \in ReviewManagers, NEW s \in Strings, Reviewing!RemoveOverride(m, s)
      PROVE  ReviewingInv' /\ DecidedStay
  <2>1. Reviewing!NoOverride \in [text : Said, by : Nat]
    BY DEF Reviewing!NoOverride
  <2>2. override' \in [Strings -> [text : Said, by : Nat]]
    BY <1>1, <1>6, <2>1 DEF Reviewing!RemoveOverride
  <2> QED BY <1>1, <1>6, <2>2, ReviewsStay, AnswersStay DEF Reviewing!RemoveOverride
<1>7. ASSUME NEW m \in ReviewManagers, NEW s \in Strings, NEW r \in DOMAIN review,
             NEW decision \in {"ACCEPTED", "REJECTED", "NOTED"},
             Reviewing!MayDecide(m, r, s), Reviewing!Decided(m, r, s, decision),
             UNCHANGED <<review, completed, shipped>>,
             override' \in [Strings -> [text : Said, by : Nat]]
      PROVE  ReviewingInv' /\ DecidedStay
  <2>1. r \in Reviewing!Reviews
    BY <1>1 DEF ReviewingInv, Reviewing!Reviews
  <2> DEFINE a == verdict[r][s]
             x == [a EXCEPT !.decision = decision, !.decider = m]
  <2>2. a \in Reply /\ a.decision = "PENDING" /\ review[r].by # m
    BY <1>7, <2>1 DEF ReviewingInv, Reviewing!MayDecide
  <2>3. verdict' = [verdict EXCEPT ![r][s] = x]
    BY <1>7, Zenon DEF Reviewing!Decided
  <2>4. x \in Reply /\ x.decider = m
    <3> HIDE DEF a
    <3> QED BY ONLY <2>2, m \in ReviewManagers, decision \in {"ACCEPTED", "REJECTED", "NOTED"}
               DEF Reply
  <2> HIDE DEF x
  <2> QED BY <1>7, <2>1, <2>2, <2>3, <2>4, ReviewsStay, OneAnswerChanges
<1>8. ASSUME NEW m \in ReviewManagers, NEW s \in Strings, NEW r \in DOMAIN review,
             NEW t \in Wordings, Reviewing!Accept(m, r, s, t)
      PROVE  ReviewingInv' /\ DecidedStay
  <2>1. [text |-> t, by |-> r] \in [text : Said, by : Nat]
    BY DEF ReviewingInv
  <2>2. override' \in [Strings -> [text : Said, by : Nat]]
    BY <1>1, <1>8, <2>1 DEF Reviewing!Accept
  <2> QED BY <1>7, <1>8, <2>2 DEF Reviewing!Accept
<1>9. ASSUME NEW m \in ReviewManagers, NEW s \in Strings, NEW r \in DOMAIN review,
             NEW decision \in {"REJECTED", "NOTED"}, Reviewing!Refuse(m, r, s, decision)
      PROVE  ReviewingInv' /\ DecidedStay
  BY <1>1, <1>7, <1>9 DEF Reviewing!Refuse
<1>10. ASSUME NEW s \in Strings, NEW t \in Deliveries, NEW there \in BOOLEAN,
              Reviewing!Ship(s, t, there)
       PROVE  ReviewingInv' /\ DecidedStay
  <2>1. shipped' \in [Strings -> Said]
    BY <1>1, <1>10 DEF Reviewing!Ship
  <2> QED BY <1>1, <1>10, <2>1, ReviewsStay, AnswersStay DEF Reviewing!Ship
<1> QED BY <1>2, <1>3, <1>4, <1>5, <1>6, <1>8, <1>9, <1>10 DEF Reviewing!Next

\* What FollowUpClears says of one step.
Clears ==
  \A u \in ReviewersOfLanguage :
    /\ Reviewing!Complete(u)
    /\ \A s \in Reviewing!Required :
         verdict[Reviewing!ReviewOf(u)][s].verdict = "OK"
         /\ verdict[Reviewing!ReviewOf(u)][s].shown = Reviewing!Effective(s)
    => Reviewing!Required \intersect Reviewing!Pending' = {}

LEMMA FollowUps ==
  ASSUME ReviewingInv
  PROVE  Clears
<1> SUFFICES ASSUME NEW u \in ReviewersOfLanguage, Reviewing!Complete(u),
                    \A s \in Reviewing!Required :
                      /\ verdict[Reviewing!ReviewOf(u)][s].verdict = "OK"
                      /\ verdict[Reviewing!ReviewOf(u)][s].shown = Reviewing!Effective(s),
                    NEW s \in Reviewing!Required
             PROVE  s \notin Reviewing!Pending'
  BY DEF Clears
<1> PICK r : r = Reviewing!ReviewOf(u)
  OBVIOUS
<1> DEFINE last == Len(completed) + 1
<1>1. /\ r \in Reviewing!Reviews /\ completed' = Append(completed, r)
      /\ UNCHANGED <<used, shipped, override, verdict>>
  BY ReviewIsCompleted
<1>2. /\ verdict[r][s].verdict = "OK" /\ verdict[r][s].shown = Reviewing!Effective(s)
  OBVIOUS
<1>3. /\ DOMAIN completed' = 1 .. last /\ completed'[last] = r /\ Len(completed) \in Nat
  BY <1>1 DEF ReviewingInv
<1>4. verdict[r][s] # Reviewing!NoItem
  BY <1>2 DEF Reviewing!NoItem
<1>5. last \in Reviewing!AnswersTo(s)' /\ \A k \in Reviewing!AnswersTo(s)' : k \in 1 .. last
  BY <1>1, <1>3, <1>4 DEF Reviewing!AnswersTo
<1>6. (CHOOSE k \in Reviewing!AnswersTo(s)' : \A j \in Reviewing!AnswersTo(s)' : j <= k) = last
  <2>1. \A j \in Reviewing!AnswersTo(s)' : j <= last
    BY <1>3, <1>5
  <2>2. ASSUME NEW k \in Reviewing!AnswersTo(s)', \A j \in Reviewing!AnswersTo(s)' : j <= k
        PROVE  k = last
    BY <1>3, <1>5, <2>2
  <2> QED BY <1>5, <2>1, <2>2
<1>7. Reviewing!Approved(s)' = Reviewing!ApprovedBy(r, s)'
  BY <1>3, <1>5, <1>6 DEF Reviewing!Approved
<1>8. Reviewing!ApprovedBy(r, s)' = verdict[r][s].shown
  BY <1>1, <1>2 DEF Reviewing!ApprovedBy
<1>9. Reviewing!Effective(s)' = Reviewing!Effective(s)
  BY <1>1 DEF Reviewing!Effective
<1> QED BY <1>2, <1>7, <1>8, <1>9 DEF Reviewing!Pending

\* DecisionsAreFinal: whoever answers, completes and decides in whatever order, nobody decides
\* on an answer of their own, a decided answer never changes, and a follow-up that agrees with
\* what is delivered leaves nothing of it to approve (translation_review_service, FR-164, FR-176).
THEOREM WorkDecisionsAreFinal == Spec => DecisionsAreFinal
<1>1. Init => ReviewingInv
  BY ReviewingBegins DEF Init
<1>2. ReviewingInv /\ [Next]_vars => ReviewingInv' /\ DecidedStay
  <2> SUFFICES ASSUME ReviewingInv, [Next]_vars PROVE ReviewingInv' /\ DecidedStay
    OBVIOUS
  <2>1. Reviewing!Next \/ UNCHANGED reviewing
    BY DEF Next, Only, vars
  <2>2. ASSUME UNCHANGED reviewing PROVE ReviewingInv' /\ DecidedStay
    BY <2>2 DEF reviewing, ReviewingInv, DecidedStay
  <2> QED BY <2>1, <2>2, ReviewingStep
<1>3. ReviewingInv => Reviewing!NobodyDecidesAlone
  <2>1. ReviewingInv => DOMAIN review \subseteq Reviewing!Reviews
    BY ReviewingAssumption
       DEF ReviewingAssumption, Reviewing!ReviewAssumption, ReviewingInv, Reviewing!Reviews
  <2> QED BY <2>1 DEF ReviewingInv, Reviewing!NobodyDecidesAlone
<1>4. ReviewingInv => Clears
  BY FollowUps
<1>5. []ReviewingInv => Reviewing!FollowUpClears
  BY <1>4, PTL DEF Reviewing!FollowUpClears, Clears
<1>6. Spec => []ReviewingInv /\ Reviewing!DecisionsAreFinal
  BY <1>1, <1>2, PTL DEF Spec, Reviewing!DecisionsAreFinal, DecidedStay
<1> QED BY <1>3, <1>5, <1>6, PTL DEF DecisionsAreFinal

-----------------------------------------------------------------------------
(* Translations of a code: each one is a text that two people answer for.  *)

TranslatingPeople == Translating!People

Translation == [text : TranslationTexts \union {Nothing},
                translator : TranslatingPeople \union {Nobody},
                approver : TranslatingPeople \union {Nobody},
                author : TranslatingPeople \union {Nobody},
                of : Sources \union {Nothing}]

TranslatingInv ==
  /\ source \in [Translating!Revisions -> Sources \union {Nothing}]
  /\ translation \in [Translating!Revisions -> [Languages -> Translation]]

\* What Agreement(r, l)!Step says of one translation.
Agreed(old, new) ==
  \/ new.text \in TranslationTexts /\ new.translator \in TranslatingPeople /\ new.approver = Nobody
  \/ /\ old.text # Nothing /\ old.approver = Nobody
     /\ new.approver \in TranslatingPeople \ {old.translator}
     /\ new.text = old.text /\ new.translator = old.translator
  \/ new = old

AllAgreed ==
  \A r \in Translating!Revisions, l \in Languages : Agreed(translation[r][l], translation'[r][l])

Kept ==
  (\E u \in Translating!People, r \in Translating!Revisions : Translating!CarryOver(u, r)) =>
    \A r \in Translating!Revisions, l \in Languages :
      translation[r][l].text # Nothing => translation'[r][l] = translation[r][l]

LEMMA TranslatingBegins == Translating!Init => TranslatingInv
<1> SUFFICES ASSUME Translating!Init PROVE TranslatingInv
  OBVIOUS
<1>1. Translating!Missing \in Translation
  BY DEF Translating!Missing, Translation
<1> QED BY <1>1 DEF Translating!Init, TranslatingInv

\* One translation changes.
LEMMA OneTranslationChanges ==
  ASSUME TranslatingInv, NEW r \in Translating!Revisions, NEW l \in Languages, NEW t \in Translation,
         translation' = [translation EXCEPT ![r][l] = t], UNCHANGED source,
         Agreed(translation[r][l], t)
  PROVE  TranslatingInv' /\ AllAgreed
<1>1. \A q \in Translating!Revisions, k \in Languages :
        translation'[q][k] = IF q = r /\ k = l THEN t ELSE translation[q][k]
  BY DEF TranslatingInv
<1>2. translation' \in [Translating!Revisions -> [Languages -> Translation]]
  BY DEF TranslatingInv
<1> QED BY <1>1, <1>2 DEF TranslatingInv, AllAgreed, Agreed

LEMMA TranslatingStep ==
  ASSUME TranslatingInv, Translating!Next
  PROVE  TranslatingInv' /\ AllAgreed
<1> USE DEF TranslatingPeople
<1>1. ASSUME UNCHANGED translation,
             source' \in [Translating!Revisions -> Sources \union {Nothing}]
      PROVE  TranslatingInv' /\ AllAgreed
  BY <1>1 DEF TranslatingInv, AllAgreed, Agreed
<1>2. ASSUME NEW r \in Translating!Revisions, NEW x \in Sources,
             Translating!OpenRevision(r, x) \/ Translating!EditSource(r, x)
      PROVE  TranslatingInv' /\ AllAgreed
  <2>1. UNCHANGED translation /\ source' \in [Translating!Revisions -> Sources \union {Nothing}]
    BY <1>2 DEF Translating!OpenRevision, Translating!EditSource, TranslatingInv
  <2> QED BY <1>1, <2>1
<1>3. ASSUME NEW r \in Translating!Revisions,
             Translating!Decide(r) \/ Translating!Archive(r) \/ Translating!Withdraw(r)
      PROVE  TranslatingInv' /\ AllAgreed
  <2>1. UNCHANGED translation /\ source' \in [Translating!Revisions -> Sources \union {Nothing}]
    BY <1>3 DEF Translating!Decide, Translating!Archive, Translating!Withdraw, TranslatingInv
  <2> QED BY <1>1, <2>1
<1>4. ASSUME NEW u \in Translating!People, NEW r \in Translating!Revisions, Translating!CarryOver(u, r)
      PROVE  TranslatingInv' /\ AllAgreed
  <2>1. r - 1 \in Translating!Revisions
    <3>1. LastRevision \in Nat
      BY WordsAssumption DEF WordsAssumption, Translating!TranslationsAssumption
    <3>2. r > 1
      BY <1>4, Zenon DEF Translating!CarryOver
    <3> QED BY <3>1, <3>2 DEF Translating!Revisions
  <2> DEFINE copied(l) == [translation[r - 1][l] EXCEPT !.translator = u, !.approver = Nobody,
                                                        !.of = Nothing]
             taken(l) == IF Translating!Carried(u, r, l) THEN copied(l) ELSE translation[r][l]
  <2>2. translation' = [translation EXCEPT ![r] = [l \in Languages |-> taken(l)]]
    BY <1>4, Zenon DEF Translating!CarryOver
  <2>3. \A q \in Translating!Revisions, l \in Languages :
          translation'[q][l] = IF q = r THEN taken(l) ELSE translation[q][l]
    <3> HIDE DEF taken
    <3> QED BY <2>2 DEF TranslatingInv
  <2>4. ASSUME NEW l \in Languages, Translating!Carried(u, r, l)
        PROVE  /\ copied(l) \in Translation
               /\ copied(l).text \in TranslationTexts /\ copied(l).translator = u
               /\ copied(l).approver = Nobody
    <3> DEFINE t == translation[r - 1][l]
    <3>1. t \in Translation /\ t.text # Nothing /\ u \in TranslatingPeople
      BY <2>1, <2>4 DEF TranslatingInv, Translating!Carried
    <3> HIDE DEF t
    <3>2. /\ [t EXCEPT !.translator = u, !.approver = Nobody, !.of = Nothing] \in Translation
          /\ [t EXCEPT !.translator = u, !.approver = Nobody, !.of = Nothing].text \in TranslationTexts
          /\ [t EXCEPT !.translator = u, !.approver = Nobody, !.of = Nothing].translator = u
          /\ [t EXCEPT !.translator = u, !.approver = Nobody, !.of = Nothing].approver = Nobody
      BY ONLY <3>1 DEF Translation
    <3> QED BY <3>2 DEF t
  <2> HIDE DEF copied
  <2>5. ASSUME NEW l \in Languages
        PROVE  taken(l) \in Translation /\ Agreed(translation[r][l], taken(l))
    <3>1. CASE Translating!Carried(u, r, l)
      BY <2>4, <3>1 DEF Agreed
    <3>2. CASE ~Translating!Carried(u, r, l)
      BY <3>2 DEF Agreed, TranslatingInv
    <3> QED BY <3>1, <3>2
  <2> HIDE DEF taken
  <2>6. translation' \in [Translating!Revisions -> [Languages -> Translation]]
    <3>1. [l \in Languages |-> taken(l)] \in [Languages -> Translation]
      BY <2>5
    <3> QED BY <2>2, <3>1 DEF TranslatingInv
  <2>7. AllAgreed
    BY <2>3, <2>5 DEF AllAgreed, Agreed
  <2> QED BY <1>4, <2>6, <2>7 DEF TranslatingInv, Translating!CarryOver
<1>5. ASSUME NEW u \in Translating!People, NEW r \in Translating!Revisions, NEW l \in Languages,
             Translating!Approve(u, r, l)
      PROVE  TranslatingInv' /\ AllAgreed
  <2> DEFINE old == translation[r][l]
             s == source[r]
             t == [old EXCEPT !.approver = u, !.of = s]
  <2>1. translation' = [translation EXCEPT ![r][l] = t] /\ UNCHANGED source
    BY <1>5, Zenon DEF Translating!Approve, Translating!Becomes
  <2>2. /\ old \in Translation /\ s \in Sources \union {Nothing}
        /\ old.text # Nothing /\ old.approver = Nobody /\ old.translator # u
        /\ u \in TranslatingPeople
    BY <1>5 DEF TranslatingInv, Translating!Approve, Translating!MayApprove
  <2> HIDE DEF old, s
  <2>3. /\ t \in Translation /\ t.text = old.text /\ t.translator = old.translator
        /\ t.approver = u
    BY ONLY <2>2 DEF Translation
  <2> HIDE DEF t
  <2>4. Agreed(old, t)
    BY <2>2, <2>3 DEF Agreed
  <2> QED BY <2>1, <2>3, <2>4, OneTranslationChanges DEF old
<1>6. ASSUME NEW u \in Translating!People, NEW r \in Translating!Revisions, NEW l \in Languages,
             NEW x \in TranslationTexts, Translating!Save(u, r, l, x)
      PROVE  TranslatingInv' /\ AllAgreed
  <2> DEFINE t == Translating!Saved(u, r, l, x)
  <2>1. translation' = [translation EXCEPT ![r][l] = t] /\ UNCHANGED source
    BY <1>6, Zenon DEF Translating!Save, Translating!Becomes
  <2>2. t \in Translation /\ Agreed(translation[r][l], t)
    BY DEF TranslatingInv, Translation, Translating!Saved, Agreed
  <2> HIDE DEF t
  <2> QED BY <2>1, <2>2, OneTranslationChanges
<1> QED BY <1>2, <1>3, <1>4, <1>5, <1>6 DEF Translating!Next

LEMMA CarryingKeeps ==
  ASSUME TranslatingInv
  PROVE  Kept
<1> SUFFICES ASSUME NEW u, NEW r \in Translating!Revisions, Translating!CarryOver(u, r),
                    NEW q \in Translating!Revisions, NEW l \in Languages,
                    translation[q][l].text # Nothing
             PROVE  translation'[q][l] = translation[q][l]
  BY DEF Kept
<1> DEFINE new == [k \in Languages |->
             IF Translating!Carried(u, r, k)
             THEN [translation[r - 1][k] EXCEPT !.translator = u, !.approver = Nobody, !.of = Nothing]
             ELSE translation[r][k]]
<1>1. translation' = [translation EXCEPT ![r] = new]
  BY Zenon DEF Translating!CarryOver
<1>2. q = r => new[l] = translation[r][l]
  BY DEF Translating!Carried
<1> HIDE DEF new
<1>3. translation'[q] = IF q = r THEN new ELSE translation[q]
  BY <1>1 DEF TranslatingInv
<1> QED BY <1>2, <1>3

LEMMA TranslationsAgree == Spec => Translating!AgreedByTwo /\ Translating!WorkIsKept
<1>1. Init => TranslatingInv /\ \A r \in Translating!Revisions, l \in Languages :
                                   Translating!Agreement(r, l)!Init
  BY TranslatingBegins DEF Init, Translating!Init, Translating!Missing, Translating!Agreement!Init
<1>2. TranslatingInv /\ [Next]_vars => TranslatingInv' /\ AllAgreed
  <2> SUFFICES ASSUME TranslatingInv, [Next]_vars PROVE TranslatingInv' /\ AllAgreed
    OBVIOUS
  <2>1. Translating!Next \/ UNCHANGED translating
    BY DEF Next, Only, vars
  <2>2. ASSUME UNCHANGED translating PROVE TranslatingInv' /\ AllAgreed
    BY <2>2 DEF translating, TranslatingInv, AllAgreed, Agreed
  <2> QED BY <2>1, <2>2, TranslatingStep
<1>3. AllAgreed => \A r \in Translating!Revisions, l \in Languages : Translating!Agreement(r, l)!Step
  BY DEF AllAgreed, Agreed, TranslatingPeople,
         Translating!Agreement!Step, Translating!Agreement!Next, Translating!Agreement!Write,
         Translating!Agreement!Approve, Translating!Agreement!Reopen, Translating!Agreement!twoVars
<1>4. TranslatingInv => Kept
  BY CarryingKeeps
<1> QED BY <1>1, <1>2, <1>3, <1>4, PTL
        DEF Spec, Translating!AgreedByTwo, Translating!WorkIsKept, Kept

-----------------------------------------------------------------------------
(* The wording: a term that nobody created has no translation, and what is *)
(* approved was approved for the English the term has.                     *)

WordingPeople == Wording!People

Entry == [text : Words \union {Nothing}, proposer : WordingPeople \union {Nobody},
          approver : WordingPeople \union {Nobody}, of : English \union {Nothing}]

WordingInv ==
  /\ DOMAIN term = Terms /\ \A t \in Terms : term[t].english \in English \union {Nothing}
  /\ wording \in [Terms -> Entry]
  /\ \A t \in Terms : term[t].english = Nothing => wording[t] = Wording!Missing
  /\ Wording!ApprovalsFitTheEnglish

\* What Agreement(t)!Step says of one entry.
EntryAgreed(old, new) ==
  \/ new.text \in Words /\ new.proposer \in WordingPeople /\ new.approver = Nobody
  \/ /\ old.text # Nothing /\ old.approver = Nobody
     /\ new.approver \in WordingPeople \ {old.proposer}
     /\ new.text = old.text /\ new.proposer = old.proposer
  \/ new.approver = Nobody /\ new.text = old.text /\ new.proposer = old.proposer
  \/ new = old

EntriesAgreed == \A t \in Terms : EntryAgreed(wording[t], wording'[t])

LEMMA WordingBegins ==
  ASSUME Wording!Init
  PROVE  WordingInv /\ \A t \in Terms : Wording!Agreement(t)!Init
<1> DEFINE x == CHOOSE y \in Words : TRUE
           e == CHOOSE y \in English : TRUE
           seeded == [Wording!Missing EXCEPT !.text = x]
<1>1. /\ x \in Words /\ e \in English /\ Nothing \notin Words \union English
      /\ Nobody \notin WordingPeople
  BY WordsAssumption DEF WordsAssumption, Wording!TerminologyAssumption, WordingPeople
<1> HIDE DEF x, e
<1>2. /\ Wording!Missing \in Entry /\ seeded \in Entry
      /\ Wording!Missing.approver = Nobody /\ seeded.approver = Nobody
      /\ Wording!Missing.proposer = Nobody /\ seeded.proposer = Nobody
      /\ Wording!Missing.text = Nothing /\ seeded.text = x
  BY <1>1 DEF Wording!Missing, Entry
<1>3. wording = [t \in Terms |-> IF t \in Seeded THEN seeded ELSE Wording!Missing]
  BY DEF Wording!Init, x
<1>4. /\ DOMAIN term = Terms
      /\ \A t \in Terms : term[t].english = IF t \in Seeded THEN e ELSE Nothing
  BY DEF Wording!Init, e
<1> HIDE DEF seeded
<1>5. wording \in [Terms -> Entry]
  BY <1>2, <1>3
<1>6. \A t \in Terms : wording[t] = IF t \in Seeded THEN seeded ELSE Wording!Missing
  BY <1>3
<1>7. WordingInv
  BY <1>1, <1>2, <1>4, <1>5, <1>6 DEF WordingInv, Wording!ApprovalsFitTheEnglish
<1> QED BY <1>1, <1>2, <1>6, <1>7 DEF Wording!Agreement!Init

\* One entry changes, the terms do not.
LEMMA OneEntryChanges ==
  ASSUME WordingInv, NEW t \in Terms, NEW x \in Entry, UNCHANGED term,
         wording' = [wording EXCEPT ![t] = x], EntryAgreed(wording[t], x),
         term[t].english # Nothing, x.approver # Nobody => x.of = term[t].english
  PROVE  WordingInv' /\ EntriesAgreed
<1>1. \A k \in Terms : wording'[k] = IF k = t THEN x ELSE wording[k]
  BY DEF WordingInv
<1>2. wording' \in [Terms -> Entry]
  BY DEF WordingInv
<1> QED BY <1>1, <1>2 DEF WordingInv, Wording!ApprovalsFitTheEnglish, EntriesAgreed, EntryAgreed

LEMMA EntriesStay ==
  ASSUME WordingInv, UNCHANGED <<term, wording>>
  PROVE  WordingInv' /\ EntriesAgreed
BY DEF WordingInv, Wording!ApprovalsFitTheEnglish, EntriesAgreed, EntryAgreed

\* A draft is approved by somebody who did not propose it.
LEMMA EntryIsApproved ==
  ASSUME WordingInv, NEW u \in Wording!People, NEW t \in Terms, Wording!Approving(u, t)
  PROVE  WordingInv' /\ EntriesAgreed
<1> DEFINE old == wording[t]
           e == term[t].english
           x == [old EXCEPT !.approver = u, !.of = e]
<1>1. wording' = [wording EXCEPT ![t] = x] /\ UNCHANGED term
  BY Zenon DEF Wording!Approving
<1>2. /\ old \in Entry /\ e \in English \union {Nothing} /\ u \in WordingPeople
      /\ old.text # Nothing /\ old.approver = Nobody /\ old.proposer # u
  BY DEF WordingInv, Wording!Approving, Wording!MayApprove, Wording!IsDraft, WordingPeople
<1>3. e # Nothing
  BY <1>2 DEF WordingInv, Wording!Missing
<1> HIDE DEF old, e
<1>4. x \in Entry /\ x.text = old.text /\ x.proposer = old.proposer /\ x.approver = u /\ x.of = e
  BY ONLY <1>2 DEF Entry
<1> HIDE DEF x
<1>5. EntryAgreed(old, x)
  BY <1>2, <1>4 DEF EntryAgreed
<1> QED BY <1>1, <1>3, <1>4, <1>5, OneEntryChanges DEF old, e

LEMMA WordingStep ==
  ASSUME WordingInv, Wording!Next
  PROVE  WordingInv' /\ EntriesAgreed
<1>1. Nothing \notin Words \union English /\ Nobody \notin WordingPeople
  BY WordsAssumption DEF WordsAssumption, Wording!TerminologyAssumption, WordingPeople
<1>2. ASSUME NEW u \in Wording!People,
             Wording!StartBulk(u) \/ \E t \in Terms : Wording!BreakOff(u, t)
      PROVE  WordingInv' /\ EntriesAgreed
  BY <1>2, EntriesStay DEF Wording!StartBulk, Wording!BreakOff
<1>3. ASSUME NEW u \in Wording!People, NEW t \in Terms,
             Wording!Approve(u, t) \/ Wording!ApproveNext(u, t)
      PROVE  WordingInv' /\ EntriesAgreed
  BY <1>3, EntriesStay, EntryIsApproved DEF Wording!Approve, Wording!ApproveNext
<1>4. ASSUME NEW u \in Wording!People, NEW t \in Terms, NEW e \in English, NEW keep \in BOOLEAN,
             Wording!CreateTerm(u, t, e, keep)
      PROVE  WordingInv' /\ EntriesAgreed
  <2> DEFINE x == [english |-> e, keep |-> keep, active |-> TRUE, stamp |-> 0]
  <2>1. /\ term' = [term EXCEPT ![t] = x] /\ UNCHANGED wording /\ term[t].english = Nothing
    BY <1>4 DEF Wording!CreateTerm, Wording!Exists
  <2>2. x.english = e
    OBVIOUS
  <2> HIDE DEF x
  <2>3. DOMAIN term' = Terms /\ \A k \in Terms : term'[k] = IF k = t THEN x ELSE term[k]
    BY <2>1 DEF WordingInv
  <2>4. wording[t].approver = Nobody
    BY <2>1 DEF WordingInv, Wording!Missing
  <2> QED BY <1>1, <2>1, <2>2, <2>3, <2>4
          DEF WordingInv, Wording!ApprovalsFitTheEnglish, EntriesAgreed, EntryAgreed
<1>5. ASSUME NEW u \in Wording!People, NEW t \in Terms, NEW e \in English, NEW keep \in BOOLEAN,
             NEW active \in BOOLEAN, Wording!UpdateTerm(u, t, e, keep, active)
      PROVE  WordingInv' /\ EntriesAgreed
  <2> DEFINE stamp == term[t].stamp + 1
             x == [english |-> e, keep |-> keep, active |-> active, stamp |-> stamp]
             old == wording[t]
             y == Wording!Reopened(t, e)
  <2>1. /\ term' = [term EXCEPT ![t] = x] /\ wording' = [wording EXCEPT ![t] = y]
        /\ term[t].english # Nothing
    BY <1>5 DEF Wording!UpdateTerm, Wording!Exists
  <2> HIDE DEF stamp
  <2>2. x.english = e
    OBVIOUS
  <2>3. old \in Entry
    BY DEF WordingInv
  <2>4. /\ y \in Entry /\ y.text = old.text /\ y.proposer = old.proposer
        /\ e # term[t].english => y.approver = Nobody
        /\ e = term[t].english => y = old
    <3>1. CASE e # term[t].english
      <4>1. y = [old EXCEPT !.approver = Nobody, !.of = Nothing]
        BY <3>1, Zenon DEF Wording!Reopened
      <4> HIDE DEF old, y
      <4>2. y \in Entry /\ y.text = old.text /\ y.proposer = old.proposer /\ y.approver = Nobody
        BY ONLY <2>3, <4>1 DEF Entry
      <4> QED BY <3>1, <4>2
    <3>2. CASE e = term[t].english
      BY <2>3, <3>2 DEF Wording!Reopened
    <3> QED BY <3>1, <3>2
  <2> HIDE DEF x, y, old
  <2>5. DOMAIN term' = Terms /\ \A k \in Terms : term'[k] = IF k = t THEN x ELSE term[k]
    BY <2>1 DEF WordingInv
  <2>6. /\ wording' \in [Terms -> Entry]
        /\ \A k \in Terms : wording'[k] = IF k = t THEN y ELSE wording[k]
    BY <2>1, <2>4 DEF WordingInv
  <2>7. \A k \in Terms : /\ term'[k].english \in English \union {Nothing}
                         /\ term'[k].english = Nothing => wording'[k] = Wording!Missing
    BY <1>1, <2>2, <2>5, <2>6 DEF WordingInv
  <2>8. Wording!ApprovalsFitTheEnglish'
    BY <2>2, <2>4, <2>5, <2>6 DEF WordingInv, Wording!ApprovalsFitTheEnglish, old
  <2>9. EntriesAgreed
    BY <2>4, <2>6 DEF EntriesAgreed, EntryAgreed, old
  <2> QED BY <2>5, <2>6, <2>7, <2>8, <2>9 DEF WordingInv
<1>6. ASSUME NEW u \in Wording!People, NEW t \in Terms, NEW w \in Words, NEW noted \in BOOLEAN,
             Wording!Propose(u, t, w, noted)
      PROVE  WordingInv' /\ EntriesAgreed
  <2> DEFINE x == [text |-> w, proposer |-> u, approver |-> Nobody, of |-> Nothing]
  <2>1. /\ wording' = [wording EXCEPT ![t] = x] /\ UNCHANGED term /\ term[t].english # Nothing
    BY <1>6 DEF Wording!Propose, Wording!MayPropose, Wording!Exists
  <2>2. x \in Entry /\ x.approver = Nobody /\ EntryAgreed(wording[t], x)
    BY DEF Entry, EntryAgreed, WordingPeople
  <2> HIDE DEF x
  <2> QED BY <2>1, <2>2, OneEntryChanges
<1>7. ASSUME NEW u \in Wording!People, NEW t \in Terms, Wording!Reject(u, t)
      PROVE  WordingInv' /\ EntriesAgreed
  <2> DEFINE old == wording[t]
             x == [old EXCEPT !.approver = Nobody, !.of = Nothing]
  <2>1. wording' = [wording EXCEPT ![t] = x] /\ UNCHANGED term
    BY <1>7, Zenon DEF Wording!Reject
  <2>2. old \in Entry /\ old.text # Nothing
    BY <1>7 DEF WordingInv, Wording!Reject
  <2>3. term[t].english # Nothing
    BY <2>2 DEF WordingInv, Wording!Missing
  <2> HIDE DEF old
  <2>4. x \in Entry /\ x.text = old.text /\ x.proposer = old.proposer /\ x.approver = Nobody
    BY ONLY <2>2 DEF Entry
  <2> HIDE DEF x
  <2>5. EntryAgreed(old, x)
    BY <2>4 DEF EntryAgreed
  <2> QED BY <2>1, <2>3, <2>4, <2>5, OneEntryChanges DEF old
<1> QED BY <1>2, <1>3, <1>4, <1>5, <1>6, <1>7 DEF Wording!Next

\* AgreedByTwo: over any number of revisions, languages, terms and people, a translation is
\* approved by somebody who did not write it, every edit, copy and new meaning takes the
\* approval away, carrying over replaces no text, and what is approved fits the English
\* (translation_service, terminology_service, BR-018, FR-110, FR-166).
THEOREM WorkAgreedByTwo == Spec => AgreedByTwo
<1>1. Init => WordingInv /\ \A t \in Terms : Wording!Agreement(t)!Init
  BY WordingBegins DEF Init
<1>2. WordingInv /\ [Next]_vars => WordingInv' /\ EntriesAgreed
  <2> SUFFICES ASSUME WordingInv, [Next]_vars PROVE WordingInv' /\ EntriesAgreed
    OBVIOUS
  <2>1. Wording!Next \/ UNCHANGED terms
    BY DEF Next, Only, vars
  <2>2. ASSUME UNCHANGED terms PROVE WordingInv' /\ EntriesAgreed
    BY <2>2, EntriesStay DEF terms
  <2> QED BY <2>1, <2>2, WordingStep
<1>3. EntriesAgreed => \A t \in Terms : Wording!Agreement(t)!Step
  BY DEF EntriesAgreed, EntryAgreed, WordingPeople,
         Wording!Agreement!Step, Wording!Agreement!Next, Wording!Agreement!Write,
         Wording!Agreement!Approve, Wording!Agreement!Reopen, Wording!Agreement!twoVars
<1>4. WordingInv => Wording!ApprovalsFitTheEnglish
  BY DEF WordingInv
<1> QED BY <1>1, <1>2, <1>3, <1>4, TranslationsAgree, PTL
        DEF Spec, AgreedByTwo, Wording!AgreedByTwo

=============================================================================
