--------------------------- MODULE ChangeRequests ---------------------------
(***************************************************************************)
(* The lifecycle of a status code: drafts and their change requests, the   *)
(* three decision points, withdrawal, deprecation, archiving, and the      *)
(* erasure of withdrawn and of sandbox codes.                              *)
(*                                                                         *)
(* Comments, checklist confirmations, audit entries and notifications are  *)
(* written by the same transactions and decide nothing; they are left out. *)
(* A rejection carries its comment and a decision its step-up password.    *)
(* Texts and parameters of a revision are abstracted to whether it names   *)
(* any turbine platform.                                                   *)
(***************************************************************************)
EXTENDS Catalogue

Authors == {"ADMINISTRATOR", "ENGINEER"}

Decisions == {"APPROVE", "REJECT"}

\* A defect to test TypeOK with: the type of the request taken for its state.
NewDraftDefect(actor, platforms, deprecation, cr) ==
  [NoRevision EXCEPT !.status = "NEW", !.current = TRUE, !.cr = cr,
                     !.deprecation = deprecation, !.platforms = platforms,
                     !.author = actor]

NewDraft(actor, platforms, deprecation, cr) ==
  [NoRevision EXCEPT !.status = "DRAFT", !.current = TRUE, !.cr = cr,
                     !.deprecation = deprecation, !.platforms = platforms,
                     !.author = actor]

\* The new revision becomes the current one; the one that was gives way.
Open(c, n, r) ==
  rev' = [rev EXCEPT ![c] =
            [m \in RevNo |-> IF m = n THEN r ELSE [rev[c][m] EXCEPT !.current = FALSE]]]

Change(c, n, r) == rev' = [rev EXCEPT ![c][n] = r]

\* A change request that `c`, `n` identifies.
IsRequest(c, n) == Exists(c, n) /\ rev[c][n].cr

\* A defect to test SignoffsOfThisCycle with: the Administrator's is kept.
WithoutSignoffsDefect(r) == [r EXCEPT !.reviewer = Nobody]

\* clear_review_signoffs
WithoutSignoffs(r) == [r EXCEPT !.reviewer = Nobody, !.admin = Nobody]

-----------------------------------------------------------------------------
(* Drafts                                                                  *)

\* A new code.  An import reserves the number its program carries.
CreateDraft(actor, c, b, reserved, platforms) ==
  /\ HasRole(actor, Authors)
  /\ code[c].kind = "NONE"
  /\ reserved # NoNumber =>
       /\ reserved \in NumbersOf(b)
       /\ ~Issued(reserved)
       /\ \A d \in Codes : ~ReservedBy(d, reserved)
  /\ code' = [code EXCEPT ![c] = [kind |-> "REAL", band |-> b, number |-> NoNumber,
                                  reserved |-> reserved, withdrawn |-> FALSE,
                                  deleted |-> FALSE]]
  /\ Open(c, 1, NewDraft(actor, platforms, FALSE, TRUE))

\* A copy of the source's latest decided revision as a new code of its band.
CreatePlatformVariant(actor, source, c) ==
  /\ code[source].kind = "REAL"
  /\ \E n \in RevNo : rev[source][n].status \in {"RELEASED", "APPROVED", "DEPRECATED"}
  /\ CreateDraft(actor, c, code[source].band, NoNumber, TRUE)

\* A defect to test ShellsAreMarked with: the shell mark stays.
CreateRevisionDefect(actor, c, n, platforms) ==
  /\ HasRole(actor, IF code[c].kind = "SANDBOX" THEN {"ADMINISTRATOR"} ELSE Authors)
  /\ code[c].kind # "NONE"
  /\ ~HasOpenRevision(c)
  /\ IsNextRevision(c, n)
  /\ Open(c, n, NewDraft(actor, platforms, FALSE, TRUE))
  /\ UNCHANGED code

\* A new revision of a code in whatever state, erased ones included, as long as
\* none is open.  Restoring a withdrawn code takes the shell mark off it.
CreateRevision(actor, c, n, platforms) ==
  /\ HasRole(actor, IF code[c].kind = "SANDBOX" THEN {"ADMINISTRATOR"} ELSE Authors)
  /\ code[c].kind # "NONE"
  /\ ~HasOpenRevision(c)
  /\ IsNextRevision(c, n)
  /\ Open(c, n, NewDraft(actor, platforms, FALSE, TRUE))
  /\ code' = [code EXCEPT ![c].withdrawn = FALSE]

\* The current revision is copied into a request to deprecate it.
CreateDeprecationRequest(actor, c, n) ==
  /\ HasRole(actor, Authors)
  /\ ~HasOpenRevision(c)
  /\ IsNextRevision(c, n)
  /\ \E m \in RevNo :
       /\ IsCurrent(c, m) /\ rev[c][m].status = "RELEASED"
       /\ Open(c, n, NewDraft(actor, rev[c][m].platforms, TRUE, TRUE))
  /\ UNCHANGED code

\* A sandbox code gets its number at once and never a change request.
CreateSandbox(actor, c, k, platforms) ==
  /\ HasRole(actor, {"ADMINISTRATOR"})
  /\ code[c].kind = "NONE"
  /\ IsNextSandboxNumber(k)
  /\ code' = [code EXCEPT ![c] = [NoCode EXCEPT !.kind = "SANDBOX", !.number = k]]
  /\ Open(c, 1, NewDraft(actor, platforms, FALSE, FALSE))

\* What an edit changes that a decision depends on.
UpdateDraft(actor, c, n, platforms) ==
  /\ HasRole(actor, Authors)
  /\ rev[c][n].status = "DRAFT"
  /\ rev[c][n].author = actor \/ account[actor].role = "ADMINISTRATOR"
  /\ Change(c, n, [rev[c][n] EXCEPT !.platforms = platforms])
  /\ UNCHANGED code

\* Any Engineer of the domain, in any state of the request; a recorded sign-off
\* stays.
SignDomain(actor, c, n) ==
  /\ HasRole(actor, {"ENGINEER"})
  /\ account[actor].controls
  /\ IsRequest(c, n)
  /\ rev[c][n].controls = Nobody
  /\ Change(c, n, [rev[c][n] EXCEPT !.controls = actor])
  /\ UNCHANGED code

-----------------------------------------------------------------------------
(* Reviewers and their load                                                *)

OutOfOffice(u) == \E d \in delegations : d.begun /\ d.delegator = u

Workload(u) ==
  Cardinality({p \in Codes \X RevNo :
                 LET r == rev[p[1]][p[2]]
                 IN  r.assigned = u /\ r.status = "REVIEW" /\ r.reviewer = Nobody})

\* The reviewers an automatic assignment may choose, ties included.
LeastLoaded(author) ==
  LET available == {u \in Users \ {author} : HasRole(u, {"REVIEWER"}) /\ ~OutOfOffice(u)}
  IN  {u \in available : \A v \in available : Workload(u) <= Workload(v)}

AssignReviewer(actor, c, n, reviewer) ==
  LET r == rev[c][n] IN
  /\ HasRole(actor, {"ADMINISTRATOR"})
  /\ IsRequest(c, n)
  /\ r.status \in {"DRAFT", "REVIEW"}
  /\ r.reviewer = Nobody
  /\ reviewer # Nobody => HasRole(reviewer, {"REVIEWER"}) /\ reviewer # r.author
  /\ Change(c, n, [r EXCEPT !.assigned = reviewer])
  /\ UNCHANGED code

AutoAssignReviewer(actor, c, n) ==
  \E reviewer \in LeastLoaded(rev[c][n].author) : AssignReviewer(actor, c, n, reviewer)

-----------------------------------------------------------------------------
(* Submission and the three decision points                                *)

\* A defect to test IdentityIsFixed with: a resubmission allocates again.
IssuedOnSubmitDefect(actor, c, k) == IsNextNumber(code[c].band, k)

\* The number a submission issues: the one the code has, the one reserved for
\* it, one an Administrator chose, or the next of its band.
IssuedOnSubmit(actor, c, k) ==
  IF code[c].number # NoNumber THEN k = code[c].number
  ELSE IF code[c].reserved # NoNumber
       THEN k = code[c].reserved /\ MayTakeNumber(c, k)
       ELSE \/ account[actor].role = "ADMINISTRATOR" /\ MayTakeNumber(c, k)
            \/ IsNextNumber(code[c].band, k)

\* `auto` is the setting reviewer.auto_assign.
Submit(actor, c, n, k, auto) ==
  LET r == rev[c][n] IN
  /\ HasRole(actor, Authors)
  /\ IsRequest(c, n)
  /\ actor = r.author
  /\ r.status = "DRAFT"
  /\ r.platforms
  /\ account[actor].controls \/ r.controls # Nobody
  /\ IssuedOnSubmit(actor, c, k)
  /\ code' = [code EXCEPT ![c].number = k]
  /\ \E assigned \in
          IF r.assigned = Nobody /\ auto /\ LeastLoaded(actor) # {}
          THEN LeastLoaded(actor) ELSE {r.assigned} :
       Change(c, n, [r EXCEPT !.status = "REVIEW", !.assigned = assigned])

\* An assigned request is for that Reviewer, or for somebody of another role who
\* covers for that Reviewer.
MayReviewAssigned(actor, assigned) ==
  \/ assigned \in {Nobody, actor}
  \/ account[actor].role # "REVIEWER" /\ assigned \in DelegatorsFor(actor, "REVIEWER")

ReviewerMayDecide(actor, c, n) ==
  LET r == rev[c][n] IN
  /\ MayDecideAs(actor, "REVIEWER")
  /\ IsRequest(c, n)
  /\ actor # r.author
  /\ r.status = "REVIEW"
  /\ MayReviewAssigned(actor, r.assigned)
  /\ actor # r.admin

ReviewerSignoff(actor, c, n, decision) ==
  LET r == rev[c][n] IN
  /\ ReviewerMayDecide(actor, c, n)
  /\ Change(c, n,
       IF decision = "REJECT" THEN [WithoutSignoffs(r) EXCEPT !.status = "DRAFT"]
       ELSE [r EXCEPT !.reviewer = actor,
                      !.status = IF r.admin = Nobody THEN "REVIEW" ELSE "PENDING_APPROVAL"])
  /\ UNCHANGED code

\* A defect to test ImplementsLifecycle with: authors are not excluded.
AdminMayDecideDefect(actor, c, n) ==
  /\ MayDecideAs(actor, "ADMINISTRATOR")
  /\ IsRequest(c, n)
  /\ rev[c][n].status = "REVIEW"
  /\ actor # rev[c][n].reviewer

AdminMayDecide(actor, c, n) ==
  LET r == rev[c][n] IN
  /\ MayDecideAs(actor, "ADMINISTRATOR")
  /\ IsRequest(c, n)
  /\ actor # r.author
  /\ r.status = "REVIEW"
  /\ actor # r.reviewer

AdminSignoff(actor, c, n, decision) ==
  LET r == rev[c][n] IN
  /\ AdminMayDecide(actor, c, n)
  /\ Change(c, n,
       IF decision = "REJECT" THEN [WithoutSignoffs(r) EXCEPT !.status = "DRAFT"]
       ELSE [r EXCEPT !.admin = actor,
                      !.status = IF r.reviewer = Nobody THEN "REVIEW" ELSE "PENDING_APPROVAL"])
  /\ UNCHANGED code

\* A defect to test SegregationOfDuties with: only authors are excluded.
ChiefMayDecideDefect(actor, c, n) ==
  /\ MayDecideAs(actor, "CHIEF_ENGINEER")
  /\ IsRequest(c, n)
  /\ actor # rev[c][n].author
  /\ rev[c][n].status = "PENDING_APPROVAL"

ChiefMayDecide(actor, c, n) ==
  LET r == rev[c][n] IN
  /\ MayDecideAs(actor, "CHIEF_ENGINEER")
  /\ IsRequest(c, n)
  /\ actor \notin {r.author, r.reviewer, r.admin}
  /\ r.status = "PENDING_APPROVAL"

ChiefEngineerDecide(actor, c, n, decision) ==
  LET r == rev[c][n] IN
  /\ ChiefMayDecide(actor, c, n)
  /\ Change(c, n,
       IF decision = "REJECT" THEN [WithoutSignoffs(r) EXCEPT !.status = "DRAFT"]
       ELSE [r EXCEPT !.chief = actor,
                      !.status = IF r.deprecation THEN "DEPRECATED" ELSE "APPROVED"])
  /\ UNCHANGED code

-----------------------------------------------------------------------------
(* Withdrawal, retirement and erasure                                      *)

\* The request and its revision go; the revision before becomes current again.
\* A code left without any becomes a shell, and gives its reservation back if
\* it was never issued a number.
Withdraw(actor, c, n) ==
  LET hasPrior == n > 1 /\ Exists(c, n - 1) IN
  /\ HasRole(actor, Authors)
  /\ IsRequest(c, n)
  /\ actor = rev[c][n].author
  /\ rev[c][n].status \in OpenStates
  /\ rev' = [rev EXCEPT ![c] =
               [m \in RevNo |-> IF m = n THEN NoRevision
                                ELSE IF m = n - 1 /\ hasPrior
                                     THEN [rev[c][m] EXCEPT !.current = TRUE]
                                     ELSE rev[c][m]]]
  /\ code' = IF hasPrior THEN code
             ELSE [code EXCEPT ![c].withdrawn = TRUE,
                               ![c].reserved = IF code[c].number = NoNumber
                                               THEN NoNumber ELSE @]

\* The retention period since the deprecation may have passed at any moment.
Archive(actor, c, n) ==
  /\ HasRole(actor, {"ADMINISTRATOR"})
  /\ IsCurrent(c, n)
  /\ rev[c][n].status = "DEPRECATED"
  /\ Change(c, n, [rev[c][n] EXCEPT !.status = "ARCHIVED"])
  /\ UNCHANGED code

Reinstate(actor, c, n) ==
  /\ HasRole(actor, {"ADMINISTRATOR"})
  /\ IsCurrent(c, n)
  /\ rev[c][n].status = "DEPRECATED"
  /\ Change(c, n, [rev[c][n] EXCEPT !.status = "RELEASED"])
  /\ UNCHANGED code

\* The row and its revisions are removed.  A revision that a change request
\* refers to would make the database refuse (foreign key).
DeleteSandbox(actor, c) ==
  /\ HasRole(actor, {"ADMINISTRATOR"})
  /\ code[c].kind = "SANDBOX"
  /\ \A n \in RevNo : ~IsRequest(c, n)
  /\ code' = [code EXCEPT ![c] = NoCode]
  /\ rev' = [rev EXCEPT ![c] = [n \in RevNo |-> NoRevision]]

MayErase(c) ==
  /\ code[c].kind = "REAL"
  /\ code[c].withdrawn
  /\ ~code[c].deleted
  /\ ~HasRevision(c)

\* The selected shells keep their rows and give up everything they held; a code
\* that is no shell is skipped.
DeleteWithdrawn(actor, selected) ==
  /\ HasRole(actor, {"ADMINISTRATOR"})
  /\ code' = [c \in Codes |->
               IF c \in selected /\ MayErase(c)
               THEN [code[c] EXCEPT !.number = NoNumber, !.reserved = NoNumber,
                                    !.deleted = TRUE]
               ELSE code[c]]
  /\ UNCHANGED rev

-----------------------------------------------------------------------------

Drafting(actor, c) ==
  \/ \E b \in Bands, platforms \in BOOLEAN :
       \E reserved \in NumbersOf(b) \union {NoNumber} :
         CreateDraft(actor, c, b, reserved, platforms)
  \/ \E source \in Codes : CreatePlatformVariant(actor, source, c)
  \/ \E n \in RevNo, platforms \in BOOLEAN : CreateRevision(actor, c, n, platforms)
  \/ \E n \in RevNo : CreateDeprecationRequest(actor, c, n)
  \/ \E k \in 0 .. SandboxLast, platforms \in BOOLEAN : CreateSandbox(actor, c, k, platforms)
  \/ \E n \in RevNo, platforms \in BOOLEAN : UpdateDraft(actor, c, n, platforms)
  \/ \E n \in RevNo : SignDomain(actor, c, n)

Reviewing(actor, c, n) ==
  \/ \E k \in AllNumbers \union 0 .. SandboxLast, auto \in BOOLEAN :
       Submit(actor, c, n, k, auto)
  \/ \E reviewer \in Users \union {Nobody} : AssignReviewer(actor, c, n, reviewer)
  \/ AutoAssignReviewer(actor, c, n)
  \/ \E decision \in Decisions :
       \/ ReviewerSignoff(actor, c, n, decision)
       \/ AdminSignoff(actor, c, n, decision)
       \/ ChiefEngineerDecide(actor, c, n, decision)

Retiring(actor, c) ==
  \/ \E n \in RevNo : \/ Withdraw(actor, c, n)
                      \/ Archive(actor, c, n)
                      \/ Reinstate(actor, c, n)
  \/ DeleteSandbox(actor, c)

RequestsNext ==
  \E actor \in Users :
    \/ \E c \in Codes :
         \/ Drafting(actor, c)
         \/ \E n \in RevNo : Reviewing(actor, c, n)
         \/ Retiring(actor, c)
    \/ \E selected \in SUBSET Codes : DeleteWithdrawn(actor, selected)
=============================================================================
