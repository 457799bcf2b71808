---------------------------- MODULE LibraryImport ----------------------------
(***************************************************************************)
(* The import of a legacy library from a CSV or XLSX file (FR-048a .. n).  *)
(*                                                                         *)
(* A file is a sequence of rows.  Its job works row by row, in the request *)
(* or in a worker thread: the row is evaluated against the catalogue and   *)
(* carried out in one transaction, and what is left to do for it (the link *)
(* to the job, the warnings) reads the new revision again in another one.  *)
(* People create, edit, submit, decide and withdraw codes meanwhile.       *)
(*                                                                         *)
(* A row and its code meet through the legacy number.  A text stands for   *)
(* the fields an import compares; the planned dates are kept apart because *)
(* they are written without being compared.  Group and subgroup agree.     *)
(***************************************************************************)
EXTENDS Naturals, Sequences, FiniteSets

CONSTANTS
  Ids,        \* bound: the codes that can ever exist
  Legacies,   \* legacy numbers of one Functional System Group
  NoLegacy,
  Texts,
  Plans,      \* planned dates
  Engineers,
  Administrators,
  Nobody,
  Files,      \* the files that are uploaded: sequences of rows
  Jobs,       \* bound: the import jobs
  ByHand      \* bound: the codes that are entered by hand

Users == Engineers \union Administrators

States == {"NONE", "WITHDRAWN", "DRAFT", "REVIEW", "DECIDED", "RETIRED"}

Row == [legacy: Legacies \union {NoLegacy}, text: Texts, plan: Plans]

\* What the constants are; assumed by the module that gives them values.
LibraryAssumption ==
  /\ NoLegacy \notin Legacies /\ Nobody \notin Users /\ "" \notin Texts
  /\ ByHand \subseteq Ids /\ "none" \notin Ids
  /\ \A f \in Files : f \in Seq(Row) /\ f # <<>>

VARIABLES
  codes,   \* the codes, each with its newest revision and who owns that
  job      \* import_job, and what its worker holds

vars == <<codes, job>>

NoCode == [state |-> "NONE", legacy |-> NoLegacy, issued |-> FALSE, owner |-> Nobody,
           text |-> "", plan |-> "", decided |-> ""]

\* `held` is the code whose revision the worker is about to read again, `done` the
\* codes it wrote; only the counts of an ended job reach the database.
Unused == [status |-> "NONE", alive |-> FALSE, user |-> Nobody, mode |-> "CREATE",
           rows |-> <<>>, seen |-> {}, held |-> "none", gone |-> FALSE,
           applied |-> 0, errors |-> 0, unchanged |-> 0, total |-> 0,
           createdCount |-> 0, errorCount |-> 0]

LibraryTypeOK ==
  /\ \A i \in Ids : /\ codes[i].state \in States
                    /\ codes[i].legacy \in Legacies \union {NoLegacy}
                    /\ codes[i].owner \in Users \union {Nobody}
  /\ \A j \in Jobs :
       /\ job[j].status \in {"NONE", "PENDING", "VALIDATING", "COMPLETE", "FAILED"}
       /\ job[j].seen \subseteq Legacies
       /\ job[j].rows \in Seq(Row)
       /\ job[j].applied + job[j].errors + job[j].unchanged + Len(job[j].rows)
            = job[j].total + (IF job[j].held = "none" THEN 0 ELSE 1)

-----------------------------------------------------------------------------
(* The evaluation of a row, which the dry run and the import share         *)

\* _find_existing
Holders(legacy) == {i \in Ids : codes[i].legacy = legacy /\ legacy # NoLegacy}

Holder(row) == CHOOSE i \in Holders(row.legacy) : TRUE

\* changed_fields: the planned dates are not among the compared fields.
Unchanged(i, row) == codes[i].state # "WITHDRAWN" /\ codes[i].text = row.text

\* A defect to test OneCodePerNumber with: a row meets only released codes.
EvaluateDefect(row, mode, seen) ==
  LET found == {i \in Holders(row.legacy) : codes[i].state = "DECIDED"} IN
  IF row.legacy \in seen THEN "error"
  ELSE IF mode = "UPDATE" /\ row.legacy = NoLegacy THEN "error"
  ELSE IF found = {} THEN "create" ELSE IF mode = "CREATE" THEN "error" ELSE "update"

\* A defect to test GovernanceIsKept with: a code in review takes a row as well.
EvaluateInReviewDefect(row, mode, seen) ==
  IF row.legacy \in seen \/ (mode = "CREATE" /\ Holders(row.legacy) # {}) THEN "error"
  ELSE IF Holders(row.legacy) = {} THEN "create"
  ELSE IF Unchanged(Holder(row), row) THEN "skip" ELSE "update"

\* What a row is to become.  The second row with a number is always an error.
Evaluate(row, mode, seen) ==
  LET found == Holders(row.legacy) IN
  IF Cardinality(found) > 1 \/ row.legacy \in seen THEN "error"
  ELSE IF found = {} THEN IF mode = "UPDATE" /\ row.legacy = NoLegacy THEN "error" ELSE "create"
  ELSE IF mode = "CREATE" THEN "error"
  ELSE IF Unchanged(Holder(row), row) THEN "skip"
  ELSE IF codes[Holder(row)].state \in {"DRAFT", "DECIDED"} THEN "update"
  ELSE "error"

-----------------------------------------------------------------------------
(* The job                                                                 *)

\* process_upload: the job is durable before its first row.
Upload(user, mode, file, j) ==
  /\ job[j].status = "NONE"
  /\ job' = [job EXCEPT ![j] =
       [Unused EXCEPT !.status = "PENDING", !.alive = TRUE, !.user = user, !.mode = mode,
                      !.rows = file, !.total = Len(file)]]
  /\ UNCHANGED codes

Begin(j) ==
  /\ job[j].status = "PENDING" /\ job[j].alive
  /\ job' = [job EXCEPT ![j].status = "VALIDATING"]
  /\ UNCHANGED codes

Works(j) == job[j].status = "VALIDATING" /\ job[j].alive

Ready(j) == Works(j) /\ job[j].held = "none" /\ job[j].rows # <<>>

Current(j) == Head(job[j].rows)

Verdict(j) == Evaluate(Current(j), job[j].mode, job[j].seen)

\* The worker turns to the next row.
Past(j) == [job[j] EXCEPT !.rows = Tail(@), !.held = "none",
                          !.seen = @ \union ({Current(j).legacy} \ {NoLegacy})]

\* A Draft is edited by its author or an Administrator; anybody revises the rest.
Accepts(j) ==
  LET c == codes[Holder(Current(j))] IN
  c.state = "DRAFT" => c.owner = job[j].user \/ job[j].user \in Administrators

Free == {i \in Ids \ ByHand : codes[i].state = "NONE"}

Fresh == CHOOSE i \in Free : TRUE

CreateRow(j) ==
  LET row == Current(j) IN
  /\ Ready(j) /\ Verdict(j) = "create"
  /\ Free # {}
  /\ codes' = [codes EXCEPT ![Fresh] =
       [NoCode EXCEPT !.state = "DRAFT", !.legacy = row.legacy, !.owner = job[j].user,
                      !.text = row.text, !.plan = row.plan]]
  /\ job' = [job EXCEPT ![j].held = Fresh, ![j].applied = @ + 1]

UpdateRow(j) ==
  LET row == Current(j)
      i == Holder(row)
      revised == [codes[i] EXCEPT !.state = "DRAFT", !.text = row.text, !.plan = row.plan]
  IN
  /\ Ready(j) /\ Verdict(j) = "update" /\ Accepts(j)
  /\ codes' = [codes EXCEPT ![i] =
       IF codes[i].state = "DRAFT" THEN revised
       ELSE [revised EXCEPT !.owner = job[j].user, !.decided = codes[i].text]]
  /\ job' = [job EXCEPT ![j].held = i, ![j].applied = @ + 1]

\* A defect to test JobsAreWorkedOff with: the row is not passed.
FinishRowDefect(j) ==
  /\ Works(j) /\ job[j].held # "none" /\ ~job[j].gone
  /\ job' = [job EXCEPT ![j].held = "none", ![j].applied = @ - 1]
  /\ UNCHANGED codes

\* The revision is still there: it is linked to the job, and its warnings are read.
FinishRow(j) ==
  /\ Works(j) /\ job[j].held # "none" /\ ~job[j].gone
  /\ job' = [job EXCEPT ![j] = Past(j)]
  /\ UNCHANGED codes

SkipRow(j) ==
  /\ Ready(j) /\ Verdict(j) = "skip"
  /\ job' = [job EXCEPT ![j] = [Past(j) EXCEPT !.unchanged = @ + 1]]
  /\ UNCHANGED codes

\* A defect to test LibraryTypeOK with: a refused row is an error and unchanged.
WithErrorDefect(j) == [Past(j) EXCEPT !.errors = @ + 1, !.unchanged = @ + 1]

WithError(j) == [Past(j) EXCEPT !.errors = @ + 1]

\* The evaluation found a problem, or the service refused.
RefuseRow(j) ==
  /\ Ready(j)
  /\ \/ Verdict(j) = "error"
     \/ Verdict(j) = "update" /\ ~Accepts(j)
  /\ job' = [job EXCEPT ![j] = WithError(j)]
  /\ UNCHANGED codes

\* The change request of the row was withdrawn behind the worker's back.  The row
\* is written in the counts of neither side.
Fail(j) ==
  /\ Works(j) /\ job[j].held # "none" /\ job[j].gone
  /\ job' = [job EXCEPT ![j].status = "FAILED", ![j].alive = FALSE,
                        ![j].createdCount = job[j].applied - 1,
                        ![j].errorCount = job[j].errors]
  /\ UNCHANGED codes

\* A defect to test CountsAreTrue with: what is no error counts as imported.
CompleteDefect(j) ==
  /\ Works(j) /\ job[j].held = "none" /\ job[j].rows = <<>>
  /\ job' = [job EXCEPT ![j].status = "COMPLETE", ![j].alive = FALSE,
                        ![j].createdCount = job[j].total - job[j].errors,
                        ![j].errorCount = job[j].errors]
  /\ UNCHANGED codes

Complete(j) ==
  /\ Works(j) /\ job[j].held = "none" /\ job[j].rows = <<>>
  /\ job' = [job EXCEPT ![j].status = "COMPLETE", ![j].alive = FALSE,
                        ![j].createdCount = job[j].applied, ![j].errorCount = job[j].errors]
  /\ UNCHANGED codes

Work(j) == \/ Begin(j) \/ CreateRow(j) \/ UpdateRow(j) \/ FinishRow(j) \/ SkipRow(j)
           \/ RefuseRow(j) \/ Fail(j) \/ Complete(j)

Restart ==
  /\ job' = [j \in Jobs |-> [job[j] EXCEPT !.alive = FALSE]]
  /\ UNCHANGED codes

-----------------------------------------------------------------------------
(* What people do meanwhile                                                *)

Becoming(i, c) == codes' = [codes EXCEPT ![i] = c]

\* The form takes any legacy number.
CreateByHand(user, i, legacy, text) ==
  /\ i \in ByHand /\ codes[i].state = "NONE"
  /\ Becoming(i, [NoCode EXCEPT !.state = "DRAFT", !.legacy = legacy, !.owner = user,
                                !.text = text, !.plan = CHOOSE plan \in Plans : TRUE])
  /\ UNCHANGED job

EditDraft(i, text, plan) ==
  /\ codes[i].state = "DRAFT"
  /\ Becoming(i, [codes[i] EXCEPT !.text = text, !.plan = plan])
  /\ UNCHANGED job

Submit(i) ==
  /\ codes[i].state = "DRAFT"
  /\ Becoming(i, [codes[i] EXCEPT !.state = "REVIEW", !.issued = TRUE])
  /\ UNCHANGED job

\* Sent back, released, or retired later on.
Decide(i, state) ==
  /\ \/ codes[i].state = "REVIEW" /\ state \in {"DRAFT", "DECIDED"}
     \/ codes[i].state = "DECIDED" /\ state = "RETIRED"
  /\ Becoming(i, [codes[i] EXCEPT !.state = state])
  /\ UNCHANGED job

\* A code that never got its number gives its legacy number back as well.
Withdraw(i) ==
  /\ codes[i].state \in {"DRAFT", "REVIEW"}
  /\ Becoming(i, IF codes[i].decided # ""
                 THEN [codes[i] EXCEPT !.state = "DECIDED", !.text = codes[i].decided,
                                       !.decided = ""]
                 ELSE IF codes[i].issued
                      THEN [codes[i] EXCEPT !.state = "WITHDRAWN", !.text = "", !.plan = ""]
                      ELSE NoCode)
  /\ job' = [j \in Jobs |-> IF job[j].held = i /\ Works(j)
                            THEN [job[j] EXCEPT !.gone = TRUE] ELSE job[j]]

DeleteShell(i) ==
  /\ codes[i].state = "WITHDRAWN"
  /\ Becoming(i, NoCode)
  /\ UNCHANGED job

-----------------------------------------------------------------------------

Init ==
  /\ codes = [i \in Ids |-> NoCode]
  /\ job = [j \in Jobs |-> Unused]

People ==
  \/ \E user \in Users, mode \in {"CREATE", "UPDATE"}, file \in Files, j \in Jobs :
       Upload(user, mode, file, j)
  \/ \E i \in Ids :
       \/ \E user \in Users, legacy \in Legacies, text \in Texts : CreateByHand(user, i, legacy, text)
       \/ \E text \in Texts, plan \in Plans : EditDraft(i, text, plan)
       \/ Submit(i) \/ Withdraw(i) \/ DeleteShell(i)
       \/ \E state \in {"DRAFT", "DECIDED", "RETIRED"} : Decide(i, state)

Next == People \/ (\E j \in Jobs : Work(j)) \/ Restart

\* The worker is a thread of the server: while it lives it is scheduled.
Fairness == \A j \in Jobs : WF_vars(Work(j))

Spec == Init /\ [][Next]_vars /\ Fairness

-----------------------------------------------------------------------------

Ended(j) == job[j].status \in {"COMPLETE", "FAILED"}

\* A job that is owed an end, and one that is owed nothing (more).
Begun(j) == job[j].status = "PENDING" /\ job[j].alive

Over(j) == Ended(j) \/ ~job[j].alive

\* FR-048k: within a group at most one code carries a legacy number.
OneCodePerNumber ==
  \A i, k \in Ids : codes[i].legacy = codes[k].legacy /\ codes[i].legacy # NoLegacy => i = k

\* FR-048c: whatever happened since the file was uploaded, a worker writes Drafts
\* and nothing else, and never to a code that is in review or retired.
GovernanceIsKept ==
  [][\A j \in Jobs : Work(j) =>
       \A i \in Ids : codes'[i] # codes[i] =>
         codes'[i].state = "DRAFT" /\ codes[i].state \in {"NONE", "DRAFT", "DECIDED"}]_vars

\* FR-048n: every row of a completed job is imported, unchanged or an error, and the
\* counts of a failed job leave out only the row that made it fail.
CountsAreTrue ==
  \A j \in Jobs :
    /\ job[j].status = "COMPLETE" =>
         /\ job[j].createdCount + job[j].unchanged + job[j].errorCount = job[j].total
         /\ job[j].errorCount = job[j].errors
    /\ job[j].status = "FAILED" =>
         job[j].createdCount + job[j].unchanged + job[j].errorCount + Len(job[j].rows)
           = job[j].total

\* FR-048n: an accepted job ends, as long as its process lives.
JobsAreWorkedOff == \A j \in Jobs : Begun(j) ~> Over(j)

\* FR-048j: a dry run finds every problem: a row it has no objection to is not
\* refused by an import at the same moment.
DryRunFindsAll ==
  [][\A j \in Jobs : RefuseRow(j) => Verdict(j) = "error"]_vars

\* FR-048k: a row that is not refused leaves its code saying what the row says.
RowsAreCarriedOver ==
  [][\A j \in Jobs : CreateRow(j) \/ UpdateRow(j) \/ SkipRow(j) =>
       \E i \in Ids : codes'[i].text = Current(j).text /\ codes'[i].plan = Current(j).plan]_vars

\* FR-048k: a code that has another owner is an error of its row.
OwnersAreRespected ==
  [][\A j \in Jobs : UpdateRow(j) =>
       \/ job[j].user \in Administrators
       \/ codes[Holder(Current(j))].owner = job[j].user]_vars
=============================================================================
