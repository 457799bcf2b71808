---------------------------- MODULE ProgramImport ----------------------------
(***************************************************************************)
(* The import of generated programs (.st files; FR-048o .. FR-048x).       *)
(*                                                                         *)
(* A preview stages the files; the confirmation checks the chosen programs *)
(* again and leaves a job with what each of them is to become; the job     *)
(* works program by program, in the request or in a worker thread, with    *)
(* three transactions for each: the Draft, its place in the change set,    *)
(* its provenance.  The catalogue and the mapping move on meanwhile, and   *)
(* the process may be restarted.                                           *)
(*                                                                         *)
(* A code is known by the number its program carries.  A text stands for   *)
(* everything a program and its mapping row say.                           *)
(***************************************************************************)
EXTENDS Naturals, Sequences, FiniteSets, SequencesExt

CONSTANTS
  Numbers,    \* the numbers of the programs
  Texts,      \* what a program, or a Draft, may say
  Rows0,      \* the mapping rows at the start
  Importers,  \* the people who import
  Nobody,
  Previews,   \* bound: the staging tokens that can ever be used
  Jobs,       \* bound: the import jobs that can ever be created
  NoJob,
  ByHand,     \* bound: numbers that other codes may come to hold
  MayRestart  \* bound: whether the process is ever restarted

States == {"NONE", "WITHDRAWN", "DRAFT", "REVIEW", "DECIDED"}

Actions == {"create", "restore", "update", "revise"}

\* `reserved` is the job that brought the code in; `decided` is the text of
\* the revision before the open one.
Code == [state: States, issued: BOOLEAN, reserved: Jobs \union {NoJob}, text: Texts \union {""},
         decided: Texts \union {""}, inSet: Jobs \union {NoJob}]

Item == [number: Numbers, action: Actions, text: Texts]

Stages == {"NAME", "APPLY", "JOIN", "RECORD"}

\* What the constants are; assumed by the module that gives them values.
ImportAssumption ==
  /\ NoJob \notin Jobs /\ Nobody \notin Importers /\ "" \notin Texts
  /\ Rows0 \in [Numbers -> {"NONE", "PROPOSED", "APPROVED"}]
  /\ ByHand \subseteq Numbers /\ MayRestart \in BOOLEAN /\ IsFiniteSet(Numbers)

VARIABLES
  code,     \* the code that holds each number, with its newest revision
  row,      \* status_code_mapping: the status of the row of each number
  staged,   \* the staged uploads
  job,      \* import_job, and how far its worker has come
  isOpen,   \* whether the change set of a job is open
  taken,    \* the one name users give a change set is taken
  sources,  \* import_source_item
  applied,  \* the programs of a job whose Draft was committed
  refused   \* the programs a job reports as failed

vars == <<code, row, staged, job, isOpen, taken, sources, applied, refused>>

NoCode == [state |-> "NONE", issued |-> FALSE, reserved |-> NoJob, text |-> "",
           decided |-> "", inSet |-> NoJob]

NoUpload == [user |-> Nobody, program |-> <<>>, old |-> FALSE]

\* `gone` says that the revision the worker holds was withdrawn.
Unused == [status |-> "NONE", alive |-> FALSE, preview |-> NoJob, named |-> FALSE,
           work |-> <<>>, stage |-> "NAME", gone |-> FALSE, count |-> 0, created |-> 0]

ImportTypeOK ==
  /\ code \in [Numbers -> Code]
  /\ row \in [Numbers -> {"NONE", "PROPOSED", "APPROVED", "ISSUED", "REJECTED"}]
  /\ \A p \in Previews : /\ staged[p].user \in Importers \union {Nobody}
                         /\ DOMAIN staged[p].program \subseteq Numbers
  /\ \A j \in Jobs :
       /\ job[j].status \in {"NONE", "PENDING", "VALIDATING", "COMPLETE", "FAILED"}
       /\ \A i \in DOMAIN job[j].work : job[j].work[i] \in Item
       /\ job[j].stage \in Stages
       /\ job[j].created + Len(job[j].work) <= job[j].count
  /\ sources \subseteq Jobs \X Numbers
  /\ applied \subseteq Jobs \X Numbers
  /\ refused \subseteq Jobs \X Numbers

-----------------------------------------------------------------------------
(* The preview                                                             *)

Staged(p) == staged[p].user # Nobody

Mapped(k) == row[k] \notin {"NONE", "REJECTED"}

\* A new program is ready; its band, legacy number and fields are not in doubt here.
Ready(k) == code[k].state = "NONE" /\ Mapped(k)

\* What a program could become now; none if it is unchanged or blocked.
Becomes(k, text) ==
  CASE Ready(k) -> {"create"}
    [] code[k].state = "WITHDRAWN" /\ Mapped(k) -> {"restore"}
    [] code[k].state = "DRAFT" /\ code[k].text # text -> {"update"}
    [] code[k].state = "DECIDED" /\ code[k].text # text -> {"revise"}
    [] OTHER -> {}

\* The fields of the Draft, from the program and its mapping row.
DataOf(p, k) == staged[p].program[k]

\* Uploads older than 24 hours are purged on the way.
Preview(user, p, program) ==
  /\ staged[p] = NoUpload
  /\ staged' = [q \in Previews |->
       IF q = p THEN [user |-> user, program |-> program, old |-> FALSE]
       ELSE IF staged[q].old THEN NoUpload ELSE staged[q]]
  /\ UNCHANGED <<code, row, job, isOpen, taken, sources, applied, refused>>

UploadAges(p) ==
  /\ Staged(p)
  /\ staged' = [staged EXCEPT ![p].old = TRUE]
  /\ UNCHANGED <<code, row, job, isOpen, taken, sources, applied, refused>>

\* The user leaves the preview.
Discard(p) ==
  /\ Staged(p)
  /\ staged' = [staged EXCEPT ![p] = NoUpload]
  /\ UNCHANGED <<code, row, job, isOpen, taken, sources, applied, refused>>

-----------------------------------------------------------------------------
(* The confirmation                                                        *)

\* All of the chosen programs are still possible; the job row is committed.
Confirm(user, p, chosen, named, j) ==
  LET action(k) == CHOOSE a \in Becomes(k, DataOf(p, k)) : TRUE
      work == {[number |-> k, action |-> action(k), text |-> DataOf(p, k)] : k \in chosen}
  IN
  /\ job[j].status = "NONE"
  /\ staged[p].user = user /\ ~staged[p].old
  /\ chosen # {} /\ chosen \subseteq DOMAIN staged[p].program
  /\ \A k \in chosen : Becomes(k, DataOf(p, k)) # {}
  /\ job' = [job EXCEPT ![j] =
       [Unused EXCEPT !.status = "PENDING", !.alive = TRUE, !.preview = p, !.named = named,
                      !.work = SetToSeq(work),
                      !.count = Cardinality(chosen)]]
  /\ UNCHANGED <<code, row, staged, isOpen, taken, sources, applied, refused>>

\* The change set of the batch is created, unless its name is taken already: then
\* the request ends with an error.
OpenChangeSet(j) ==
  /\ job[j].status = "PENDING" /\ job[j].alive /\ job[j].stage = "NAME"
  /\ IF job[j].named /\ taken
     THEN /\ job' = [job EXCEPT ![j].alive = FALSE]
          /\ UNCHANGED <<staged, isOpen, taken>>
     ELSE /\ job' = [job EXCEPT ![j].stage = "APPLY"]
          /\ staged' = [staged EXCEPT ![job[j].preview] = NoUpload]
          /\ isOpen' = [isOpen EXCEPT ![j] = TRUE]
          /\ taken' = (taken \/ job[j].named)
  /\ UNCHANGED <<code, row, sources, applied, refused>>

Begin(j) ==
  /\ job[j].status = "PENDING" /\ job[j].alive /\ job[j].stage = "APPLY"
  /\ job' = [job EXCEPT ![j].status = "VALIDATING"]
  /\ UNCHANGED <<code, row, staged, isOpen, taken, sources, applied, refused>>

-----------------------------------------------------------------------------
(* The worker                                                              *)

Works(j, stage) ==
  /\ job[j].status = "VALIDATING" /\ job[j].alive
  /\ job[j].stage = stage
  /\ job[j].work # <<>>

Current(j) == Head(job[j].work)

Done(j) == [job[j] EXCEPT !.work = Tail(@), !.stage = "APPLY", !.gone = FALSE]

\* A defect to test GovernanceIsKept with: an update trusts the confirmation.
MayApplyDefect(i) ==
  CASE i.action = "create" -> code[i.number].state = "NONE"
    [] i.action = "update" -> code[i.number].state # "NONE"
    [] OTHER -> code[i.number].state \in {"WITHDRAWN", "DECIDED"}

\* The services and the database still accept it.
MayApply(i) ==
  CASE i.action = "create" -> code[i.number].state = "NONE"
    [] i.action = "update" -> code[i.number].state = "DRAFT"
    [] OTHER -> code[i.number].state \in {"WITHDRAWN", "DECIDED"}

AsDraft(j, i) ==
  LET c == code[i.number] IN
  CASE i.action = "create" -> [NoCode EXCEPT !.state = "DRAFT", !.reserved = j,
                                                 !.text = i.text]
    [] i.action = "update" -> [c EXCEPT !.state = "DRAFT", !.text = i.text]
    [] OTHER -> [c EXCEPT !.state = "DRAFT", !.text = i.text, !.inSet = NoJob,
                          !.decided = IF c.state = "DECIDED" THEN c.text ELSE ""]

ApplyItem(j) ==
  LET i == Current(j) IN
  /\ Works(j, "APPLY")
  /\ MayApply(i)
  /\ code' = [code EXCEPT ![i.number] = AsDraft(j, i)]
  /\ job' = [job EXCEPT ![j].stage = "JOIN"]
  /\ applied' = applied \union {<<j, i.number>>}
  /\ UNCHANGED <<row, staged, isOpen, taken, sources, refused>>

\* A defect to test JobsAreWorkedOff with: a refused program stays in the work.
RefusedDefect(j) == [job[j] EXCEPT !.stage = "APPLY", !.gone = FALSE]

\* A defect to test CountsAreTrue with: a refused program is counted.
CountsRefusedDefect(j) == [Done(j) EXCEPT !.created = @ + 1]

Refused(j) == Done(j)

\* An error the loop expects: rolled back, reported, and on to the next.
RefuseItem(j) ==
  LET i == Current(j) IN
  /\ \/ Works(j, "APPLY") /\ ~MayApply(i)
     \/ Works(j, "JOIN") /\ ~job[j].gone /\ code[i.number].inSet = NoJob
        /\ (~isOpen[j] \/ code[i.number].state = "DECIDED")
  /\ job' = [job EXCEPT ![j] = Refused(j)]
  /\ refused' = refused \union {<<j, i.number>>}
  /\ UNCHANGED <<code, row, staged, isOpen, taken, sources, applied>>

\* An error it does not expect: the request of the Draft is not there any more.
Fail(j) ==
  /\ Works(j, "JOIN") \/ Works(j, "RECORD")
  /\ job[j].gone
  /\ job' = [job EXCEPT ![j].status = "FAILED", ![j].alive = FALSE]
  /\ UNCHANGED <<code, row, staged, isOpen, taken, sources, applied, refused>>

\* A defect to test ImportedRowsAreFrozen with: only what is restored is marked.
MarkedDefect(i) ==
  IF i.action = "restore" /\ row[i.number] = "APPROVED"
  THEN [row EXCEPT ![i.number] = "ISSUED"] ELSE row

\* mark_issued
Marked(i) ==
  IF i.action \in {"create", "restore"} /\ row[i.number] = "APPROVED"
  THEN [row EXCEPT ![i.number] = "ISSUED"] ELSE row

JoinChangeSet(j) ==
  LET i == Current(j) IN
  /\ Works(j, "JOIN") /\ ~job[j].gone
  /\ code[i.number].inSet = NoJob
  /\ isOpen[j] /\ code[i.number].state # "DECIDED"
  /\ row' = Marked(i)
  /\ code' = [code EXCEPT ![i.number].inSet = j]
  /\ job' = [job EXCEPT ![j].stage = "RECORD"]
  /\ UNCHANGED <<staged, isOpen, taken, sources, applied, refused>>

\* A defect to test ImportTypeOK with: a program that joined the set is counted twice.
CountedDefect(j) == job[j].created + (IF job[j].stage = "RECORD" THEN 2 ELSE 1)

Counted(j) == job[j].created + 1

\* A Draft that sits in a set already is recorded at once.
RecordSource(j) ==
  LET i == Current(j) IN
  /\ ~job[j].gone
  /\ \/ Works(j, "JOIN") /\ code[i.number].inSet # NoJob /\ row' = Marked(i)
     \/ Works(j, "RECORD") /\ row' = row
  /\ sources' = sources \union {<<j, i.number>>}
  /\ job' = [job EXCEPT ![j] = [Done(j) EXCEPT !.created = Counted(j)]]
  /\ UNCHANGED <<code, staged, isOpen, taken, applied, refused>>

Complete(j) ==
  /\ job[j].status = "VALIDATING" /\ job[j].alive /\ job[j].work = <<>>
  /\ job' = [job EXCEPT ![j].status = "COMPLETE", ![j].alive = FALSE]
  /\ UNCHANGED <<code, row, staged, isOpen, taken, sources, applied, refused>>

Work(j) ==
  \/ OpenChangeSet(j) \/ Begin(j)
  \/ ApplyItem(j) \/ RefuseItem(j) \/ Fail(j) \/ JoinChangeSet(j) \/ RecordSource(j)
  \/ Complete(j)

\* Requests and worker threads die with the process; nothing looks after their
\* jobs when it starts again.
Restart ==
  /\ MayRestart
  /\ job' = [j \in Jobs |-> [job[j] EXCEPT !.alive = FALSE]]
  /\ UNCHANGED <<code, row, staged, isOpen, taken, sources, applied, refused>>

-----------------------------------------------------------------------------
(* What others do meanwhile                                                *)

Becoming(k, c) == code' = [code EXCEPT ![k] = c]

EditDraft(k, text) ==
  /\ code[k].state = "DRAFT"
  /\ Becoming(k, [code[k] EXCEPT !.text = text])
  /\ UNCHANGED <<row, staged, job, isOpen, taken, sources, applied, refused>>

Submit(k) ==
  /\ code[k].state = "DRAFT"
  /\ Becoming(k, [code[k] EXCEPT !.state = "REVIEW", !.issued = TRUE])
  /\ UNCHANGED <<row, staged, job, isOpen, taken, sources, applied, refused>>

Decide(k, state) ==
  /\ code[k].state = "REVIEW"
  /\ Becoming(k, [code[k] EXCEPT !.state = state])
  /\ UNCHANGED <<row, staged, job, isOpen, taken, sources, applied, refused>>

\* The code falls back on the revision before, or keeps only its issued number.
Withdraw(k) ==
  /\ code[k].state \in {"DRAFT", "REVIEW"}
  /\ Becoming(k, IF code[k].decided # ""
                 THEN [code[k] EXCEPT !.state = "DECIDED", !.text = code[k].decided,
                                      !.decided = "", !.inSet = NoJob]
                 ELSE IF code[k].issued
                      THEN [code[k] EXCEPT !.state = "WITHDRAWN", !.text = "", !.inSet = NoJob]
                      ELSE NoCode)
  /\ job' = [j \in Jobs |->
       IF \E stage \in {"JOIN", "RECORD"} : Works(j, stage) /\ Current(j).number = k
       THEN [job[j] EXCEPT !.gone = TRUE] ELSE job[j]]
  /\ UNCHANGED <<row, staged, isOpen, taken, sources, applied, refused>>

DeleteShell(k) ==
  /\ code[k].state = "WITHDRAWN"
  /\ Becoming(k, NoCode)
  /\ UNCHANGED <<row, staged, job, isOpen, taken, sources, applied, refused>>

\* A Draft entered by hand is submitted and the allocator gives it this number.
TakeNumber(k, text) ==
  /\ k \in ByHand
  /\ code[k].state = "NONE"
  /\ Becoming(k, [NoCode EXCEPT !.state = "REVIEW", !.issued = TRUE, !.text = text])
  /\ UNCHANGED <<row, staged, job, isOpen, taken, sources, applied, refused>>

CloseSet(j) ==
  /\ isOpen[j]
  /\ isOpen' = [isOpen EXCEPT ![j] = FALSE]
  /\ UNCHANGED <<code, row, staged, job, taken, sources, applied, refused>>

\* The third approval of a mapping request: the row is confirmed, or rejected if
\* no code holds its number.
ChangeMapping(k, reject) ==
  /\ row[k] \in {"PROPOSED", "APPROVED"}
  /\ row' = [row EXCEPT ![k] = IF reject THEN "REJECTED"
                               ELSE IF code[k].state # "NONE" THEN "ISSUED" ELSE "APPROVED"]
  /\ reject => code[k].state = "NONE"
  /\ UNCHANGED <<code, staged, job, isOpen, taken, sources, applied, refused>>

-----------------------------------------------------------------------------

Init ==
  /\ code = [k \in Numbers |-> NoCode]
  /\ row = Rows0
  /\ staged = [p \in Previews |-> NoUpload]
  /\ job = [j \in Jobs |-> Unused]
  /\ isOpen = [j \in Jobs |-> FALSE]
  /\ taken = FALSE
  /\ sources = {} /\ applied = {} /\ refused = {}

Importing ==
  \/ \E user \in Importers, p \in Previews :
       \/ \E S \in SUBSET Numbers \ {{}} : \E program \in [S -> Texts] : Preview(user, p, program)
       \/ \E chosen \in SUBSET Numbers, named \in BOOLEAN, j \in Jobs :
            Confirm(user, p, chosen, named, j)
  \/ \E p \in Previews : UploadAges(p) \/ Discard(p)

Others ==
  \/ \E k \in Numbers :
       \/ \E text \in Texts : EditDraft(k, text) \/ TakeNumber(k, text)
       \/ Submit(k) \/ Withdraw(k) \/ DeleteShell(k)
       \/ \E state \in {"DRAFT", "DECIDED"} : Decide(k, state)
       \/ \E reject \in BOOLEAN : ChangeMapping(k, reject)
  \/ \E j \in Jobs : CloseSet(j)

Next == Importing \/ (\E j \in Jobs : Work(j)) \/ Restart \/ Others

\* The worker is a thread of the server: while it lives it is scheduled.
Fairness == \A j \in Jobs : WF_vars(Work(j))

Spec == Init /\ [][Next]_vars /\ Fairness

-----------------------------------------------------------------------------

Ended(j) == job[j].status \in {"COMPLETE", "FAILED"}

\* A job that is owed an end, and one that is owed nothing (more).
Begun(j) == job[j].status = "VALIDATING" /\ job[j].alive

Over(j) == Ended(j) \/ ~job[j].alive

\* FR-048c: an import is never a way around the governance: whatever happened
\* since its programs were checked, a step of a worker writes a Draft and nothing
\* else, and never writes to a code that is under review.
GovernanceIsKept ==
  [][(\E j \in Jobs : Work(j)) =>
       \A k \in Numbers : code'[k] # code[k] /\ code'[k].text # code[k].text =>
         /\ code'[k].state = "DRAFT"
         /\ code[k].state \in {"NONE", "WITHDRAWN", "DRAFT", "DECIDED"}]_vars

\* FR-048v: created_count is the number of codes with a provenance, and each
\* program of an ended job that is neither counted nor reported was cut off by the
\* failure of the job.
CountsAreTrue ==
  \A j \in Jobs :
    LET of(S) == Cardinality({k \in Numbers : <<j, k>> \in S}) IN
    /\ job[j].created = of(sources)
    /\ job[j].status = "COMPLETE" => of(sources) + of(refused) = job[j].count

\* FR-048n: a job that was begun ends, as long as its process lives.
JobsAreWorkedOff == \A j \in Jobs : Begun(j) ~> Over(j)

\* BR-027: the mapping row of a code that an import brought in is frozen: it is
\* never merely approved, so that nobody can give the number away.
ImportedRowsAreFrozen ==
  \A k \in Numbers :
    <<code[k].reserved, k>> \in sources => row[k] # "APPROVED"

\* FR-048n: a job that was begun ends.
BegunJobsEnd == \A j \in Jobs : job[j].status = "VALIDATING" ~> Ended(j)

\* FR-048n: a job that was accepted ends, as long as the process lives.
AcceptedJobsEnd == \A j \in Jobs : job[j].status = "PENDING" ~> Ended(j)

\* FR-048b: a program that is reported as failed created nothing.
FailedCreateNothing == applied \intersect refused = {}

\* FR-195: a rejected number is never used.
RejectedAreUnused == \A k \in Numbers : row[k] = "REJECTED" => code[k].state = "NONE"

\* A row is issued because a code of the catalogue carries its number.
IssuedAreCarried == \A k \in Numbers : row[k] = "ISSUED" => code[k].state # "NONE"
=============================================================================
