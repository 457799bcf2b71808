--------------------------- MODULE BulkDecisions ----------------------------
(***************************************************************************)
(* Bulk work on one change set (FR-180): people decide many change         *)
(* requests in one sitting, on the strength of a sample they inspected.    *)
(*                                                                         *)
(* A sitting is one HTTP request but many transactions: each change        *)
(* request is decided by its own service call, which commits.  In between  *)
(* anybody may edit, submit, decide or withdraw, and the process may die.  *)
(* Bulk submission and bulk editing are as many Submit and EditDraft steps *)
(* and have no state of their own.  Accounts do not change here.           *)
(***************************************************************************)
EXTENDS ChangeRequests

CONSTANTS
  Drafts,       \* the change requests at the start, as rev[c][n]
  Reserved,     \* the number each code carries in its program
  SampleIds,    \* the bulk_sample ids that can ever be used
  NoSample,     \* a sitting without a sample
  SittingIds,   \* bound: bulk requests served at the same time
  Above,        \* setting bulk.sample_above
  Minimum,      \* setting bulk.sample_minimum
  Percent,      \* setting bulk.sample_percent
  MaxText,      \* bound: versions of a text
  Sitters,      \* bound: the people who work in bulk
  Present,      \* bound: the people who work at all
  Selections,   \* bound: the requests they tick in the list
  Evidenced     \* bound: the requests that may get an attachment

Steps == {"domain", "reviewer", "admin", "chief-engineer"}

StepState ==
  [step \in Steps |-> CASE step = "domain" -> "DRAFT"
                        [] step = "chief-engineer" -> "PENDING_APPROVAL"
                        [] OTHER -> "REVIEW"]

Requests == Codes \X RevNo

Live == {"OPEN", "PASSED", "FAILED"}

\* `read` is the text an inspector had on the screen when giving a verdict; the
\* database does not keep it.
Sample == [status: Live \union {"NONE", "USED", "VOID"},
           step: Steps, by: Users,
           population: SUBSET Requests,
           verdict: UNION {[S -> {"NONE", "OK", "DEFECT"}] : S \in SUBSET Requests},
           read: UNION {[S -> 0 .. MaxText] : S \in SUBSET Requests},
           young: BOOLEAN]

\* A bulk request being served: what is left of its loop, whether a decision
\* was made, and the batch its gate let through.
Sitting == [kind: {"IDLE", "DECIDE", "SIGN", "SEND_BACK"},
            actor: Users, step: Steps, decision: Decisions,
            sample: SampleIds \union {NoSample},
            left: SUBSET Requests,
            batch: SUBSET Requests,
            done: BOOLEAN]

\* What the constants are; assumed by the module that gives them values.
BulkAssumption ==
  /\ NoSample \notin SampleIds
  /\ Drafts \in [Codes -> [RevNo -> Revision]]
  /\ Reserved \in [Codes -> AllNumbers]
  /\ Above \in Nat /\ Minimum \in Nat /\ Percent \in 1 .. 100 /\ MaxText \in Nat
  /\ Sitters \subseteq Users /\ Present \subseteq Users
  /\ \A c \in Codes, n \in RevNo :
       Drafts[c][n].status \in OpenStates => Drafts[c][n].chief = Nobody

VARIABLES
  members,   \* the change requests of the change set
  isOpen,    \* change_set.status = OPEN
  sample,    \* bulk_sample with its items
  sitting,   \* the bulk requests being served
  text,      \* text[p]: the version of what request p proposes
  evidence,  \* the requests with a cr_attachment row
  files,     \* the requests whose attachment is on the disk
  served     \* how many sittings decided on the strength of a sample, up to 2

bulkVars == <<members, isOpen, sample, sitting, text, evidence, files, served>>

AnyUser == CHOOSE u \in Users : TRUE

Idle == [kind |-> "IDLE", actor |-> AnyUser, step |-> "domain", decision |-> "APPROVE",
         sample |-> NoSample, left |-> {}, batch |-> {}, done |-> FALSE]

Undrawn == [status |-> "NONE", step |-> "domain", by |-> AnyUser, population |-> {},
            verdict |-> <<>>, read |-> <<>>, young |-> TRUE]

BulkTypeOK ==
  /\ CatalogueTypeOK
  /\ members \subseteq Requests /\ isOpen \in BOOLEAN
  /\ \A s \in SampleIds :
       /\ [sample[s] EXCEPT !.verdict = 0, !.read = 0] \in
            [status: Live \union {"NONE", "USED", "VOID"}, step: Steps, by: Users,
             population: SUBSET Requests, verdict: {0}, read: {0}, young: BOOLEAN]
       /\ DOMAIN sample[s].verdict \subseteq sample[s].population
       /\ DOMAIN sample[s].read = DOMAIN sample[s].verdict
  /\ sitting \in [SittingIds -> Sitting]
  /\ text \in [Requests -> 0 .. MaxText]
  /\ files \subseteq evidence /\ evidence \subseteq Requests

Status(p) == rev[p[1]][p[2]].status

Of(p) == rev[p[1]][p[2]]

-----------------------------------------------------------------------------
(* The change set                                                          *)

MayGroup(actor, p) ==
  /\ IsRequest(p[1], p[2])
  /\ actor = Of(p).author \/ HasRole(actor, {"ADMINISTRATOR"})

AddCr(actor, p) ==
  /\ MayGroup(actor, p)
  /\ isOpen
  /\ Status(p) \in OpenStates
  /\ members' = members \union {p}
  /\ UNCHANGED <<isOpen, sample, sitting, text, evidence, files, served>>

RemoveCr(actor, p) ==
  /\ MayGroup(actor, p)
  /\ p \in members
  /\ members' = members \ {p}
  /\ UNCHANGED <<isOpen, sample, sitting, text, evidence, files, served>>

CloseSet(actor) ==
  /\ HasRole(actor, {"ADMINISTRATOR"})
  /\ isOpen' = FALSE
  /\ UNCHANGED <<members, sample, sitting, text, evidence, files, served>>

-----------------------------------------------------------------------------
(* Samples                                                                 *)

Ceiling(n, d) == (n + d - 1) \div d

\* min and max of two numbers.
Least(a, b) == IF a < b THEN a ELSE b

Most(a, b) == IF a > b THEN a ELSE b

SampleSize(population) ==
  IF population <= Above THEN 0
  ELSE Least(population, Most(Minimum, Ceiling(population * Percent, 100)))

MayTake(actor, step) ==
  CASE step = "domain" -> SignedIn(actor) /\ account[actor].controls
    [] step = "reviewer" -> MayDecideAs(actor, "REVIEWER")
    [] step = "admin" -> MayDecideAs(actor, "ADMINISTRATOR")
    [] OTHER -> MayDecideAs(actor, "CHIEF_ENGINEER")

\* Nobody has taken this step on the request yet.
Unsigned(step, p) ==
  CASE step = "domain" -> Of(p).controls = Nobody
    [] step = "reviewer" -> Of(p).reviewer = Nobody
    [] step = "admin" -> Of(p).admin = Nobody
    [] OTHER -> TRUE

\* eligible: the requests of the set that the actor can take through the step.
Eligible(actor, step, wanted) ==
  {p \in members \intersect wanted :
     /\ MayTake(actor, step)
     /\ Status(p) = StepState[step]
     /\ Of(p).author # actor
     /\ Unsigned(step, p)}

\* A draw of `size` of them, from every subgroup if there is room for that
\* (module Sampling has the quotas).
Draws(eligible, size) ==
  LET bandsOf(S) == {code[p[1]].band : p \in S} IN
  {S \in SUBSET eligible :
     /\ Cardinality(S) = size
     /\ size >= Cardinality(bandsOf(eligible)) => bandsOf(S) = bandsOf(eligible)}

\* A defect to test OneLiveSample with: only samples that passed are replaced.
ReplacedDefect(actor, step) ==
  {s \in SampleIds : sample[s].by = actor /\ sample[s].step = step /\ sample[s].status = "PASSED"}

\* The samples a new one replaces.
Replaced(actor, step) ==
  {s \in SampleIds : sample[s].by = actor /\ sample[s].step = step /\ sample[s].status \in Live}

DrawSample(actor, step, wanted, s) ==
  LET eligible == Eligible(actor, step, wanted)
      size == SampleSize(Cardinality(eligible))
  IN
  /\ sample[s].status = "NONE"
  /\ size > 0
  /\ \E drawn \in Draws(eligible, size) :
       sample' = [t \in SampleIds |->
         IF t = s THEN [status |-> "OPEN", step |-> step, by |-> actor,
                        population |-> eligible,
                        verdict |-> [p \in drawn |-> "NONE"],
                        read |-> [p \in drawn |-> 0], young |-> TRUE]
         ELSE IF t \in Replaced(actor, step) THEN [sample[t] EXCEPT !.status = "VOID"]
         ELSE sample[t]]
  /\ UNCHANGED <<members, isOpen, sitting, text, evidence, files, served>>

\* A defect to test BulkTypeOK with: the verdict is taken for the status.
SettledDefect(verdict) ==
  IF \A p \in DOMAIN verdict : verdict[p] = "OK" THEN "OK" ELSE "OPEN"

\* _settle
Settled(verdict) ==
  LET given == {verdict[p] : p \in DOMAIN verdict} IN
  IF "NONE" \in given THEN "OPEN" ELSE IF "DEFECT" \in given THEN "FAILED" ELSE "PASSED"

\* A defect to test ClosedSamplesStay with: a used sample is settled again.
MayInspectDefect(actor, s) == sample[s].status \in Live \union {"USED"} /\ sample[s].by = actor

MayInspect(actor, s) == sample[s].status \in Live /\ sample[s].by = actor

RecordVerdict(actor, s, p, mark) ==
  LET verdict == [sample[s].verdict EXCEPT ![p] = mark] IN
  /\ MayInspect(actor, s)
  /\ p \in DOMAIN sample[s].verdict
  /\ sample' = [sample EXCEPT ![s].verdict = verdict, ![s].read[p] = text[p],
                              ![s].status = Settled(verdict)]
  /\ UNCHANGED <<members, isOpen, sitting, text, evidence, files, served>>

\* 24 hours have passed since the draw.
SampleAges(s) ==
  /\ sample[s].status \in Live /\ sample[s].young
  /\ sample' = [sample EXCEPT ![s].young = FALSE]
  /\ UNCHANGED <<members, isOpen, sitting, text, evidence, files, served>>

\* require_sample: a small batch needs none, a larger one its own.
Covers(actor, step, eligible, s) ==
  IF SampleSize(Cardinality(eligible)) = 0 THEN s = NoSample
  ELSE /\ s \in SampleIds
       /\ sample[s].status \notin {"NONE", "USED", "VOID"}
       /\ sample[s].step = step /\ sample[s].by = actor
       /\ sample[s].young
       /\ Settled(sample[s].verdict) = "PASSED"
       /\ sample[s].population = eligible

-----------------------------------------------------------------------------
(* Sittings                                                                *)

\* A defect to test NoSecondSignature with: an earlier signature is not seen.
ReachesServiceDefect(job, p) == job.kind = "DECIDE" => Status(p) = StepState[job.step]

\* The loop calls the service for this request; it skips the others.
ReachesService(job, p) ==
  job.kind = "DECIDE" => Status(p) = StepState[job.step] /\ Unsigned(job.step, p)

\* A defect to test StepsOfTheLifecycle with: the Chief Engineer's bulk decision
\* publishes at once.
SingleDefect(job, p) ==
  LET c == p[1] n == p[2] IN
  CASE job.kind = "SIGN" -> Change(c, n, [Of(p) EXCEPT !.controls = job.actor])
    [] job.step = "reviewer" -> ReviewerSignoff(job.actor, c, n, job.decision)
    [] job.step = "admin" -> AdminSignoff(job.actor, c, n, job.decision)
    [] OTHER -> Change(c, n, [Of(p) EXCEPT !.status = "RELEASED", !.chief = job.actor])

\* The service call for one request.
Single(job, p) ==
  LET c == p[1] n == p[2] IN
  CASE job.kind = "SIGN" ->
         IF Of(p).controls = Nobody THEN Change(c, n, [Of(p) EXCEPT !.controls = job.actor])
         ELSE UNCHANGED rev
    [] job.step = "reviewer" -> ReviewerSignoff(job.actor, c, n, job.decision)
    [] job.step = "admin" -> AdminSignoff(job.actor, c, n, job.decision)
    [] OTHER -> ChiefEngineerDecide(job.actor, c, n, job.decision)

\* The service raises no error.
Accepted(job, p) ==
  CASE job.kind = "SIGN" -> IsRequest(p[1], p[2])
    [] job.step = "reviewer" -> ReviewerMayDecide(job.actor, p[1], p[2])
    [] job.step = "admin" -> AdminMayDecide(job.actor, p[1], p[2])
    [] OTHER -> ChiefMayDecide(job.actor, p[1], p[2])

\* One transaction of the loop: some requests are skipped, one is decided, and
\* the decision is committed.
DecideOne(k, job) ==
  \E p \in {q \in job.left : ReachesService(job, q) /\ Accepted(job, q)} :
    \E skipped \in SUBSET {q \in job.left : ~ReachesService(job, q)} :
      /\ Single(job, p)
      /\ sitting' = [sitting EXCEPT ![k] = [job EXCEPT !.left = @ \ ({p} \union skipped),
                                                       !.done = TRUE]]
      /\ served' = IF job.sample # NoSample /\ ~job.done
                   THEN [served EXCEPT ![job.sample] = Least(@ + 1, 2)] ELSE served
      /\ UNCHANGED <<code, sample>>

\* A defect to test SittingEnds with: what was refused is tried once more.
RefuseOneDefect(k, job) ==
  \E p \in {q \in job.left : ReachesService(job, q) /\ ~Accepted(job, q)} :
    /\ sitting' = [sitting EXCEPT ![k] = job]
    /\ UNCHANGED <<rev, code, sample, served>>

\* ... or refused, and the transaction is rolled back.
RefuseOne(k, job) ==
  \E p \in {q \in job.left : ReachesService(job, q) /\ ~Accepted(job, q)} :
    \E skipped \in SUBSET {q \in job.left : ~ReachesService(job, q)} :
      /\ sitting' = [sitting EXCEPT ![k] = [job EXCEPT !.left = @ \ ({p} \union skipped)]]
      /\ UNCHANGED <<rev, code, sample, served>>

\* The loop is over: the sample has served, or is void once its defects were
\* sent back (a used one cannot be, by a constraint of the table).
Finish(k, job) ==
  /\ \A p \in job.left : ~ReachesService(job, p)
  /\ sitting' = [sitting EXCEPT ![k] = Idle]
  /\ sample' = CASE job.kind = "SEND_BACK" /\ sample[job.sample].status # "USED" ->
                      [sample EXCEPT ![job.sample].status = "VOID"]
                 [] job.kind # "SEND_BACK" /\ job.sample # NoSample /\ job.done ->
                      [sample EXCEPT ![job.sample].status = "USED"]
                 [] OTHER -> sample
  /\ UNCHANGED <<rev, code, served>>

Proceed(k, job) ==
  /\ DecideOne(k, job) \/ RefuseOne(k, job) \/ Finish(k, job)
  /\ UNCHANGED <<members, isOpen, text, evidence, files>>

\* The gate is passed in the transaction of the first decision.
BulkDecide(actor, k, step, decision, wanted, s) ==
  LET eligible == Eligible(actor, step, wanted) IN
  /\ SignedIn(actor)
  /\ step # "domain"
  /\ sitting[k].kind = "IDLE"
  /\ IF decision = "APPROVE" THEN Covers(actor, step, eligible, s) ELSE s = NoSample
  /\ Proceed(k, [kind |-> "DECIDE", actor |-> actor, step |-> step, decision |-> decision,
                 sample |-> s, left |-> members \intersect wanted, batch |-> eligible,
                 done |-> FALSE])

BulkDomainSignoff(actor, k, wanted, s) ==
  LET eligible == Eligible(actor, "domain", wanted) IN
  /\ HasRole(actor, {"ADMINISTRATOR", "ENGINEER"})
  /\ sitting[k].kind = "IDLE"
  /\ eligible # {}
  /\ Covers(actor, "domain", eligible, s)
  /\ Proceed(k, [kind |-> "SIGN", actor |-> actor, step |-> "domain", decision |-> "APPROVE",
                 sample |-> s, left |-> eligible, batch |-> eligible, done |-> FALSE])

RejectDefects(actor, k, s) ==
  LET defects == {p \in DOMAIN sample[s].verdict : sample[s].verdict[p] = "DEFECT"} IN
  /\ SignedIn(actor)
  /\ sitting[k].kind = "IDLE"
  /\ sample[s].status = "FAILED" /\ sample[s].by = actor /\ sample[s].step # "domain"
  /\ Proceed(k, [kind |-> "SEND_BACK", actor |-> actor, step |-> sample[s].step,
                 decision |-> "REJECT", sample |-> s, left |-> defects, batch |-> defects,
                 done |-> FALSE])

\* The next transaction of a sitting.
Continue(k) == sitting[k].kind # "IDLE" /\ Proceed(k, sitting[k])

\* The process dies, or an error that is no DomainError ends the request; what
\* was committed stays.
Break(k) ==
  /\ sitting[k].kind # "IDLE"
  /\ sitting' = [sitting EXCEPT ![k] = Idle]
  /\ UNCHANGED <<code, rev, members, isOpen, sample, text, evidence, files, served>>

-----------------------------------------------------------------------------
(* One request at a time                                                   *)

EditDraft(actor, p) ==
  /\ text[p] < MaxText
  /\ UpdateDraft(actor, p[1], p[2], TRUE)
  /\ text' = [text EXCEPT ![p] = @ + 1]
  /\ UNCHANGED <<members, isOpen, sample, sitting, evidence, files, served>>

Attach(actor, p) ==
  /\ p \in Evidenced
  /\ SignedIn(actor) /\ MayGroup(actor, p)
  /\ IsRequest(p[1], p[2]) /\ Status(p) \in OpenStates
  /\ evidence' = evidence \union {p}
  /\ files' = files \union {p}
  /\ UNCHANGED <<code, rev, members, isOpen, sample, sitting, text, served>>

\* The row of an item of a sample still refers to the request (foreign key).
Sampled(p) == \E s \in SampleIds : p \in DOMAIN sample[s].verdict

\* The files go first; a request that was ever sampled then cannot be deleted,
\* and the transaction fails.
WithdrawRequest(actor, p) ==
  /\ IF Sampled(p)
     THEN /\ HasRole(actor, Authors)
          /\ IsRequest(p[1], p[2]) /\ actor = Of(p).author /\ Status(p) \in OpenStates
          /\ UNCHANGED <<code, rev, members, evidence>>
     ELSE /\ Withdraw(actor, p[1], p[2])
          /\ members' = members \ {p}
          /\ evidence' = evidence \ {p}
  /\ files' = files \ {p}
  /\ UNCHANGED <<isOpen, sample, sitting, text, served>>

DecideAlone(actor, p) ==
  /\ \/ \E k \in AllNumbers : Submit(actor, p[1], p[2], k, FALSE)
     \/ SignDomain(actor, p[1], p[2])
     \/ \E decision \in Decisions :
          \/ ReviewerSignoff(actor, p[1], p[2], decision)
          \/ AdminSignoff(actor, p[1], p[2], decision)
          \/ ChiefEngineerDecide(actor, p[1], p[2], decision)
  /\ UNCHANGED bulkVars

-----------------------------------------------------------------------------

Init ==
  /\ AccountsInit
  /\ code = [c \in Codes |->
       [NoCode EXCEPT !.kind = "REAL", !.reserved = Reserved[c],
                      !.number = IF Drafts[c][1].status = "DRAFT" THEN NoNumber ELSE Reserved[c]]]
  /\ rev = Drafts
  /\ members = {p \in Requests : Status(p) # "NONE"}
  /\ isOpen = TRUE
  /\ sample = [s \in SampleIds |-> Undrawn]
  /\ sitting = [k \in SittingIds |-> Idle]
  /\ text = [p \in Requests |-> 0]
  /\ evidence = {} /\ files = {}
  /\ served = [s \in SampleIds |-> 0]

OnSet ==
  \E actor \in Present :
    \/ \E p \in Requests : AddCr(actor, p) \/ RemoveCr(actor, p)
    \/ CloseSet(actor)
    \/ \E step \in Steps, wanted \in Selections, s \in SampleIds :
         actor \in Sitters /\ DrawSample(actor, step, wanted, s)
    \/ \E s \in SampleIds : \E p \in DOMAIN sample[s].verdict, mark \in {"OK", "DEFECT"} :
         RecordVerdict(actor, s, p, mark)

Sit ==
  \E actor \in Sitters, k \in SittingIds :
    \/ \E step \in Steps, decision \in Decisions, wanted \in Selections,
          s \in SampleIds \union {NoSample} :
         BulkDecide(actor, k, step, decision, wanted, s)
    \/ \E wanted \in Selections, s \in SampleIds \union {NoSample} :
         BulkDomainSignoff(actor, k, wanted, s)
    \/ \E s \in SampleIds : RejectDefects(actor, k, s)

Alone ==
  \E actor \in Present, p \in Requests :
    EditDraft(actor, p) \/ Attach(actor, p) \/ WithdrawRequest(actor, p) \/ DecideAlone(actor, p)

Next ==
  /\ \/ OnSet /\ UNCHANGED <<code, rev>>
     \/ \E s \in SampleIds : SampleAges(s) /\ UNCHANGED <<code, rev>>
     \/ Sit
     \/ \E k \in SittingIds : Continue(k) \/ Break(k)
     \/ Alone
  /\ UNCHANGED accountVars

vars == <<account, delegations, code, rev, bulkVars>>

\* The server goes on with a request it began to serve.
Fairness == \A k \in SittingIds : WF_vars(Continue(k) /\ UNCHANGED accountVars)

Spec == Init /\ [][Next]_vars /\ Fairness

-----------------------------------------------------------------------------

\* FR-180: of the samples a person drew for a step at most one can still serve a
\* decision, whatever is drawn, inspected and decided in between.
OneLiveSample ==
  \A s, t \in SampleIds :
    /\ s # t /\ sample[s].by = sample[t].by /\ sample[s].step = sample[t].step
    => ~(sample[s].status \in Live /\ sample[t].status \in Live)

\* FR-180: a sample that was used or replaced never comes back to life.
ClosedSamplesStay ==
  [][\A s \in SampleIds :
       /\ sample[s].status = "USED" => sample'[s].status = "USED"
       /\ sample[s].status = "VOID" => sample'[s].status \in {"VOID", "USED"}]_sample

KeepsSignatures ==
  \A k \in SittingIds, p \in Requests :
    sitting'[k].left # sitting[k].left /\ sitting'[k].kind = "DECIDE" =>
      /\ Of(p).reviewer # Nobody => Of(p)'.reviewer \in {Of(p).reviewer, Nobody}
      /\ Of(p).admin # Nobody => Of(p)'.admin \in {Of(p).admin, Nobody}

\* FR-180: a sitting never replaces a signature that somebody else gave, not
\* even one given while it was under way.
NoSecondSignature == [][KeepsSignatures]_vars

\* Who signed a revision, for the lifecycle.
Signed(r) ==
  {e \in {<<"AUTHOR", r.author>>, <<"REVIEWER", r.reviewer>>,
          <<"ADMIN", r.admin>>, <<"CHIEF", r.chief>>} : e[2] # Nobody}

Abstract == INSTANCE Lifecycle WITH
  People <- Users,
  status <- [c \in Codes |-> [n \in RevNo |-> Status(<<c, n>>)]],
  signed <- [c \in Codes |-> [n \in RevNo |-> Signed(rev[c][n])]]

LifecycleStep == Abstract!Next \/ UNCHANGED Abstract!lifecycleVars

\* FR-180: bulk work is no weaker than single decisions - it never decides a
\* code the person wrote and never skips a step (BR-004, BR-005).
StepsOfTheLifecycle == [][LifecycleStep]_(Abstract!lifecycleVars)

Begun(k) == sitting[k].kind # "IDLE"

Over(k) == sitting[k].kind = "IDLE"

\* Every sitting comes to its end, with every request of the batch decided,
\* refused or skipped - or the process died.
SittingEnds == \A k \in SittingIds : Begun(k) ~> Over(k)

\* FR-180: a sample serves one decision.
SampleServesOneDecision == \A s \in SampleIds : served[s] <= 1

\* FR-180: a decision covers exactly the batch that the sample was drawn from, or
\* one too small to need a sample.
OnlyTheBatch ==
  [][\A k \in SittingIds :
       sitting'[k].kind = "DECIDE" /\ sitting'[k].decision = "APPROVE" /\ sitting' # sitting =>
         \A p \in Requests : Of(p)' # Of(p) => p \in sitting'[k].batch]_vars

\* FR-180: what was found good is what is decided: a sampled request still has
\* the text its inspector read.
DecidedAsInspected ==
  [][\A k \in SittingIds :
       sitting'[k].kind = "DECIDE" /\ sitting'[k].sample # NoSample /\ sitting' # sitting =>
         \A p \in DOMAIN sample[sitting'[k].sample].verdict :
           Of(p)' # Of(p) => sample[sitting'[k].sample].read[p] = text[p]]_vars

\* Evidence of a request that is under review stays.
EvidenceStays == \A p \in evidence : Status(p) \in {"REVIEW", "PENDING_APPROVAL"} => p \in files
=============================================================================
