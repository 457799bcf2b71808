------------------------------- MODULE Packages -------------------------------
(***************************************************************************)
(* Release packages (app/services/package_service.py): a request records a *)
(* job and starts a thread, which writes one file per language and         *)
(* audience into a ZIP and commits its progress every few files.  In       *)
(* between, translations are approved or withdrawn and an administrator    *)
(* decides anew whether an access level shows a code to the audience       *)
(* (audience_service.py); within one batch of files nothing changes, for   *)
(* the thread holds the write lock.  The process may be restarted.         *)
(***************************************************************************)
EXTENDS Naturals, Sequences, FiniteSets, SequencesExt

CONSTANTS
  Jobs,
  Codes,        \* the codes of the baseline of the Release
  Source,       \* the source language
  Others,       \* the other languages
  Batch,        \* files written between two commits
  MayRestart,   \* does the process die?
  MaxChanges    \* bound: changes by other people

\* What the constants are; assumed by the module that gives them values.
BatchAssumption ==
  Batch \in Nat \ {0} /\ MaxChanges \in Nat /\ IsFiniteSet(Others) /\ Source \notin Others

Languages == {Source} \cup Others
Folders == {"audience", "all"}
\* The files in the order they are written: language by language.
_variants ==
  LET languages == <<Source>> \o SetToSeq(Others) IN
  [i \in 1..2 * Len(languages) |->
     <<languages[(i + 1) \div 2], IF i % 2 = 1 THEN "audience" ELSE "all">>]

VARIABLES
  job,      \* job -> status, its thread, the coverage of the manifest, files
  approved, \* the approved translations: code and language
  visible,  \* the codes the audience may see
  changes
vars == <<job, approved, visible, changes>>

Unrequested ==
  [status |-> "none", thread |-> "none", coverage |-> [l \in Languages |-> {}], files |-> <<>>]

Init ==
  /\ job = [j \in Jobs |-> Unrequested]
  /\ approved \in SUBSET (Codes \X Others)
  /\ visible \in SUBSET Codes
  /\ changes = 0

Working(j) == job[j].thread = "running"

approved_for(language) == {c \in Codes : <<c, language>> \in approved}

(* The row is committed before the thread is started. *)
request(j) ==
  /\ job[j].status = "none"
  /\ job' = [job EXCEPT ![j].status = "PENDING", ![j].thread = "starting"]
  /\ UNCHANGED <<approved, visible, changes>>

StartThread(j) ==
  /\ job[j].thread = "starting"
  /\ job' = [job EXCEPT ![j].thread = "running",
               ![j].coverage = [l \in Languages |-> IF l = Source THEN Codes ELSE approved_for(l)]]
  /\ UNCHANGED <<approved, visible, changes>>

(* ExportService._prepare for one language and one audience. *)
_prepare(variant) ==
  LET rows == IF variant[2] = "all" THEN Codes ELSE visible IN
  [language |-> variant[1], folder |-> variant[2], rows |-> rows,
   translated |-> IF variant[1] = Source THEN rows ELSE rows \cap approved_for(variant[1])]

\* The last file before the next commit: the last batch may be a short one.
EndOfBatch(done) ==
  IF done + Batch < Len(_variants) THEN done + Batch ELSE Len(_variants)

\* A defect to test CompleteIsWhole with: after a commit the last file is written again.
WriteFilesDefect(j) ==
  /\ Working(j)
  /\ Len(job[j].files) < Len(_variants)
  /\ LET done == Len(job[j].files)
         more == SubSeq(_variants, IF done = 0 THEN 1 ELSE done, EndOfBatch(done)) IN
     job' = [job EXCEPT ![j].files = @ \o [i \in 1..Len(more) |-> _prepare(more[i])]]
  /\ UNCHANGED <<approved, visible, changes>>

(* The files up to the next commit of the progress. *)
WriteFiles(j) ==
  /\ Working(j)
  /\ Len(job[j].files) < Len(_variants)
  /\ LET done == Len(job[j].files)
         more == SubSeq(_variants, done + 1, EndOfBatch(done)) IN
     job' = [job EXCEPT ![j].files = @ \o [i \in 1..Len(more) |-> _prepare(more[i])]]
  /\ UNCHANGED <<approved, visible, changes>>

(* Release notes, manifest, hash; the job becomes a recorded export. *)
Complete(j) ==
  /\ Working(j)
  /\ Len(job[j].files) >= Len(_variants)
  /\ job' = [job EXCEPT ![j].status = "COMPLETE", ![j].thread = "gone"]
  /\ UNCHANGED <<approved, visible, changes>>

\* A defect to test PackagesEnd with: an error ends the thread only.
FailDefect(j) ==
  /\ Working(j)
  /\ job' = [job EXCEPT ![j].thread = "gone"]
  /\ UNCHANGED <<approved, visible, changes>>

\* A defect to test PackagesTypeOK with: a recorded error does not end the thread.
FailAndGoOnDefect(j) ==
  /\ Working(j)
  /\ job' = [job EXCEPT ![j].status = "FAILED"]
  /\ UNCHANGED <<approved, visible, changes>>

(* An error while building: rolled back and recorded. *)
Fail(j) ==
  /\ Working(j)
  /\ job' = [job EXCEPT ![j].status = "FAILED", ![j].thread = "gone"]
  /\ UNCHANGED <<approved, visible, changes>>

(* Another person approves or withdraws a translation, or changes what the audience sees. *)
Change ==
  /\ changes < MaxChanges
  /\ changes' = changes + 1
  /\ \/ \E c \in Codes, l \in Others :
          /\ approved' = IF <<c, l>> \in approved THEN approved \ {<<c, l>>}
                         ELSE approved \cup {<<c, l>>}
          /\ UNCHANGED visible
     \/ \E c \in Codes :
          /\ visible' = IF c \in visible THEN visible \ {c} ELSE visible \cup {c}
          /\ UNCHANGED approved
  /\ UNCHANGED job

(* The daemon threads die with the process; a job whose thread was not started yet as well. *)
Restart ==
  /\ MayRestart
  /\ job' = [j \in Jobs |-> IF job[j].thread \in {"starting", "running"}
                            THEN [job[j] EXCEPT !.thread = "gone"] ELSE job[j]]
  /\ UNCHANGED <<approved, visible, changes>>

Work(j) == StartThread(j) \/ WriteFiles(j) \/ Complete(j) \/ Fail(j)

Next ==
  \/ \E j \in Jobs : request(j) \/ Work(j)
  \/ Change \/ Restart

Spec == Init /\ [][Next]_vars

(* The operating system runs every thread that can go on. *)
FairSpec == Spec /\ \A j \in Jobs : WF_vars(Work(j))

----------------------------------------------------------------------------
Begun(j) == job[j].status = "PENDING"
Over(j) == job[j].status \in {"COMPLETE", "FAILED"}

(* Every variable has its type. *)
PackagesTypeOK ==
  /\ \A j \in Jobs :
       /\ job[j].status \in {"none", "PENDING", "COMPLETE", "FAILED"}
       /\ job[j].thread \in {"starting", "running"} => job[j].status = "PENDING"
       /\ \A i \in 1..Len(job[j].files) : job[j].files[i].rows \subseteq Codes
  /\ approved \subseteq Codes \X Others /\ visible \subseteq Codes /\ changes \in 0..MaxChanges

(* A complete package has one file for every language and every audience, and every file  *)
(* for everybody holds the whole baseline in every language (FR-174).                     *)
CompleteIsWhole ==
  \A j \in Jobs : job[j].status = "COMPLETE" =>
    /\ \A v \in Languages \X Folders :
         Cardinality({i \in 1..Len(job[j].files) :
                        <<job[j].files[i].language, job[j].files[i].folder>> = v}) = 1
    /\ \A i \in 1..Len(job[j].files) :
         job[j].files[i].folder = "all" => job[j].files[i].rows = Codes

(* Every requested package is complete or failed in the end, whatever other people and      *)
(* other packages do meanwhile: it is "built in the background with a visible progress,      *)
(* recorded as an export" (FR-174).  Violated if the process may be restarted: nothing goes  *)
(* on with the job or fails it, and the page shows its progress for ever.                    *)
PackagesEnd == \A j \in Jobs : Begun(j) ~> Over(j)

(* The manifest lists "the translation coverage per language" (FR-174).  Violated by a       *)
(* translation approved or withdrawn after the coverage was counted.                         *)
CoverageIsTrue ==
  \A j \in Jobs : job[j].status = "COMPLETE" =>
    \A i \in 1..Len(job[j].files) :
      job[j].files[i].folder = "all" =>
        job[j].files[i].translated = job[j].coverage[job[j].files[i].language]

(* "An audience file contains only what that audience may see"                              *)
(* (package_service.py:17): the files of one audience hold the same codes in every language. *)
(* Violated by a change of an access level between two commits of the progress.              *)
AudienceFilesAgree ==
  \A j \in Jobs : job[j].status = "COMPLETE" =>
    \A i, k \in 1..Len(job[j].files) :
      job[j].files[i].folder = job[j].files[k].folder =>
        job[j].files[i].rows = job[j].files[k].rows
=============================================================================
