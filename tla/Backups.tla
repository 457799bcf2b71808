------------------------------- MODULE Backups --------------------------------
(***************************************************************************)
(* Backups of the database (app/services/backup_service.py): the job that  *)
(* copies, verifies, prunes and records, run by the scheduler and by hand, *)
(* possibly at once; the state the readiness probe reports; the restore of *)
(* the last good generation.  A database is sound if it passes the checks  *)
(* of verify_backup; damage makes it unsound.                              *)
(***************************************************************************)
EXTENDS Naturals, FiniteSets

CONSTANTS
  Jobs,     \* processes that may run the backup command at the same time
  Keep,     \* generations kept
  MaxAge,   \* days after which the last good backup is stale
  PerDay,   \* bound: backups started in one day
  LastDay   \* bound: days

\* The shipped schedule keeps 35 generations of one backup a night, and 36 hours are no alarm.
\* Assumed by the module that gives the constants their values.
KeepAssumption ==
  /\ Keep \in Nat \ {0} /\ MaxAge \in Nat /\ PerDay \in Nat /\ LastDay \in Nat \ {0}
  /\ Keep >= PerDay * (MaxAge + 1)

Nothing == 0
NoStatus == [ok |-> FALSE, success |-> 0, good |-> Nothing]

VARIABLES
  sound,    \* is the live database sound
  files,    \* generation -> is it sound
  status,   \* backup_status.json
  job,      \* job -> how far it is
  day, started   \* the day, and the backups started in it
vars == <<sound, files, status, job, day, started>>

Free == [at |-> "free", target |-> Nothing, ok |-> FALSE, previous |-> NoStatus]

Init ==
  /\ sound = TRUE
  /\ files = <<>>
  /\ status = NoStatus
  /\ job = [j \in Jobs |-> Free]
  /\ day = 1 /\ started = 0

Step(j, at) == job' = [job EXCEPT ![j].at = at]

(* The name of a generation is its time, so that names order the generations. *)
Stamp == PerDay * (day - 1) + started + 1

Start(j) ==
  /\ job[j] = Free
  /\ started < PerDay
  /\ started' = started + 1
  /\ job' = [job EXCEPT ![j] = [Free EXCEPT !.at = "copying", !.target = Stamp]]
  /\ files' = [n \in DOMAIN files \cup {Stamp} |-> IF n = Stamp THEN FALSE ELSE files[n]]
  /\ UNCHANGED <<sound, status, day>>

Copy(j) ==
  /\ job[j].at = "copying"
  /\ IF job[j].target \in DOMAIN files
     THEN files' = [files EXCEPT ![job[j].target] = sound]
     ELSE UNCHANGED files
  /\ Step(j, "verifying")
  /\ UNCHANGED <<sound, status, day, started>>

(* verify_backup of the new file. A file another job has pruned in the meantime ends the job *)
(* when its size is taken. *)
Verify(j) ==
  /\ job[j].at = "verifying"
  /\ IF job[j].target \in DOMAIN files
     THEN job' = [job EXCEPT ![j].at = "reading", ![j].ok = files[job[j].target]]
     ELSE job' = [job EXCEPT ![j] = Free]
  /\ UNCHANGED <<sound, files, status, day, started>>

ReadStatus(j) ==
  /\ job[j].at = "reading"
  /\ job' = [job EXCEPT ![j].at = "pruning", ![j].previous = status]
  /\ UNCHANGED <<sound, files, status, day, started>>

\* A defect to test ReadyMeansRestorable with: the newest ones are removed.
SurplusDefect == {n \in DOMAIN files : Cardinality({m \in DOMAIN files : m < n}) >= Keep}

Surplus == {n \in DOMAIN files : Cardinality({m \in DOMAIN files : m > n}) >= Keep}

Prune(j) ==
  /\ job[j].at = "pruning"
  /\ files' = [n \in DOMAIN files \ Surplus |-> files[n]]
  /\ Step(j, "recording")
  /\ UNCHANGED <<sound, status, day, started>>

\* A defect to test BackupTypeOK with: the file that failed is named as the last good one.
RecordedDefect(j) ==
  [ok |-> job[j].ok, success |-> IF job[j].ok THEN day ELSE job[j].previous.success,
   good |-> job[j].target]

Recorded(j) ==
  IF job[j].ok
  THEN [ok |-> TRUE, success |-> day, good |-> job[j].target]
  ELSE [job[j].previous EXCEPT !.ok = FALSE]

WriteStatus(j) ==
  /\ job[j].at = "recording"
  /\ status' = Recorded(j)
  /\ job' = [job EXCEPT ![j] = Free]
  /\ UNCHANGED <<sound, files, day, started>>

(* The process dies; what it wrote stays. *)
Die(j) ==
  /\ job[j] # Free
  /\ job' = [job EXCEPT ![j] = Free]
  /\ UNCHANGED <<sound, files, status, day, started>>

Damage ==
  /\ sound
  /\ sound' = FALSE
  /\ UNCHANGED <<files, status, job, day, started>>

(* The restore runbook: the generation named as the last good one, when its verification *)
(* says so, replaces the database. *)
Restore ==
  /\ ~sound
  /\ status.good \in DOMAIN files /\ files[status.good]
  /\ sound' = TRUE
  /\ UNCHANGED <<files, status, job, day, started>>

(* A backup ends on the day it was started. *)
NextDay ==
  /\ day < LastDay
  /\ \A j \in Jobs : job[j] = Free
  /\ day' = day + 1 /\ started' = 0
  /\ UNCHANGED <<sound, files, status, job>>

Next ==
  \/ \E j \in Jobs : \/ Start(j) \/ Copy(j) \/ Verify(j) \/ ReadStatus(j)
                     \/ Prune(j) \/ WriteStatus(j) \/ Die(j)
  \/ Damage \/ Restore \/ NextDay

Spec == Init /\ [][Next]_vars

(* What the readiness probe reports. *)
status_summary ==
  IF status.success = 0 THEN "missing"
  ELSE IF day - status.success > MaxAge THEN "stale"
  ELSE IF ~status.ok THEN "last_attempt_failed"
  ELSE "ok"

----------------------------------------------------------------------------
(* Every variable has its type; there is a last good generation if there was a success. *)
BackupTypeOK ==
  /\ sound \in BOOLEAN
  /\ DOMAIN files \subseteq 1..(PerDay * LastDay) /\ \A n \in DOMAIN files : files[n] \in BOOLEAN
  /\ status.ok \in BOOLEAN /\ status.success \in 0..LastDay
  /\ (status.success = 0) = (status.good = Nothing)
  /\ \A j \in Jobs : job[j].at \in {"free", "copying", "verifying", "reading", "pruning", "recording"}
  /\ day \in 1..LastDay /\ started \in 0..PerDay

(* When the probe does not complain, the file it names is there and can be restored - whatever *)
(* jobs ran at once, died half way or failed (FR-150).                                         *)
ReadyMeansRestorable ==
  status_summary = "ok" => status.good \in DOMAIN files /\ files[status.good]

(* The restore runbook: "Choose the newest generation named `last_good_file` in               *)
(* `backup_status.json`" (docs/14-deployment-architecture.md:86).  Violated: generations are   *)
(* pruned by age alone, so Keep failures in a row remove the last good one, and the record     *)
(* goes on naming it.                                                                          *)
LastGoodIsThere ==
  status.good # Nothing => status.good \in DOMAIN files

(* The record names "the time of the last *verified* success"                                  *)
(* (docs/14-deployment-architecture.md:76).  Violated by two jobs at once: one that fails       *)
(* writes back what it read before the other one recorded its success.                          *)
SuccessIsNotForgotten ==
  [][status'.success >= status.success]_vars
=============================================================================
