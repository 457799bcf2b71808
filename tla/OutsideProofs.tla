---------------------------- MODULE OutsideProofs -----------------------------
(***************************************************************************)
(* Theorems about what stands around the work, for every number of         *)
(* requests, jobs, people, browsers and codes.  Each part has an inductive *)
(* invariant of its own, or needs none; a step of another part leaves it   *)
(* alone.                                                                  *)
(***************************************************************************)
EXTENDS Outside, FiniteSetTheorems, TLAPS

-----------------------------------------------------------------------------
(* The transactions.  Who writes holds the lock and has read what is       *)
(* committed; who reads has shown nothing but his snapshot.                *)

Writing(r) == req[r].at = "writing"

Places == {"idle", "arrived", "reading", "writing", "recorded", "authenticated",
           "done", "failed", "refused"}

Request == [kind : {"write", "read", "token"}, at : Places, value : Nat, shown : SUBSET Nat]

TransactingInv ==
  /\ stored \in Nat
  /\ req \in [Requests -> Request]
  /\ \A r \in Requests :
       /\ Writing(r) => lock = r /\ req[r].value = stored
       /\ req[r].at = "arrived" => req[r].shown = {}
       /\ req[r].shown \subseteq {req[r].value}

LEMMA TransactingBegins == Transacting!Init => TransactingInv
BY DEF Transacting!Init, Transacting!Idle, TransactingInv, Request, Places, Writing

\* A step of one request: what the others have and hold stays.
LEMMA TransactingStep ==
  ASSUME TransactingInv, Transacting!Next
  PROVE  TransactingInv'
<1> SUFFICES ASSUME NEW r \in Requests,
               \/ Transacting!Arrive(r) \/ Transacting!BeginDeferred(r)
               \/ Transacting!BeginImmediate(r) \/ Transacting!GiveUp(r)
               \/ Transacting!Read(r) \/ Transacting!RecordUse(r)
               \/ Transacting!Finish(r) \/ Transacting!Answer(r) \/ Transacting!Leave(r)
             PROVE  TransactingInv'
  BY DEF Transacting!Next
<1> USE TransactingAssumption DEF TransactingAssumption, Transacting!KindsAssumption
<1>1. CASE Transacting!Arrive(r)
  BY <1>1 DEF TransactingInv, Request, Places, Writing, Transacting!Arrive, Transacting!At
<1>2. CASE Transacting!BeginDeferred(r)
  <2>1. PICK at \in {"authenticated", "reading"} :
          req' = [req EXCEPT ![r].at = at, ![r].value = stored, ![r].shown = {}]
    BY <1>2 DEF Transacting!BeginDeferred
  <2> at \in Places /\ stored \in Nat /\ req \in [Requests -> Request]
    BY DEF Places, TransactingInv
  <2>2. /\ req' \in [Requests -> Request]
        /\ req'[r].at = at /\ req'[r].value = stored /\ req'[r].shown = {}
        /\ \A q \in Requests \ {r} : req'[q] = req[q]
    BY ONLY <2>1, at \in Places, r \in Requests, stored \in Nat, req \in [Requests -> Request]
       DEF Request
  <2>3. req[r].at # "writing" /\ UNCHANGED <<stored, lock>>
    BY <1>2 DEF Transacting!BeginDeferred, Transacting!At
  <2> QED BY <2>2, <2>3 DEF TransactingInv, Writing
<1>3. CASE Transacting!BeginImmediate(r)
  <2>1. /\ req' = [req EXCEPT ![r].at = "writing", ![r].value = stored]
        /\ lock \notin Requests /\ lock' = r /\ stored' = stored
        /\ req[r].at = "arrived"
    BY <1>3 DEF Transacting!BeginImmediate, Transacting!At, Transacting!NoHolder
  <2> "writing" \in Places /\ stored \in Nat /\ req \in [Requests -> Request]
    BY DEF Places, TransactingInv
  <2>2. /\ req' \in [Requests -> Request]
        /\ req'[r].at = "writing" /\ req'[r].value = stored /\ req'[r].shown = req[r].shown
        /\ \A q \in Requests \ {r} : req'[q] = req[q]
    BY ONLY <2>1, "writing" \in Places, r \in Requests, stored \in Nat,
            req \in [Requests -> Request] DEF Request
  <2> QED BY <2>1, <2>2 DEF TransactingInv, Writing
<1>4. CASE Transacting!GiveUp(r)
  BY <1>4 DEF TransactingInv, Request, Places, Writing, Transacting!GiveUp, Transacting!At
<1>5. CASE Transacting!Read(r)
  BY <1>5 DEF TransactingInv, Request, Places, Writing, Transacting!Read, Transacting!At
<1>6. CASE Transacting!RecordUse(r)
  BY <1>6 DEF TransactingInv, Request, Places, Writing, Transacting!RecordUse, Transacting!At,
              Transacting!NoHolder
<1>7. CASE Transacting!Commit(r)
  BY <1>7 DEF TransactingInv, Request, Places, Writing, Transacting!Commit, Transacting!At
<1>8. CASE Transacting!Rollback(r)
  BY <1>8 DEF TransactingInv, Request, Places, Writing, Transacting!Rollback, Transacting!At
<1>9. CASE Transacting!Answer(r)
  BY <1>9 DEF TransactingInv, Request, Places, Writing, Transacting!Answer, Transacting!At
<1>10. CASE Transacting!Leave(r)
  BY <1>10 DEF TransactingInv, Request, Places, Writing, Transacting!Leave, Transacting!At, Transacting!Idle
<1> QED BY <1>1, <1>2, <1>3, <1>4, <1>5, <1>6, <1>7, <1>8, <1>9, <1>10
        DEF Transacting!Finish

\* NothingIsLost: a commit stores the number after the one before it, and what a request
\* shows comes from one state of the database, however requests interleave
\* (app/__init__.py, db_modes.py).
THEOREM OutsideNothingIsLost == OutsideSpec => NothingIsLost
<1>1. OutsideInit => TransactingInv
  BY TransactingBegins DEF OutsideInit
<1>2. [OutsideNext]_outside => [Transacting!Next]_transacting
  BY DEF OutsideNext, Only, outside
<1>3. TransactingInv /\ [Transacting!Next]_transacting => TransactingInv'
  BY TransactingStep DEF transacting, TransactingInv, Writing
<1>4. TransactingInv => Transacting!ReadsAgree
  <2> SUFFICES ASSUME TransactingInv, NEW r \in Requests
               PROVE  Cardinality(req[r].shown) <= 1
    BY DEF Transacting!ReadsAgree, Transacting!Cardinality, Cardinality
  <2>1. req[r].shown = {} \/ req[r].shown = {req[r].value}
    BY DEF TransactingInv
  <2>2. Cardinality({}) = 0 /\ Cardinality({req[r].value}) = 1
    BY FS_EmptySet, FS_Singleton
  <2> QED BY <2>1, <2>2
<1>5. TransactingInv /\ [Transacting!Next]_transacting =>
        [/\ stored' # stored => stored' = stored + 1
         /\ \A r \in Requests :
              req[r].at = "writing" /\ req'[r].at \in {"recorded", "done"} =>
                stored' = stored + 1]_transacting
  <2> SUFFICES ASSUME TransactingInv, NEW r \in Requests,
                 \/ Transacting!Arrive(r) \/ Transacting!BeginDeferred(r)
                 \/ Transacting!BeginImmediate(r) \/ Transacting!GiveUp(r)
                 \/ Transacting!Read(r) \/ Transacting!RecordUse(r)
                 \/ Transacting!Finish(r) \/ Transacting!Answer(r) \/ Transacting!Leave(r)
               PROVE  /\ stored' # stored => stored' = stored + 1
                      /\ \A q \in Requests :
                           req[q].at = "writing" /\ req'[q].at \in {"recorded", "done"} =>
                             stored' = stored + 1
    BY DEF Transacting!Next, transacting
  <2>1. CASE Transacting!Commit(r)
    BY <2>1 DEF TransactingInv, Request, Places, Writing, Transacting!Commit, Transacting!At
  <2>2. CASE ~Transacting!Commit(r)
    <3>1. /\ stored' = stored
          /\ \A q \in Requests \ {r} : req'[q] = req[q]
          /\ req[r].at = "writing" => req'[r].at \notin {"recorded", "done"}
      BY <2>2 DEF TransactingInv, Request, Places, Transacting!Arrive, Transacting!BeginDeferred,
           Transacting!BeginImmediate, Transacting!GiveUp, Transacting!Read,
           Transacting!RecordUse, Transacting!Finish, Transacting!Rollback,
           Transacting!Answer, Transacting!Leave, Transacting!Idle, Transacting!At
    <3> QED BY <3>1
  <2> QED BY <2>1, <2>2
<1> QED BY <1>1, <1>2, <1>3, <1>4, <1>5, PTL
        DEF OutsideSpec, NothingIsLost, Transacting!NothingIsLost, Transacting!vars, transacting

\* What a transaction works with is at most what can be stored, and who holds the lock writes.
TransactionsBounded ==
  /\ stored \in 0 .. MaxStored
  /\ lock \in Requests \union {Transacting!NoHolder}
  /\ \A r \in Requests :
       /\ lock = r => Writing(r)
       /\ req[r].value \in 0 .. MaxStored
       /\ req[r].shown \subseteq 0 .. MaxStored

LEMMA TransactionsBoundedStep ==
  ASSUME TransactingInv, TransactionsBounded, Transacting!Next
  PROVE  TransactionsBounded'
<1> SUFFICES ASSUME NEW r \in Requests,
               \/ Transacting!Arrive(r) \/ Transacting!BeginDeferred(r)
               \/ Transacting!BeginImmediate(r) \/ Transacting!GiveUp(r)
               \/ Transacting!Read(r) \/ Transacting!RecordUse(r)
               \/ Transacting!Finish(r) \/ Transacting!Answer(r) \/ Transacting!Leave(r)
             PROVE  TransactionsBounded'
  BY DEF Transacting!Next
<1> USE TransactingAssumption
    DEF TransactingAssumption, Transacting!KindsAssumption, TransactionsBounded, Writing
<1>0. req \in [Requests -> Request] /\ stored \in Nat
  BY DEF TransactingInv
<1>1. CASE Transacting!Arrive(r)
  BY <1>0, <1>1 DEF Transacting!Arrive, Transacting!At
<1>2. CASE Transacting!BeginDeferred(r)
  BY <1>0, <1>2 DEF Transacting!BeginDeferred, Transacting!At, Request
<1>3. CASE Transacting!BeginImmediate(r)
  BY <1>0, <1>3 DEF Transacting!BeginImmediate, Transacting!At, Request
<1>4. CASE Transacting!GiveUp(r)
  BY <1>0, <1>4 DEF Transacting!GiveUp, Transacting!At, Request
<1>5. CASE Transacting!Read(r)
  BY <1>0, <1>5 DEF Transacting!Read, Transacting!At, Request
<1>6. CASE Transacting!RecordUse(r)
  BY <1>0, <1>6 DEF Transacting!RecordUse, Transacting!At, Request
<1>7. CASE Transacting!Commit(r)
  <2>1. stored' \in 0 .. MaxStored
    BY <1>0, <1>7 DEF Transacting!Commit, Transacting!At, TransactingInv
  <2> QED BY <1>0, <1>7, <2>1 DEF Transacting!Commit, Transacting!At, Request
<1>8. CASE Transacting!Rollback(r)
  BY <1>0, <1>8 DEF Transacting!Rollback, Transacting!At, Request
<1>9. CASE Transacting!Answer(r)
  BY <1>0, <1>9 DEF Transacting!Answer, Transacting!At, Request
<1>10. CASE Transacting!Leave(r)
  BY <1>0, <1>10 DEF Transacting!Leave, Transacting!At, Transacting!Idle, Request
<1> QED BY <1>1, <1>2, <1>3, <1>4, <1>5, <1>6, <1>7, <1>8, <1>9, <1>10
        DEF Transacting!Finish

LEMMA TransactionsAreTyped ==
  OutsideSpec => [](TransactingInv /\ Transacting!TransactionsTypeOK)
<1>1. OutsideInit => TransactingInv /\ TransactionsBounded
  BY TransactingBegins, TransactingAssumption
  DEF OutsideInit, Transacting!Init, Transacting!Idle, TransactionsBounded, Writing,
      TransactingAssumption, Transacting!KindsAssumption
<1>2. TransactingInv /\ TransactionsBounded /\ [OutsideNext]_outside
        => (TransactingInv /\ TransactionsBounded)'
  <2>1. [OutsideNext]_outside => [Transacting!Next]_transacting
    BY DEF OutsideNext, Only, outside
  <2>2. CASE UNCHANGED transacting
    BY <2>2 DEF transacting, TransactingInv, TransactionsBounded, Writing
  <2> QED BY <2>1, <2>2, TransactingStep, TransactionsBoundedStep
<1>3. TransactingInv /\ TransactionsBounded => Transacting!TransactionsTypeOK
  BY DEF TransactingInv, TransactionsBounded, Transacting!TransactionsTypeOK, Transacting!At,
         Writing, Request, Places
<1> QED BY <1>1, <1>2, <1>3, PTL DEF OutsideSpec

-----------------------------------------------------------------------------
(* The backups.  What a job verified stays sound, since no other job       *)
(* writes its generation; and while the day of its success is not too old, *)
(* fewer than Keep generations are newer, so no job prunes it.             *)

SavedStatus == [ok : BOOLEAN, success : Nat, good : Nat]

Job == [at : {"free", "copying", "verifying", "reading", "pruning", "recording"},
        target : Nat, ok : BOOLEAN, previous : SavedStatus]

Busy(j) == job[j].at # "free"

\* Generation n was begun on day d or later.
BegunBy(n, d) == n > PerDay * (d - 1)

SavingTypeOK ==
  /\ sound \in BOOLEAN
  /\ status \in SavedStatus
  /\ job \in [Jobs -> Job]
  /\ day \in Nat \ {0}
  /\ started \in 0 .. PerDay

SavingInv ==
  /\ SavingTypeOK
  /\ \A n \in DOMAIN backups : n \in Nat /\ 0 < n /\ n < Saving!Stamp /\ backups[n] \in BOOLEAN
  /\ \A j \in Jobs : ~Busy(j) => job[j] = Saving!Free
  /\ \A j \in Jobs : Busy(j) =>
       /\ job[j].target \in DOMAIN backups
       /\ BegunBy(job[j].target, day)
       /\ job[j].at \in {"reading", "pruning", "recording"} /\ job[j].ok => backups[job[j].target]
       /\ \A k \in Jobs \ {j} : Busy(k) => job[k].target # job[j].target
  /\ status.ok =>
       /\ status.success \in 1 .. day
       /\ BegunBy(status.good, status.success) /\ status.good < Saving!Stamp
       /\ \A j \in Jobs : Busy(j) => job[j].target # status.good
       /\ day - status.success <= MaxAge => status.good \in DOMAIN backups /\ backups[status.good]

\* As many generations as fit into the days that count are not more than are kept.
LEMMA DaysThatCount ==
  ASSUME NEW d \in Nat, NEW s \in Nat, s <= d, d - s <= MaxAge
  PROVE  PerDay * d - PerDay * (s - 1) <= Keep
<1> USE SavingAssumption DEF SavingAssumption, Saving!KeepAssumption
<1>1. PerDay * d - PerDay * (s - 1) = PerDay * (d - s + 1)
  OBVIOUS
<1>2. PerDay * (d - s + 1) <= PerDay * (MaxAge + 1)
  OBVIOUS
<1> QED BY <1>1, <1>2

\* A generation of those days is not pruned.
LEMMA RecentIsKept ==
  ASSUME SavingInv, NEW s \in Nat, 0 < s, s <= day, day - s <= MaxAge,
         NEW n \in DOMAIN backups, BegunBy(n, s)
  PROVE  n \notin Saving!Surplus
<1> USE SavingAssumption DEF SavingAssumption, Saving!KeepAssumption
<1> DEFINE newer == {m \in DOMAIN backups : m > n}
           last == PerDay * day
<1>1. day \in Nat /\ started \in 0 .. PerDay /\ PerDay \in Nat
  BY DEF SavingInv, SavingTypeOK
<1>2. last \in Nat /\ Saving!Stamp <= last + 1
  BY <1>1 DEF Saving!Stamp
<1>3. n \in Nat /\ n <= last /\ newer \subseteq (n + 1) .. last
  BY <1>1, <1>2 DEF SavingInv, Saving!Stamp
<1>4. PerDay * day - PerDay * (s - 1) <= Keep
  BY <1>1, DaysThatCount
<1>5. PerDay * (s - 1) \in Int /\ n > PerDay * (s - 1)
  BY <1>1 DEF BegunBy
<1>6. last - n < Keep
  BY <1>1, <1>2, <1>3, <1>4, <1>5
<1> HIDE DEF newer, last
<1>7. /\ IsFiniteSet((n + 1) .. last)
      /\ Cardinality((n + 1) .. last) <= last - n
  <2>1. n + 1 \in Int /\ last \in Int
    BY <1>2, <1>3
  <2>2. /\ IsFiniteSet((n + 1) .. last)
        /\ Cardinality((n + 1) .. last) = IF n + 1 > last THEN 0 ELSE last - (n + 1) + 1
    BY ONLY <2>1, FS_Interval
  <2> QED BY <1>2, <1>3, <2>2
<1>8. Cardinality(newer) \in Nat /\ Cardinality(newer) <= last - n
  <2>1. newer \in SUBSET ((n + 1) .. last)
    BY <1>3
  <2>2. IsFiniteSet(newer) /\ Cardinality(newer) <= Cardinality((n + 1) .. last)
    BY ONLY <1>7, <2>1, FS_Subset
  <2>3. Cardinality(newer) \in Nat /\ Cardinality((n + 1) .. last) \in Nat
    BY ONLY <1>7, <2>2, FS_CardinalityType
  <2> QED BY <1>2, <1>3, <1>7, <2>2, <2>3
<1>9. ~(Cardinality(newer) >= Keep)
  BY <1>2, <1>3, <1>6, <1>8
<1> QED BY <1>9 DEF Saving!Surplus, Saving!Cardinality, Cardinality, newer

LEMMA SavingBegins == Saving!Init => SavingInv
BY SavingAssumption
DEF SavingAssumption, Saving!KeepAssumption, Saving!Init, Saving!Free, Saving!NoStatus,
    Saving!Nothing, SavingInv, SavingTypeOK, SavedStatus, Job, Busy

\* Generations that count: those of today, and the one the record names while it is young.
Counts(n) ==
  \/ BegunBy(n, day)
  \/ status.ok /\ day - status.success <= MaxAge /\ n = status.good

\* A job that is at work moves on or ends.  It may write its own generation and prune such as
\* do not count.
LEMMA OneJobMoves ==
  ASSUME SavingInv, NEW j \in Jobs, Busy(j), NEW r \in Job, job' = [job EXCEPT ![j] = r],
         UNCHANGED <<sound, status, day, started>>,
         DOMAIN backups' \subseteq DOMAIN backups,
         \A n \in DOMAIN backups' : backups'[n] \in BOOLEAN,
         \A n \in DOMAIN backups : Counts(n) =>
           n \in DOMAIN backups' /\ (n # job[j].target => backups'[n] = backups[n]),
         r.at = "free" => r = Saving!Free,
         r.at # "free" =>
           /\ r.target = job[j].target
           /\ r.at \in {"reading", "pruning", "recording"} /\ r.ok => backups'[r.target]
  PROVE  SavingInv'
<1>1. Saving!Stamp' = Saving!Stamp
  BY DEF Saving!Stamp
<1>2. SavingTypeOK'
  BY DEF SavingInv, SavingTypeOK
<1>3. job'[j] = r /\ \A k \in Jobs \ {j} : job'[k] = job[k]
  BY DEF SavingInv, SavingTypeOK
<1>4. \A k \in Jobs : Busy(k)' => Busy(k) /\ job'[k].target = job[k].target
  BY <1>3 DEF Busy
<1>5. ASSUME NEW k \in Jobs, Busy(k)'
      PROVE  /\ job'[k].target \in DOMAIN backups'
             /\ BegunBy(job'[k].target, day)
             /\ job'[k].at \in {"reading", "pruning", "recording"} /\ job'[k].ok =>
                  backups'[job'[k].target]
             /\ \A l \in Jobs \ {k} : Busy(l)' => job'[l].target # job'[k].target
  <2>1. job[k].target \in DOMAIN backups /\ BegunBy(job[k].target, day)
    BY <1>4, <1>5 DEF SavingInv
  <2>2. job'[k].target \in DOMAIN backups' /\ BegunBy(job'[k].target, day)
    BY <1>4, <1>5, <2>1 DEF Counts
  <2>3. \A l \in Jobs \ {k} : Busy(l)' => job'[l].target # job'[k].target
    BY <1>4, <1>5 DEF SavingInv
  <2>4. job'[k].at \in {"reading", "pruning", "recording"} /\ job'[k].ok =>
          backups'[job'[k].target]
    <3>1. CASE k = j
      BY <1>3, <1>5, <3>1 DEF Busy
    <3>2. CASE k # j
      <4>1. job'[k] = job[k] /\ job[k].target # job[j].target
        BY <1>3, <1>4, <1>5, <3>2 DEF SavingInv
      <4>2. backups'[job[k].target] = backups[job[k].target]
        BY <2>1, <4>1 DEF Counts
      <4> QED BY <1>4, <1>5, <4>1, <4>2 DEF SavingInv
    <3> QED BY <3>1, <3>2
  <2> QED BY <2>2, <2>3, <2>4
<1>6. ASSUME status.ok
      PROVE  /\ status.success \in 1 .. day
             /\ BegunBy(status.good, status.success) /\ status.good < Saving!Stamp
             /\ \A k \in Jobs : Busy(k)' => job'[k].target # status.good
             /\ day - status.success <= MaxAge =>
                  status.good \in DOMAIN backups' /\ backups'[status.good]
  <2>1. day - status.success <= MaxAge =>
          /\ status.good \in DOMAIN backups /\ backups[status.good]
          /\ status.good # job[j].target
    BY <1>6 DEF SavingInv
  <2> QED BY <1>4, <1>6, <2>1 DEF SavingInv, Counts
<1>7. \A k \in Jobs : ~Busy(k)' => job'[k] = Saving!Free
  BY <1>3 DEF SavingInv, Busy
<1>8. \A n \in DOMAIN backups' :
        n \in Nat /\ 0 < n /\ n < Saving!Stamp /\ backups'[n] \in BOOLEAN
  BY DEF SavingInv
<1> QED BY <1>1, <1>2, <1>5, <1>6, <1>7, <1>8 DEF SavingInv, BegunBy

\* Job j begins.
LEMMA StartKeeps ==
  ASSUME SavingInv, NEW j \in Jobs, Saving!Start(j)
  PROVE  SavingInv'
<1> DEFINE r == [Saving!Free EXCEPT !.at = "copying", !.target = Saving!Stamp]
<1>1. /\ PerDay \in Nat /\ day \in Nat \ {0} /\ started \in Nat /\ started < PerDay
      /\ started' = started + 1 /\ UNCHANGED <<sound, status, day>>
  BY SavingAssumption DEF SavingAssumption, Saving!KeepAssumption, Saving!Start, SavingInv, SavingTypeOK
<1>2. Saving!Stamp \in Nat /\ Saving!Stamp > PerDay * (day - 1) /\ Saving!Stamp' = Saving!Stamp + 1
      /\ Saving!Stamp > 0
  BY <1>1 DEF Saving!Stamp
<1>3. job' = [job EXCEPT ![j] = r]
  BY DEF Saving!Start
<1>4. r \in Job
  BY <1>2 DEF Job, SavedStatus, Saving!Free, Saving!NoStatus, Saving!Nothing
<1>5. r.at = "copying" /\ r.target = Saving!Stamp
  BY DEF Saving!Free
<1> HIDE DEF r
<1>6. job'[j] = r /\ (\A k \in Jobs \ {j} : job'[k] = job[k]) /\ job' \in [Jobs -> Job]
  BY <1>3, <1>4 DEF SavingInv, SavingTypeOK
<1>7. /\ DOMAIN backups' = DOMAIN backups \cup {Saving!Stamp}
      /\ \A n \in DOMAIN backups : backups'[n] = backups[n]
      /\ backups'[Saving!Stamp] = FALSE
  <2>1. backups' = [n \in DOMAIN backups \cup {Saving!Stamp} |->
                      IF n = Saving!Stamp THEN FALSE ELSE backups[n]]
    BY DEF Saving!Start
  <2>2. Saving!Stamp \notin DOMAIN backups
    BY <1>2 DEF SavingInv
  <2> QED BY <2>1, <2>2
<1>8. \A n \in DOMAIN backups : n \in Nat /\ 0 < n /\ n < Saving!Stamp /\ backups[n] \in BOOLEAN
  BY DEF SavingInv
<1>9. SavingTypeOK'
  BY <1>1, <1>6 DEF SavingInv, SavingTypeOK
<1>10. ASSUME NEW k \in Jobs, Busy(k)'
       PROVE  /\ job'[k].target \in DOMAIN backups'
              /\ BegunBy(job'[k].target, day)
              /\ job'[k].at \in {"reading", "pruning", "recording"} /\ job'[k].ok =>
                   backups'[job'[k].target]
              /\ \A l \in Jobs \ {k} : Busy(l)' => job'[l].target # job'[k].target
  <2>1. \A l \in Jobs \ {j} : Busy(l)' => job'[l].target \in DOMAIN backups /\ job'[l].target # Saving!Stamp
    BY <1>2, <1>6, <1>8 DEF SavingInv, Busy
  <2>2. CASE k = j
    BY <1>2, <1>5, <1>6, <1>7, <2>1, <2>2 DEF BegunBy
  <2>3. CASE k # j
    BY <1>5, <1>6, <1>7, <1>10, <2>1, <2>3 DEF SavingInv, Busy
  <2> QED BY <2>2, <2>3
<1>11. ASSUME status.ok
       PROVE  /\ status.success \in 1 .. day
              /\ BegunBy(status.good, status.success) /\ status.good < Saving!Stamp
              /\ \A k \in Jobs : Busy(k)' => job'[k].target # status.good
              /\ day - status.success <= MaxAge =>
                   status.good \in DOMAIN backups' /\ backups'[status.good]
  <2>1. \A k \in Jobs \ {j} : Busy(k)' => job'[k].target # status.good
    BY <1>6, <1>11 DEF SavingInv, Busy
  <2>2. job'[j].target # status.good
    BY <1>2, <1>5, <1>6, <1>11 DEF SavingInv, SavingTypeOK, SavedStatus
  <2> QED BY <1>7, <1>11, <2>1, <2>2 DEF SavingInv
<1>12. \A n \in DOMAIN backups' :
         n \in Nat /\ 0 < n /\ n < Saving!Stamp + 1 /\ backups'[n] \in BOOLEAN
  <2>1. \A n \in DOMAIN backups' : backups'[n] \in BOOLEAN
    <3>1. \A n \in DOMAIN backups : backups'[n] \in BOOLEAN
      BY ONLY <1>7, <1>8
    <3>2. backups'[Saving!Stamp] \in BOOLEAN
      BY ONLY <1>7
    <3> QED BY ONLY <1>7, <3>1, <3>2
  <2>2. \A n \in DOMAIN backups : n \in Nat /\ 0 < n /\ n < Saving!Stamp + 1
    BY ONLY <1>2, <1>8
  <2>3. Saving!Stamp \in Nat /\ 0 < Saving!Stamp /\ Saving!Stamp < Saving!Stamp + 1
    BY ONLY <1>2
  <2>4. DOMAIN backups' = DOMAIN backups \cup {Saving!Stamp}
    BY <1>7
  <2> HIDE <1>7, <1>8
  <2> QED BY ONLY <2>1, <2>2, <2>3, <2>4
<1>13. status.ok => status.good < Saving!Stamp + 1
  <2>1. status.good \in Nat
    BY DEF SavingInv, SavingTypeOK, SavedStatus
  <2> QED BY <1>2, <1>11, <2>1
<1>14. \A k \in Jobs : ~Busy(k)' => job'[k] = Saving!Free
  BY <1>5, <1>6 DEF SavingInv, Busy
<1> QED BY <1>1, <1>2, <1>9, <1>10, <1>11, <1>12, <1>13, <1>14 DEF SavingInv, BegunBy

\* The steps of a job that is at work.
LEMMA JobKeeps ==
  ASSUME SavingInv, NEW j \in Jobs,
         \/ Saving!Copy(j) \/ Saving!Verify(j) \/ Saving!ReadStatus(j)
         \/ Saving!Prune(j) \/ Saving!Die(j)
  PROVE  SavingInv'
<1> DEFINE r == job[j]
<1>1. job \in [Jobs -> Job] /\ r \in Job /\ status \in SavedStatus /\ sound \in BOOLEAN
  BY DEF SavingInv, SavingTypeOK
<1>2. Saving!Free \in Job /\ Saving!Free.at = "free"
  BY DEF Saving!Free, Saving!NoStatus, Saving!Nothing, Job, SavedStatus
<1>3. Busy(j)
  BY <1>2 DEF SavingInv, Busy, Saving!Copy, Saving!Verify, Saving!ReadStatus, Saving!Prune,
              Saving!Die
<1>4. r.target \in DOMAIN backups
  BY <1>3 DEF SavingInv
<1>5. ASSUME NEW at \in {"verifying", "recording"}
      PROVE  LET s == [r EXCEPT !.at = at] IN
             s \in Job /\ s.at = at /\ s.target = r.target /\ s.ok = r.ok
  BY <1>1 DEF Job
<1>6. \A n \in DOMAIN backups : backups[n] \in BOOLEAN
  BY DEF SavingInv
<1>7. CASE Saving!Copy(j)
  <2> DEFINE s == [r EXCEPT !.at = "verifying"]
  <2>1. job' = [job EXCEPT ![j] = s] /\ UNCHANGED <<sound, status, day, started>>
        /\ backups' = [backups EXCEPT ![r.target] = sound]
    BY <1>1, <1>4, <1>7 DEF Saving!Copy, Saving!Step
  <2>2. s \in Job /\ s.at = "verifying" /\ s.target = r.target
    BY <1>5
  <2> HIDE DEF s
  <2>3. /\ DOMAIN backups' = DOMAIN backups
        /\ \A n \in DOMAIN backups' : backups'[n] \in BOOLEAN
        /\ \A n \in DOMAIN backups : n # r.target => backups'[n] = backups[n]
    BY <1>1, <1>6, <2>1
  <2> QED BY <1>3, <2>1, <2>2, <2>3, OneJobMoves
<1>8. CASE Saving!Verify(j)
  <2> DEFINE s == [r EXCEPT !.at = "reading", !.ok = backups[r.target]]
  <2>1. job' = [job EXCEPT ![j] = s] /\ UNCHANGED <<sound, backups, status, day, started>>
    BY <1>1, <1>4, <1>8 DEF Saving!Verify, Job
  <2>2. backups[r.target] \in BOOLEAN
    BY <1>4, <1>6
  <2>3. s \in Job /\ s.at = "reading" /\ s.target = r.target /\ s.ok = backups[r.target]
    BY <1>1, <2>2 DEF Job
  <2> HIDE DEF s
  <2> QED BY <1>3, <1>6, <2>1, <2>3, OneJobMoves
<1>9. CASE Saving!ReadStatus(j)
  <2> DEFINE s == [r EXCEPT !.at = "pruning", !.previous = status]
  <2>1. job' = [job EXCEPT ![j] = s] /\ UNCHANGED <<sound, backups, status, day, started>>
        /\ r.at = "reading"
    BY <1>1, <1>9 DEF Saving!ReadStatus, Job
  <2>2. s \in Job /\ s.at = "pruning" /\ s.target = r.target /\ s.ok = r.ok
    BY <1>1 DEF Job
  <2>3. r.ok => backups[r.target]
    BY <1>3, <2>1 DEF SavingInv
  <2> HIDE DEF s
  <2> QED BY <1>3, <1>6, <2>1, <2>2, <2>3, OneJobMoves
<1>10. CASE Saving!Prune(j)
  <2> DEFINE s == [r EXCEPT !.at = "recording"]
  <2>1. job' = [job EXCEPT ![j] = s] /\ UNCHANGED <<sound, status, day, started>>
        /\ backups' = [n \in DOMAIN backups \ Saving!Surplus |-> backups[n]]
        /\ r.at = "pruning"
    BY <1>1, <1>10 DEF Saving!Prune, Saving!Step
  <2>2. s \in Job /\ s.at = "recording" /\ s.target = r.target /\ s.ok = r.ok
    BY <1>5
  <2> HIDE DEF s
  <2>3. /\ DOMAIN backups' = DOMAIN backups \ Saving!Surplus
        /\ \A n \in DOMAIN backups' : backups'[n] = backups[n]
    BY <2>1
  <2>4. ASSUME NEW n \in DOMAIN backups, Counts(n) PROVE n \notin Saving!Surplus
    <3>1. CASE BegunBy(n, day)
      <4>1. day \in Nat /\ 0 < day /\ day <= day /\ day - day <= MaxAge
        BY SavingAssumption
        DEF SavingAssumption, Saving!KeepAssumption, SavingInv, SavingTypeOK
      <4> QED BY <3>1, <4>1, RecentIsKept
    <3>2. CASE status.ok /\ day - status.success <= MaxAge /\ n = status.good
      <4>1. /\ status.success \in Nat /\ 0 < status.success /\ status.success <= day
            /\ BegunBy(n, status.success)
        BY <3>2 DEF SavingInv, SavingTypeOK
      <4> QED BY <3>2, <4>1, RecentIsKept
    <3> QED BY <2>4, <3>1, <3>2 DEF Counts
  <2>5. r.ok => backups[r.target] /\ r.target \in DOMAIN backups'
    <3>1. r.ok => backups[r.target]
      BY <1>3, <2>1 DEF SavingInv
    <3>2. Counts(r.target)
      BY <1>3 DEF SavingInv, Counts
    <3> QED BY <1>4, <2>3, <2>4, <3>1, <3>2
  <2> QED BY <1>3, <1>6, <2>1, <2>2, <2>3, <2>4, <2>5, OneJobMoves
<1>11. CASE Saving!Die(j)
  BY <1>2, <1>3, <1>6, <1>11, OneJobMoves DEF Saving!Die
<1> QED BY <1>7, <1>8, <1>9, <1>10, <1>11

\* A job writes the record: of its own success, or that it failed.
LEMMA WriteKeeps ==
  ASSUME SavingInv, NEW j \in Jobs, Saving!WriteStatus(j)
  PROVE  SavingInv'
<1> DEFINE r == job[j]
<1>1. job \in [Jobs -> Job] /\ r \in Job /\ status \in SavedStatus /\ day \in Nat \ {0}
  BY DEF SavingInv, SavingTypeOK
<1>2. Saving!Free \in Job /\ Saving!Free.at = "free"
  BY DEF Saving!Free, Saving!NoStatus, Saving!Nothing, Job, SavedStatus
<1>3. /\ job' = [job EXCEPT ![j] = Saving!Free] /\ status' = Saving!Recorded(j)
      /\ UNCHANGED <<sound, backups, day, started>> /\ r.at = "recording"
  BY DEF Saving!WriteStatus
<1>4. /\ job' \in [Jobs -> Job] /\ ~Busy(j)'
      /\ \A k \in Jobs \ {j} : job'[k] = job[k]
  BY <1>1, <1>2, <1>3 DEF Busy
<1>5. /\ r.target \in DOMAIN backups /\ r.target \in Nat /\ r.target < Saving!Stamp
      /\ BegunBy(r.target, day) /\ (r.ok => backups[r.target])
      /\ \A k \in Jobs \ {j} : Busy(k) => job[k].target # r.target
  BY <1>3 DEF SavingInv, Busy
<1>6. /\ status' \in SavedStatus
      /\ status'.ok => r.ok /\ status'.success = day /\ status'.good = r.target
  <2>1. CASE r.ok
    BY <1>1, <1>3, <1>5, <2>1 DEF Saving!Recorded, SavedStatus
  <2>2. CASE ~r.ok
    <3>1. r.previous \in SavedStatus
      BY <1>1 DEF Job
    <3>2. status' = [r.previous EXCEPT !.ok = FALSE]
      BY <1>3, <2>2 DEF Saving!Recorded
    <3> QED BY ONLY <3>1, <3>2 DEF SavedStatus
  <2> QED BY <2>1, <2>2
<1>7. Saving!Stamp' = Saving!Stamp
  BY <1>3 DEF Saving!Stamp
<1>8. \A k \in Jobs : Busy(k)' => k # j /\ Busy(k) /\ job'[k] = job[k]
  BY <1>4 DEF Busy
<1>9. status'.ok =>
        /\ status'.success \in 1 .. day
        /\ BegunBy(status'.good, status'.success) /\ status'.good < Saving!Stamp
        /\ \A k \in Jobs : Busy(k)' => job'[k].target # status'.good
        /\ day - status'.success <= MaxAge =>
             status'.good \in DOMAIN backups /\ backups[status'.good]
  BY <1>1, <1>5, <1>6, <1>8
<1>10. SavingTypeOK'
  BY <1>1, <1>3, <1>4, <1>6 DEF SavingInv, SavingTypeOK
<1>11. \A k \in Jobs : Busy(k)' =>
         /\ job'[k].target \in DOMAIN backups
         /\ BegunBy(job'[k].target, day)
         /\ job'[k].at \in {"reading", "pruning", "recording"} /\ job'[k].ok =>
              backups[job'[k].target]
         /\ \A l \in Jobs \ {k} : Busy(l)' => job'[l].target # job'[k].target
  BY <1>8 DEF SavingInv
<1>12. \A k \in Jobs : ~Busy(k)' => job'[k] = Saving!Free
  BY <1>1, <1>3, <1>4 DEF SavingInv, Busy
<1> QED BY <1>3, <1>7, <1>9, <1>10, <1>11, <1>12 DEF SavingInv, BegunBy

\* The night passes: no job is at work, and the stamps of the new day are higher.
LEMMA NightKeeps ==
  ASSUME SavingInv, Saving!NextDay
  PROVE  SavingInv'
<1>1. /\ PerDay \in Nat /\ day \in Nat \ {0} /\ started \in 0 .. PerDay
      /\ day' = day + 1 /\ started' = 0 /\ UNCHANGED <<sound, backups, status, job>>
  BY SavingAssumption
  DEF SavingAssumption, Saving!KeepAssumption, Saving!NextDay, SavingInv, SavingTypeOK
<1>2. \A j \in Jobs : ~Busy(j) /\ ~Busy(j)'
  BY <1>1 DEF Saving!NextDay, Saving!Free, Busy
<1>3. Saving!Stamp \in Nat /\ Saving!Stamp' \in Nat /\ Saving!Stamp <= Saving!Stamp'
  BY <1>1 DEF Saving!Stamp
<1>4. SavingTypeOK'
  BY <1>1 DEF SavingInv, SavingTypeOK
<1>5. \A n \in DOMAIN backups :
        n \in Nat /\ 0 < n /\ n < Saving!Stamp' /\ backups[n] \in BOOLEAN
  BY <1>3 DEF SavingInv
<1>6. status.ok =>
        /\ status.success \in 1 .. day'
        /\ BegunBy(status.good, status.success) /\ status.good < Saving!Stamp'
        /\ day' - status.success <= MaxAge =>
             status.good \in DOMAIN backups /\ backups[status.good]
  <2> SUFFICES ASSUME status.ok
               PROVE  /\ status.success \in 1 .. day'
                      /\ BegunBy(status.good, status.success) /\ status.good < Saving!Stamp'
                      /\ day' - status.success <= MaxAge => day - status.success <= MaxAge
    BY DEF SavingInv
  <2>1. status.good \in Nat /\ status.success \in 1 .. day /\ MaxAge \in Nat
        /\ BegunBy(status.good, status.success) /\ status.good < Saving!Stamp
    BY SavingAssumption
    DEF SavingAssumption, Saving!KeepAssumption, SavingInv, SavingTypeOK, SavedStatus
  <2> QED BY <1>1, <1>3, <2>1
<1>7. \A j \in Jobs : job'[j] = Saving!Free
  BY <1>1 DEF Saving!NextDay
<1> QED BY <1>1, <1>2, <1>4, <1>5, <1>6, <1>7 DEF SavingInv, BegunBy

LEMMA SavingStep ==
  ASSUME SavingInv, [Saving!Next]_saving
  PROVE  SavingInv'
<1>1. CASE UNCHANGED saving
  BY <1>1 DEF saving, SavingInv, SavingTypeOK, Busy, BegunBy, Saving!Stamp
<1>2. CASE Saving!Damage \/ Saving!Restore
  <2>1. sound' \in BOOLEAN /\ UNCHANGED <<backups, status, job, day, started>>
    BY <1>2 DEF Saving!Damage, Saving!Restore
  <2>2. Saving!Stamp' = Saving!Stamp /\ \A j \in Jobs : Busy(j)' <=> Busy(j)
    BY <2>1 DEF Saving!Stamp, Busy
  <2>3. SavingTypeOK'
    BY <2>1 DEF SavingInv, SavingTypeOK
  <2> QED BY <2>1, <2>2, <2>3 DEF SavingInv, BegunBy
<1> QED BY <1>1, <1>2, StartKeeps, JobKeeps, WriteKeeps, NightKeeps DEF Saving!Next

\* ReadyMeansRestorable: while the readiness probe reports no trouble with the backups, the
\* generation it names is on disk and sound: no job prunes it, and none writes over it, however
\* many run at once, die half way or fail (services/backup_service.py).
THEOREM OutsideReadyMeansRestorable == OutsideSpec => []ReadyMeansRestorable
<1>1. OutsideInit => SavingInv
  BY SavingBegins DEF OutsideInit
<1>2. SavingInv /\ [OutsideNext]_outside => SavingInv'
  <2>1. [OutsideNext]_outside => [Saving!Next]_saving
    BY DEF OutsideNext, Only, outside
  <2> QED BY <2>1, SavingStep
<1>3. SavingInv => ReadyMeansRestorable
  BY SavingAssumption
  DEF SavingAssumption, Saving!KeepAssumption, SavingInv, SavingTypeOK, SavedStatus,
      ReadyMeansRestorable, Saving!ReadyMeansRestorable, Saving!status_summary
<1> QED BY <1>1, <1>2, <1>3, PTL DEF OutsideSpec

\* A day is one of the days, and a status names a generation exactly if it names a day.
Dates(s) == s.success \in 0 .. LastDay /\ (s.success = 0 <=> s.good = 0)

SavedTypes ==
  /\ day <= LastDay
  /\ Dates(status)
  /\ \A j \in Jobs : Dates(job[j].previous)

\* The generations of the days up to d are numbered up to PerDay * d.
LEMMA DaysAreBounded ==
  ASSUME NEW d \in Nat, d <= LastDay
  PROVE  PerDay * d <= PerDay * LastDay
BY SavingAssumption DEF SavingAssumption, Saving!KeepAssumption

LEMMA SavedTypesStep ==
  ASSUME SavingInv, SavedTypes, Saving!Next
  PROVE  SavedTypes'
<1> USE SavingAssumption DEF SavingAssumption, Saving!KeepAssumption
<1>0. /\ day \in Nat \ {0} /\ status \in SavedStatus /\ job \in [Jobs -> Job]
      /\ day <= LastDay /\ Dates(status) /\ \A j \in Jobs : Dates(job[j].previous)
  BY DEF SavingInv, SavingTypeOK, SavedTypes
<1>1. Dates(Saving!NoStatus) /\ Saving!Free.previous = Saving!NoStatus
  BY DEF Dates, Saving!NoStatus, Saving!Nothing, Saving!Free
<1>2. ASSUME NEW j \in Jobs, \/ Saving!Start(j) \/ Saving!Copy(j) \/ Saving!Verify(j)
                             \/ Saving!Prune(j) \/ Saving!Die(j)
      PROVE  SavedTypes'
  <2>1. UNCHANGED <<status, day>>
    BY <1>2
    DEF Saving!Start, Saving!Copy, Saving!Verify, Saving!Prune, Saving!Die, Saving!Step
  <2>2. /\ job'[j].previous \in {job[j].previous, Saving!NoStatus}
        /\ \A k \in Jobs \ {j} : job'[k] = job[k]
    <3>1. CASE Saving!Start(j)
      BY <1>0, <1>1, <3>1 DEF Saving!Start, Saving!Free
    <3>2. CASE Saving!Copy(j) \/ Saving!Prune(j)
      BY <1>0, <3>2 DEF Saving!Copy, Saving!Prune, Saving!Step, Job
    <3>3. CASE Saving!Verify(j)
      BY <1>0, <1>1, <3>3 DEF Saving!Verify, Job
    <3>4. CASE Saving!Die(j)
      BY <1>0, <1>1, <3>4 DEF Saving!Die
    <3> QED BY <1>2, <3>1, <3>2, <3>3, <3>4
  <2> QED BY <1>0, <1>1, <2>1, <2>2 DEF SavedTypes
<1>3. ASSUME NEW j \in Jobs, Saving!ReadStatus(j) PROVE SavedTypes'
  <2>1. \A k \in Jobs : Dates(job'[k].previous)
    BY <1>0, <1>3 DEF Saving!ReadStatus, Job
  <2> QED BY <1>0, <1>3, <2>1 DEF SavedTypes, Saving!ReadStatus
<1>4. ASSUME NEW j \in Jobs, Saving!WriteStatus(j) PROVE SavedTypes'
  <2>1. Dates(status')
    <3>1. CASE job[j].ok
      <4>1. job[j].target # 0
        BY <1>4 DEF SavingInv, Busy, Saving!WriteStatus
      <4> QED BY <1>0, <1>4, <3>1, <4>1 DEF Saving!WriteStatus, Saving!Recorded, Dates
    <3>2. CASE ~job[j].ok
      <4>1. status' = [job[j].previous EXCEPT !.ok = FALSE] /\ job[j].previous \in SavedStatus
        BY <1>0, <1>4, <3>2 DEF Saving!WriteStatus, Saving!Recorded, Job
      <4> QED BY <1>0, <4>1 DEF Dates, SavedStatus
    <3> QED BY <3>1, <3>2
  <2>2. \A k \in Jobs : Dates(job'[k].previous)
    BY <1>0, <1>1, <1>4 DEF Saving!WriteStatus
  <2> QED BY <1>0, <1>4, <2>1, <2>2 DEF SavedTypes, Saving!WriteStatus
<1>5. ASSUME Saving!Damage \/ Saving!Restore \/ Saving!NextDay PROVE SavedTypes'
  BY <1>0, <1>5 DEF SavedTypes, Saving!Damage, Saving!Restore, Saving!NextDay
<1> QED BY <1>2, <1>3, <1>4, <1>5 DEF Saving!Next

LEMMA BackupsAreTyped == OutsideSpec => []Saving!BackupTypeOK
<1> USE SavingAssumption DEF SavingAssumption, Saving!KeepAssumption
<1>1. OutsideInit => SavingInv /\ SavedTypes
  BY SavingBegins
  DEF OutsideInit, Saving!Init, Saving!Free, Saving!NoStatus, Saving!Nothing, SavedTypes, Dates
<1>2. SavingInv /\ SavedTypes /\ [OutsideNext]_outside => (SavingInv /\ SavedTypes)'
  <2>1. [OutsideNext]_outside => [Saving!Next]_saving
    BY DEF OutsideNext, Only, outside
  <2>2. CASE UNCHANGED saving
    BY <2>2, SavingStep DEF saving, SavedTypes
  <2> QED BY <2>1, <2>2, SavingStep, SavedTypesStep
<1>3. SavingInv /\ SavedTypes => Saving!BackupTypeOK
  <2> SUFFICES ASSUME SavingInv, SavedTypes PROVE Saving!BackupTypeOK
    OBVIOUS
  <2>1. /\ sound \in BOOLEAN /\ status \in SavedStatus /\ job \in [Jobs -> Job]
        /\ day \in Nat \ {0} /\ started \in 0 .. PerDay /\ day <= LastDay /\ Dates(status)
    BY DEF SavingInv, SavingTypeOK, SavedTypes
  <2>2. ASSUME NEW n \in DOMAIN backups
        PROVE  n \in 1 .. (PerDay * LastDay) /\ backups[n] \in BOOLEAN
    <3>1. n \in Nat /\ 0 < n /\ n < PerDay * (day - 1) + started + 1 /\ backups[n] \in BOOLEAN
      BY DEF SavingInv, Saving!Stamp
    <3>2. PerDay * (day - 1) + PerDay = PerDay * day /\ PerDay * day <= PerDay * LastDay
      BY <2>1, DaysAreBounded
    <3>3. PerDay * (day - 1) \in Nat /\ PerDay * LastDay \in Nat
      BY <2>1
    <3> QED BY <2>1, <3>1, <3>2, <3>3
  <2> QED BY <2>1, <2>2 DEF Saving!BackupTypeOK, SavedStatus, Job, Dates, Saving!Nothing
<1> QED BY <1>1, <1>2, <1>3, PTL DEF OutsideSpec

-----------------------------------------------------------------------------
(* Signing in.  A session belongs to a person or to nobody, so every step  *)
(* that compares a password compares that of one account.                  *)

LoginAccount == [active : BOOLEAN, password : Nat, failed : Nat, locked : Nat]

SigningInInv ==
  /\ login \in [Persons -> LoginAccount]
  /\ session \in [Browsers -> [user : Persons \union {Nobody}, password : Nat, idle : Nat,
                               age : Nat, ended : BOOLEAN]]

LEMMA SigningInBegins == SigningIn!Init => SigningInInv
BY DEF SigningIn!Init, SigningIn!NoSession, SigningInInv, LoginAccount

\* What a wrong password makes of an account.
LEMMA FailedAccount ==
  ASSUME NEW a \in LoginAccount
  PROVE  SigningIn!Failed(a) \in LoginAccount
<1> DEFINE locked == IF a.failed + 1 >= Threshold THEN LockTime ELSE a.locked
<1>1. a.failed + 1 \in Nat /\ locked \in Nat
  BY SigningInAssumption DEF SigningInAssumption, SigningIn!SignInAssumption, LoginAccount
<1>2. SigningIn!Failed(a) = [a EXCEPT !.failed = a.failed + 1, !.locked = locked]
  BY DEF SigningIn!Failed
<1> HIDE DEF locked
<1> QED BY ONLY a \in LoginAccount, <1>1, <1>2 DEF LoginAccount

\* The account of whoever signed in is that of a person.
LEMMA ServedIsPerson ==
  ASSUME SigningInInv, NEW b \in Browsers, session[b].user # Nobody
  PROVE  session[b].user \in Persons
BY DEF SigningInInv

LEMMA AccountsStep ==
  ASSUME SigningInInv, SigningIn!Next
  PROVE  /\ login' \in [Persons -> LoginAccount]
         /\ \A p \in Persons : login[p].locked > 0 /\ login'[p].locked > 0 =>
              login'[p].failed \in {login[p].failed, 0}
<1> USE DEF SigningInInv
<1>1. CASE SigningIn!Tick
  <2>1. login' = [p \in Persons |->
           [login[p] EXCEPT !.locked = IF login[p].locked > 0 THEN login[p].locked - 1 ELSE 0]]
    BY <1>1 DEF SigningIn!Tick
  <2>2. \A p \in Persons : login'[p] \in LoginAccount /\ login'[p].failed = login[p].failed
    BY <2>1 DEF LoginAccount
  <2> QED BY <2>1, <2>2
<1>2. CASE UNCHANGED login
  BY <1>2 DEF LoginAccount
<1>3. ASSUME NEW p \in Persons, NEW a \in LoginAccount, login' = [login EXCEPT ![p] = a],
             login[p].locked > 0 /\ a.locked > 0 => a.failed \in {login[p].failed, 0}
      PROVE  /\ login' \in [Persons -> LoginAccount]
             /\ \A q \in Persons : login[q].locked > 0 /\ login'[q].locked > 0 =>
                  login'[q].failed \in {login[q].failed, 0}
  BY <1>3
<1>4. ASSUME NEW p \in Persons, login' = [login EXCEPT ![p].failed = 0]
      PROVE  /\ login' \in [Persons -> LoginAccount]
             /\ \A q \in Persons : login[q].locked > 0 /\ login'[q].locked > 0 =>
                  login'[q].failed \in {login[q].failed, 0}
  BY <1>4 DEF LoginAccount
<1>5. ASSUME NEW p \in Persons, login[p].locked = 0,
             login' = [login EXCEPT ![p] = SigningIn!Failed(login[p])]
      PROVE  /\ login' \in [Persons -> LoginAccount]
             /\ \A q \in Persons : login[q].locked > 0 /\ login'[q].locked > 0 =>
                  login'[q].failed \in {login[q].failed, 0}
  BY <1>3, <1>5, FailedAccount
<1>6. ASSUME NEW p \in Persons, SigningIn!MistypeLogin(p) \/ SigningIn!ResetPassword(p)
                 \/ SigningIn!Deactivate(p) \/ SigningIn!Activate(p)
      PROVE  /\ login' \in [Persons -> LoginAccount]
             /\ \A q \in Persons : login[q].locked > 0 /\ login'[q].locked > 0 =>
                  login'[q].failed \in {login[q].failed, 0}
  <2>1. CASE SigningIn!MistypeLogin(p)
    BY <1>5, <2>1 DEF SigningIn!MistypeLogin, SigningIn!Open
  <2>2. CASE SigningIn!ResetPassword(p)
    <3> DEFINE a == [login[p] EXCEPT !.password = @ + 1, !.failed = 0, !.locked = 0]
    <3>1. login' = [login EXCEPT ![p] = a]
      BY <2>2 DEF SigningIn!ResetPassword
    <3>2. a \in LoginAccount /\ a.locked = 0
      <4>1. login[p] \in LoginAccount
        OBVIOUS
      <4>2. login[p].password + 1 \in Nat
        BY <4>1 DEF LoginAccount
      <4> QED BY ONLY <4>1, <4>2 DEF LoginAccount, a
    <3> HIDE DEF a
    <3> QED BY <1>3, <3>1, <3>2
  <2>3. CASE SigningIn!Deactivate(p) \/ SigningIn!Activate(p)
    <3>1. PICK active \in BOOLEAN : login' = [login EXCEPT ![p].active = active]
      BY <2>3 DEF SigningIn!Deactivate, SigningIn!Activate
    <3>2. [login[p] EXCEPT !.active = active] \in LoginAccount
      <4>1. login[p] \in LoginAccount
        OBVIOUS
      <4> QED BY ONLY <4>1, active \in BOOLEAN DEF LoginAccount
    <3> QED BY <3>1, <3>2 DEF LoginAccount
  <2> QED BY <1>6, <2>1, <2>2, <2>3
<1>7. ASSUME NEW p \in Persons, NEW b \in Browsers,
             SigningIn!Login(b, p) \/ SigningIn!WindowsLogin(b, p)
      PROVE  login' = [login EXCEPT ![p].failed = 0]
  BY <1>7 DEF SigningIn!Login, SigningIn!WindowsLogin
<1>8. ASSUME NEW b \in Browsers, SigningIn!StepUp(b) \/ SigningIn!MistypeStepUp(b)
                 \/ SigningIn!ChangePassword(b)
      PROVE  /\ login' \in [Persons -> LoginAccount]
             /\ \A q \in Persons : login[q].locked > 0 /\ login'[q].locked > 0 =>
                  login'[q].failed \in {login[q].failed, 0}
  <2> DEFINE p == session[b].user
  <2>1. p \in Persons
    BY <1>8, ServedIsPerson DEF SigningIn!StepUp, SigningIn!MistypeStepUp,
       SigningIn!ChangePassword, SigningIn!Valid
  <2>2. CASE SigningIn!StepUp(b)
    BY <1>4, <2>1, <2>2 DEF SigningIn!StepUp
  <2>3. CASE SigningIn!MistypeStepUp(b)
    BY <1>5, <2>1, <2>3 DEF SigningIn!MistypeStepUp, SigningIn!Open
  <2>4. CASE SigningIn!ChangePassword(b)
    BY <2>1, <2>4 DEF SigningIn!ChangePassword, LoginAccount
  <2> QED BY <1>8, <2>2, <2>3, <2>4
<1>9. ASSUME \/ \E n \in SigningIn!Names : SigningIn!Refuse(n)
             \/ \E p \in Persons : SigningIn!LoginInVain(p)
             \/ \E b \in Browsers : SigningIn!Request(b) \/ SigningIn!Logout(b)
      PROVE  UNCHANGED login
  BY <1>9 DEF SigningIn!Refuse, SigningIn!LoginInVain, SigningIn!Request, SigningIn!Logout
<1> QED BY <1>1, <1>2, <1>4, <1>6, <1>7, <1>8, <1>9 DEF SigningIn!Next

LEMMA SessionsStep ==
  ASSUME SigningInInv, SigningIn!Next
  PROVE  session' \in [Browsers -> [user : Persons \union {Nobody}, password : Nat, idle : Nat,
                                    age : Nat, ended : BOOLEAN]]
<1> DEFINE Session == [user : Persons \union {Nobody}, password : Nat, idle : Nat, age : Nat,
                       ended : BOOLEAN]
<1> USE DEF SigningInInv
<1>1. SigningIn!NoSession \in Session
  BY DEF SigningIn!NoSession
<1>2. CASE SigningIn!Tick
  <2>1. \A n, bound \in Nat : SigningIn!Older(n, bound) \in Nat
    BY DEF SigningIn!Older
  <2>2. IdleTime \in Nat /\ Lifetime \in Nat
    BY SigningInAssumption DEF SigningInAssumption, SigningIn!SignInAssumption
  <2>3. \A b \in Browsers :
          [session[b] EXCEPT !.idle = SigningIn!Older(@, IdleTime),
                             !.age = SigningIn!Older(@, Lifetime)] \in Session
    <3> SUFFICES ASSUME NEW s \in Session
                 PROVE  [s EXCEPT !.idle = SigningIn!Older(@, IdleTime),
                                  !.age = SigningIn!Older(@, Lifetime)] \in Session
      OBVIOUS
    <3>1. SigningIn!Older(s.idle, IdleTime) \in Nat /\ SigningIn!Older(s.age, Lifetime) \in Nat
      BY <2>1, <2>2
    <3> QED BY ONLY s \in Session, <3>1
  <2>4. session' = [b \in Browsers |->
           IF session[b].user = Nobody THEN SigningIn!NoSession
           ELSE [session[b] EXCEPT !.idle = SigningIn!Older(@, IdleTime),
                                   !.age = SigningIn!Older(@, Lifetime)]]
    BY <1>2 DEF SigningIn!Tick
  <2> QED BY ONLY <1>1, <2>3, <2>4
<1>3. ASSUME NEW p \in Persons, NEW b \in Browsers,
             SigningIn!Login(b, p) \/ SigningIn!WindowsLogin(b, p)
      PROVE  session' \in [Browsers -> Session]
  <2>1. session' = [session EXCEPT ![b] = [user |-> p, password |-> login[p].password,
                      idle |-> 0, age |-> 0, ended |-> FALSE]]
    BY <1>3 DEF SigningIn!Login, SigningIn!WindowsLogin, SigningIn!Established
  <2>2. login[p].password \in Nat
    BY DEF LoginAccount
  <2> QED BY <2>1, <2>2
<1>4. ASSUME NEW p \in Persons, SigningIn!Deactivate(p)
      PROVE  session' \in [Browsers -> Session]
  BY <1>4 DEF SigningIn!Deactivate
<1>5. ASSUME NEW b \in Browsers,
             \/ SigningIn!Request(b) \/ SigningIn!Logout(b) \/ SigningIn!StepUp(b)
             \/ SigningIn!MistypeStepUp(b) \/ SigningIn!ChangePassword(b)
      PROVE  session' \in [Browsers -> Session]
  <2>1. session' = [session EXCEPT ![b] = SigningIn!NoSession]
          \/ session' = [session EXCEPT ![b].idle = 0]
    BY <1>5 DEF SigningIn!Request, SigningIn!Logout, SigningIn!StepUp, SigningIn!MistypeStepUp,
       SigningIn!ChangePassword
  <2> QED BY <1>1, <2>1
<1>6. CASE UNCHANGED session
  BY <1>6
<1>7. ASSUME \/ \E n \in SigningIn!Names : SigningIn!Refuse(n)
             \/ \E p \in Persons : \/ SigningIn!LoginInVain(p) \/ SigningIn!MistypeLogin(p)
                                   \/ SigningIn!ResetPassword(p) \/ SigningIn!Activate(p)
      PROVE  UNCHANGED session
  BY <1>7 DEF SigningIn!Refuse, SigningIn!LoginInVain, SigningIn!MistypeLogin,
     SigningIn!ResetPassword, SigningIn!Activate
<1> QED BY <1>2, <1>3, <1>4, <1>5, <1>6, <1>7 DEF SigningIn!Next

\* LockedIsLocked: while an account is locked no wrong password of it is counted, neither at
\* the sign-in nor at the step-up of a session that is still open: none is compared
\* (services/auth_service.py, routers/auth.py).
THEOREM OutsideLockedIsLocked == OutsideSpec => LockedIsLocked
<1>1. OutsideInit => SigningInInv
  BY SigningInBegins DEF OutsideInit
<1>2. [OutsideNext]_outside => [SigningIn!Next]_signingIn
  BY DEF OutsideNext, Only, outside
<1>3. SigningInInv /\ [SigningIn!Next]_signingIn => SigningInInv'
  BY AccountsStep, SessionsStep DEF signingIn, SigningInInv
<1>4. SigningInInv /\ [SigningIn!Next]_signingIn =>
        [\A p \in Persons : login[p].locked > 0 /\ login'[p].locked > 0 =>
           login'[p].failed \in {login[p].failed, 0}]_signingIn
  BY AccountsStep
<1> QED BY <1>1, <1>2, <1>3, <1>4, PTL
        DEF OutsideSpec, LockedIsLocked, SigningIn!LockedIsLocked, SigningIn!vars, signingIn

\* What is done in a session, and leaves it open, is done with the account as it is.
LEMMA GoingOnIsCurrent ==
  ASSUME SigningInInv, NEW b \in Browsers, SigningIn!GoesOn(b)
  PROVE  /\ login'[session'[b].user].active
         /\ session'[b].password = login'[session'[b].user].password
<1> DEFINE p == session[b].user
           Session == [user : Persons \union {Nobody}, password : Nat, idle : Nat, age : Nat,
                       ended : BOOLEAN]
<1>1. session \in [Browsers -> Session] /\ login \in [Persons -> LoginAccount]
  BY DEF SigningInInv
<1>2. \A s \in Session : [s EXCEPT !.idle = 0].user = s.user /\ [s EXCEPT !.idle = 0].password = s.password
  OBVIOUS
<1>3. session[b] \in Session
  BY <1>1
<1> HIDE DEF Session
<1>4. SigningIn!Valid(session[b]) /\ p \in Persons
  <2>1. CASE SigningIn!Request(b)
    <3>1. session'[b] = IF SigningIn!Valid(session[b]) THEN [session[b] EXCEPT !.idle = 0]
                        ELSE SigningIn!NoSession
      BY <1>1, <2>1 DEF SigningIn!Request
    <3>2. session'[b].user # Nobody
      BY DEF SigningIn!GoesOn
    <3>3. SigningIn!Valid(session[b])
      BY <3>1, <3>2 DEF SigningIn!NoSession
    <3> QED BY <3>3, ServedIsPerson DEF SigningIn!Valid
  <2>2. CASE SigningIn!StepUp(b) \/ SigningIn!MistypeStepUp(b)
    BY <2>2, ServedIsPerson DEF SigningIn!StepUp, SigningIn!MistypeStepUp, SigningIn!Valid
  <2> QED BY <2>1, <2>2 DEF SigningIn!GoesOn
<1>5. session' = [session EXCEPT ![b].idle = 0]
  BY <1>4 DEF SigningIn!GoesOn, SigningIn!Request, SigningIn!StepUp, SigningIn!MistypeStepUp
<1>6. session'[b].user = p /\ session'[b].password = session[b].password
  BY <1>1, <1>2, <1>3, <1>5
<1>7. login[p].active /\ session[b].password = login[p].password
  BY <1>4 DEF SigningIn!Valid
<1> HIDE DEF p
<1>8. login'[p].active = login[p].active /\ login'[p].password = login[p].password
  <2>1. CASE SigningIn!Request(b)
    BY <2>1 DEF SigningIn!Request
  <2>2. CASE SigningIn!StepUp(b)
    <3>1. login' = [login EXCEPT ![p].failed = 0]
      BY <2>2 DEF SigningIn!StepUp, p
    <3> QED BY <1>1, <1>4, <3>1 DEF LoginAccount
  <2>3. CASE SigningIn!MistypeStepUp(b)
    <3>1. login' = [login EXCEPT ![p] = SigningIn!Failed(login[p])]
      BY <2>3 DEF SigningIn!MistypeStepUp, p
    <3>2. \A a \in LoginAccount : /\ SigningIn!Failed(a).active = a.active
                                  /\ SigningIn!Failed(a).password = a.password
      BY DEF SigningIn!Failed, LoginAccount
    <3> QED BY <1>1, <1>4, <3>1, <3>2
  <2> QED BY <2>1, <2>2, <2>3 DEF SigningIn!GoesOn
<1> QED BY <1>6, <1>7, <1>8

\* SessionsAreCurrent: a session that goes on after a request or a step-up is that of an active
\* account whose password is the one of the sign-in, whatever the administrator, the owner in
\* another browser and time did in between (dependencies.get_current_user).
THEOREM OutsideSessionsAreCurrent == OutsideSpec => SessionsAreCurrent
<1>1. OutsideInit => SigningInInv
  BY SigningInBegins DEF OutsideInit
<1>2. [OutsideNext]_outside => [SigningIn!Next]_signingIn
  BY DEF OutsideNext, Only, outside
<1>3. SigningInInv /\ [SigningIn!Next]_signingIn => SigningInInv'
  BY AccountsStep, SessionsStep DEF signingIn, SigningInInv
<1>4. SigningInInv /\ [SigningIn!Next]_signingIn =>
        [\A b \in Browsers : SigningIn!GoesOn(b) =>
           /\ login'[session'[b].user].active
           /\ session'[b].password = login'[session'[b].user].password]_signingIn
  BY GoingOnIsCurrent
<1> QED BY <1>1, <1>2, <1>3, <1>4, PTL
        DEF OutsideSpec, SessionsAreCurrent, SigningIn!SessionsAreCurrent, SigningIn!vars, signingIn

\* An account counts no more failures than there were, and is locked no longer than a lock.
Counted(a, n) ==
  /\ a.password \in 1 .. LastPassword
  /\ a.failed <= n
  /\ a.locked <= LockTime

SignInBounded ==
  /\ mistakes \in 0 .. Mistakes
  /\ \A p \in Persons : Counted(login[p], mistakes)

\* One account moves.
LEMMA OneIsCounted ==
  ASSUME SigningInInv, SignInBounded, NEW p \in Persons, NEW a,
         login' = [login EXCEPT ![p] = a], Counted(a, mistakes'),
         mistakes' \in 0 .. Mistakes, mistakes <= mistakes'
  PROVE  SignInBounded'
<1>1. \A q \in Persons : login[q] \in LoginAccount /\ Counted(login[q], mistakes)
  BY DEF SigningInInv, SignInBounded
<1>2. mistakes \in Nat /\ login \in [Persons -> LoginAccount]
  BY DEF SignInBounded, SigningInInv
<1>3. ASSUME NEW q \in Persons PROVE Counted(login'[q], mistakes')
  <2>1. CASE q = p
    BY <1>2, <2>1
  <2>2. CASE q # p
    <3>1. login'[q] = login[q]
      BY <1>2, <2>2
    <3> QED BY <1>1, <1>2, <3>1 DEF Counted, LoginAccount
  <2> QED BY <2>1, <2>2
<1> QED BY <1>3 DEF SignInBounded

LEMMA SignInBoundedStep ==
  ASSUME SigningInInv, SignInBounded, SigningIn!Next
  PROVE  SignInBounded'
<1>0. /\ mistakes \in 0 .. Mistakes /\ Mistakes \in Nat /\ Threshold \in Nat /\ LockTime \in Nat
      /\ LastPassword \in Nat
      /\ login \in [Persons -> LoginAccount]
      /\ \A p \in Persons : login[p] \in LoginAccount /\ Counted(login[p], mistakes)
  BY SigningInAssumption
  DEF SigningInAssumption, SigningIn!SignInAssumption, SigningInInv, SignInBounded
<1>1. CASE SigningIn!Tick
  <2>1. /\ mistakes' = mistakes
        /\ login' = [p \in Persons |->
             [login[p] EXCEPT !.locked = IF login[p].locked > 0 THEN login[p].locked - 1 ELSE 0]]
    BY <1>1 DEF SigningIn!Tick
  <2>2. ASSUME NEW a \in LoginAccount, Counted(a, mistakes), NEW l \in Nat, l <= LockTime
        PROVE  Counted([a EXCEPT !.locked = l], mistakes)
    BY ONLY <2>2, a \in LoginAccount DEF Counted, LoginAccount
  <2>3. \A p \in Persons : LET l == IF login[p].locked > 0 THEN login[p].locked - 1 ELSE 0
                           IN  l \in Nat /\ l <= LockTime
    BY <1>0 DEF Counted, LoginAccount
  <2> QED BY <1>0, <2>1, <2>2, <2>3 DEF SignInBounded
<1>2. CASE UNCHANGED <<login, mistakes>>
  BY <1>2 DEF SignInBounded
<1>3. ASSUME NEW p \in Persons, login' = [login EXCEPT ![p].failed = 0], mistakes' = mistakes
      PROVE  SignInBounded'
  <2>1. ASSUME NEW a \in LoginAccount, Counted(a, mistakes)
        PROVE  Counted([a EXCEPT !.failed = 0], mistakes)
    BY ONLY <1>0, <2>1, a \in LoginAccount DEF Counted, LoginAccount
  <2> DEFINE a == [login[p] EXCEPT !.failed = 0]
  <2>2. login' = [login EXCEPT ![p] = a] /\ Counted(a, mistakes')
    BY <1>0, <1>3, <2>1
  <2> HIDE DEF a
  <2>3. mistakes' \in 0 .. Mistakes /\ mistakes <= mistakes'
    BY <1>0, <1>3
  <2> QED BY <2>2, <2>3, OneIsCounted
<1>4. ASSUME NEW p \in Persons, login' = [login EXCEPT ![p] = SigningIn!Failed(login[p])],
             mistakes < Mistakes, mistakes' = mistakes + 1
      PROVE  SignInBounded'
  <2>1. ASSUME NEW a \in LoginAccount, Counted(a, mistakes)
        PROVE  Counted(SigningIn!Failed(a), mistakes + 1)
    <3> DEFINE l == IF a.failed + 1 >= Threshold THEN LockTime ELSE a.locked
    <3>1. l <= LockTime /\ a.failed \in Nat
      BY <1>0, <2>1 DEF Counted, LoginAccount
    <3>2. SigningIn!Failed(a) = [a EXCEPT !.failed = a.failed + 1, !.locked = l]
      BY DEF SigningIn!Failed
    <3> HIDE DEF l
    <3>3. /\ SigningIn!Failed(a).failed = a.failed + 1 /\ SigningIn!Failed(a).locked = l
          /\ SigningIn!Failed(a).password = a.password
      BY ONLY <3>2, a \in LoginAccount DEF LoginAccount
    <3> QED BY <1>0, <2>1, <3>1, <3>3 DEF Counted
  <2>2. Counted(SigningIn!Failed(login[p]), mistakes')
    BY <1>0, <1>4, <2>1
  <2>3. mistakes' \in 0 .. Mistakes /\ mistakes <= mistakes'
    BY <1>0, <1>4
  <2> QED BY <1>4, <2>2, <2>3, OneIsCounted
<1>5. ASSUME NEW p \in Persons, SigningIn!MistypeLogin(p) \/ SigningIn!ResetPassword(p)
                 \/ SigningIn!Deactivate(p) \/ SigningIn!Activate(p)
      PROVE  SignInBounded'
  <2>1. CASE SigningIn!MistypeLogin(p)
    BY <1>4, <2>1 DEF SigningIn!MistypeLogin
  <2>2. CASE SigningIn!ResetPassword(p)
    <3>1. ASSUME NEW a \in LoginAccount, Counted(a, mistakes), a.password < LastPassword,
                 NEW b, b = [a EXCEPT !.password = a.password + 1, !.failed = 0, !.locked = 0]
          PROVE  Counted(b, mistakes)
      <4>1. a.password + 1 \in Nat /\ a.password + 1 \in 1 .. LastPassword
        BY <1>0, <3>1 DEF Counted, LoginAccount
      <4>2. /\ b \in LoginAccount
            /\ b.password = a.password + 1 /\ b.failed = 0 /\ b.locked = 0
        BY ONLY <3>1, <4>1, a \in LoginAccount DEF LoginAccount
      <4> QED BY <1>0, <4>1, <4>2 DEF Counted
    <3> DEFINE a == [login[p] EXCEPT !.password = @ + 1, !.failed = 0, !.locked = 0]
    <3>2. /\ login' = [login EXCEPT ![p] = a]
          /\ login[p].password < LastPassword /\ mistakes' = mistakes
      BY <2>2 DEF SigningIn!ResetPassword
    <3>3. Counted(a, mistakes')
      BY <1>0, <3>1, <3>2
    <3> HIDE DEF a
    <3>4. mistakes' \in 0 .. Mistakes /\ mistakes <= mistakes'
      BY <1>0, <3>2
    <3> QED BY <3>2, <3>3, <3>4, OneIsCounted
  <2>3. CASE SigningIn!Deactivate(p) \/ SigningIn!Activate(p)
    <3>1. PICK active \in BOOLEAN :
            login' = [login EXCEPT ![p].active = active] /\ mistakes' = mistakes
      BY <2>3 DEF SigningIn!Deactivate, SigningIn!Activate
    <3>2. ASSUME NEW a \in LoginAccount, Counted(a, mistakes)
          PROVE  Counted([a EXCEPT !.active = active], mistakes)
      BY ONLY <3>2, a \in LoginAccount, active \in BOOLEAN DEF Counted, LoginAccount
    <3> DEFINE a == [login[p] EXCEPT !.active = active]
    <3>3. login' = [login EXCEPT ![p] = a] /\ Counted(a, mistakes')
      BY <1>0, <3>1, <3>2
    <3> HIDE DEF a
    <3>4. mistakes' \in 0 .. Mistakes /\ mistakes <= mistakes'
      BY <1>0, <3>1
    <3> QED BY <3>3, <3>4, OneIsCounted
  <2> QED BY <1>5, <2>1, <2>2, <2>3
<1>6. ASSUME NEW p \in Persons, NEW b \in Browsers,
             SigningIn!Login(b, p) \/ SigningIn!WindowsLogin(b, p)
      PROVE  SignInBounded'
  BY <1>3, <1>6 DEF SigningIn!Login, SigningIn!WindowsLogin
<1>7. ASSUME NEW b \in Browsers, SigningIn!StepUp(b) \/ SigningIn!MistypeStepUp(b)
                 \/ SigningIn!ChangePassword(b)
      PROVE  SignInBounded'
  <2> DEFINE p == session[b].user
  <2>1. p \in Persons
    BY <1>7, ServedIsPerson DEF SigningIn!StepUp, SigningIn!MistypeStepUp,
       SigningIn!ChangePassword, SigningIn!Valid
  <2>2. CASE SigningIn!StepUp(b)
    BY <1>3, <2>1, <2>2 DEF SigningIn!StepUp
  <2>3. CASE SigningIn!MistypeStepUp(b)
    BY <1>4, <2>1, <2>3 DEF SigningIn!MistypeStepUp
  <2>4. CASE SigningIn!ChangePassword(b)
    <3>1. ASSUME NEW a \in LoginAccount, Counted(a, mistakes), a.password < LastPassword
          PROVE  Counted([a EXCEPT !.password = a.password + 1], mistakes)
      <4>1. a.password + 1 \in Nat /\ a.password + 1 \in 1 .. LastPassword
        BY <1>0, <3>1 DEF Counted, LoginAccount
      <4> QED BY ONLY <3>1, <4>1, a \in LoginAccount DEF Counted, LoginAccount
    <3> DEFINE a == [login[p] EXCEPT !.password = login[p].password + 1]
    <3>2. /\ login' = [login EXCEPT ![p] = a]
          /\ login[p].password < LastPassword /\ mistakes' = mistakes
      BY <2>4 DEF SigningIn!ChangePassword
    <3>3. Counted(a, mistakes')
      BY <1>0, <2>1, <3>1, <3>2
    <3> HIDE DEF a
    <3>4. mistakes' \in 0 .. Mistakes /\ mistakes <= mistakes'
      BY <1>0, <3>2
    <3> QED BY <2>1, <3>2, <3>3, <3>4, OneIsCounted
  <2> QED BY <1>7, <2>2, <2>3, <2>4
<1>8. ASSUME \/ \E n \in SigningIn!Names : SigningIn!Refuse(n)
             \/ \E p \in Persons : SigningIn!LoginInVain(p)
             \/ \E b \in Browsers : SigningIn!Request(b) \/ SigningIn!Logout(b)
      PROVE  UNCHANGED <<login, mistakes>>
  BY <1>8 DEF SigningIn!Refuse, SigningIn!LoginInVain, SigningIn!Request, SigningIn!Logout
<1> QED BY <1>1, <1>2, <1>5, <1>6, <1>7, <1>8 DEF SigningIn!Next

LEMMA SignInIsTyped == OutsideSpec => []SigningIn!SignInTypeOK
<1>1. OutsideInit => SigningInInv /\ SignInBounded
  BY SigningInBegins, SigningInAssumption
  DEF OutsideInit, SigningIn!Init, SignInBounded, Counted, SigningInAssumption,
      SigningIn!SignInAssumption
<1>2. SigningInInv /\ SignInBounded /\ [OutsideNext]_outside => (SigningInInv /\ SignInBounded)'
  <2>1. [OutsideNext]_outside => [SigningIn!Next]_signingIn
    BY DEF OutsideNext, Only, outside
  <2>2. SigningInInv /\ [SigningIn!Next]_signingIn => SigningInInv'
    BY AccountsStep, SessionsStep DEF signingIn, SigningInInv
  <2>3. CASE UNCHANGED signingIn
    BY <2>2, <2>3 DEF signingIn, SignInBounded
  <2> QED BY <2>1, <2>2, <2>3, SignInBoundedStep
<1>3. SigningInInv /\ SignInBounded => SigningIn!SignInTypeOK
  <2> SUFFICES ASSUME SigningInInv, SignInBounded PROVE SigningIn!SignInTypeOK
    OBVIOUS
  <2>1. \A p \in Persons : login[p] \in LoginAccount /\ Counted(login[p], mistakes)
    BY DEF SigningInInv, SignInBounded
  <2>2. Mistakes \in Nat /\ LockTime \in Nat /\ mistakes \in 0 .. Mistakes
    BY SigningInAssumption
    DEF SigningInAssumption, SigningIn!SignInAssumption, SignInBounded
  <2> QED BY <2>1, <2>2 DEF SigningInInv, SigningIn!SignInTypeOK, Counted, LoginAccount
<1> QED BY <1>1, <1>2, <1>3, PTL DEF OutsideSpec

-----------------------------------------------------------------------------
(* Numbers: a nonempty set of them has a least one, and a greatest one if  *)
(* it is bounded.                                                          *)

LEMMA LeastNumber ==
  ASSUME NEW T, T \subseteq Nat, T # {}
  PROVE  \E x \in T : \A y \in T : x <= y
<1> DEFINE R == OpToRel(<, Nat)
<1>1. IsWellFoundedOn(R, Nat)
  BY NatLessThanWellFounded
<1>2. PICK x \in T : \A y \in T : ~(<<y, x>> \in R)
  <2> HIDE DEF R
  <2> QED BY <1>1, WFMin
<1>3. \A a, b \in Nat : a < b => <<a, b>> \in R
  BY DEF OpToRel
<1> HIDE DEF R
<1>4. \A y \in T : y \in Nat /\ x \in Nat /\ ~(y < x)
  BY <1>2, <1>3
<1>5. \A y \in T : x <= y
  BY <1>4
<1> QED BY <1>5

LEMMA GreatestNumber ==
  ASSUME NEW T, NEW n \in Nat, T \subseteq 0 .. n, T # {}
  PROVE  \E x \in T : \A y \in T : y <= x
<1> DEFINE U == {n - x : x \in T}
<1>1. \A x \in T : n - x \in Nat
  OBVIOUS
<1>2. U \subseteq Nat /\ U # {}
  BY <1>1
<1>3. PICK u \in U : \A v \in U : u <= v
  <2> HIDE DEF U
  <2> QED BY <1>2, LeastNumber
<1>4. PICK x \in T : u = n - x
  BY <1>3
<1>5. \A y \in T : n - x <= n - y
  BY <1>3, <1>4
<1>6. \A y \in T : y <= x
  BY <1>5
<1> QED BY <1>6

-----------------------------------------------------------------------------
(* The files.  What was published is released and stays it; what is meant  *)
(* for the next Release is approved; and a file was made of one of these,  *)
(* unless its notice says that it is not.                                  *)

Row == [state : {"DRAFT", "REVIEW", "PENDING", "APPROVED", "RELEASED"}, signed : BOOLEAN,
        access : {"visible", "hidden"}]

\* The revisions that are decided, and those that are published.
DecidedOnes == Exporting!InState({"APPROVED", "RELEASED"})
ReleasedOnes == Exporting!InState({"RELEASED"})

\* What the Releases up to r hold.
Before(r) == UNION {published[i] : i \in 1 .. r}

ExportingInv ==
  /\ revision \in [FileCodes -> Seq(Row)]
  /\ published \in Seq(SUBSET (FileCodes \X (1 .. FileRevisions)))
  /\ \A i \in 1 .. Len(published) : published[i] \subseteq ReleasedOnes
  /\ building \subseteq Exporting!InState({"APPROVED"})
  /\ ~file.inside => file.rows \subseteq ReleasedOnes
  /\ file.rows \subseteq DecidedOnes \/ file.notice

\* No revision is taken away, and none that is decided is undecided again.
RevisionsStay ==
  /\ Exporting!Revisions \subseteq Exporting!Revisions'
  /\ DecidedOnes \subseteq DecidedOnes'

LEMMA ExportingBegins == Exporting!Init => ExportingInv
BY DEF Exporting!Init, Exporting!NoFile, ExportingInv

\* A step of the workflow leaves the files alone, if it moves no decided revision back.
LEMMA WorkflowKeeps ==
  ASSUME ExportingInv, revision' \in [FileCodes -> Seq(Row)], UNCHANGED <<published, file>>,
         \A v \in Exporting!Revisions : Exporting!State(v) \in {"APPROVED", "RELEASED"} =>
           v \in Exporting!Revisions' /\ Exporting!State(v)' = Exporting!State(v),
         building' = building \/ building' \subseteq Exporting!InState({"APPROVED"})'
  PROVE  ExportingInv' /\ DecidedOnes \subseteq DecidedOnes'
<1>1. ReleasedOnes \subseteq ReleasedOnes' /\ DecidedOnes \subseteq DecidedOnes'
  BY DEF ReleasedOnes, DecidedOnes, Exporting!InState
<1>2. Exporting!InState({"APPROVED"}) \subseteq Exporting!InState({"APPROVED"})'
  BY DEF Exporting!InState
<1>3. building' \subseteq Exporting!InState({"APPROVED"})'
  BY <1>2 DEF ExportingInv
<1> QED BY <1>1, <1>3 DEF ExportingInv

\* One revision that is not decided gets another row.
LEMMA RowMoves ==
  ASSUME ExportingInv, NEW v \in Exporting!Revisions, NEW row \in Row,
         Exporting!State(v) \notin {"APPROVED", "RELEASED"},
         revision' = [revision EXCEPT ![v[1]] = [revision[v[1]] EXCEPT ![v[2]] = row]],
         UNCHANGED <<published, building, file>>
  PROVE  ExportingInv' /\ RevisionsStay
<1> DEFINE c == v[1]
           n == v[2]
<1>1. c \in FileCodes /\ n \in 1 .. Len(revision[c]) /\ revision[c] \in Seq(Row)
  BY DEF Exporting!Revisions, ExportingInv
<1>2. /\ [revision[c] EXCEPT ![n] = row] \in Seq(Row)
      /\ Len([revision[c] EXCEPT ![n] = row]) = Len(revision[c])
  BY <1>1
<1>3. revision' \in [FileCodes -> Seq(Row)]
  BY <1>1, <1>2 DEF ExportingInv
<1>4. \A d \in FileCodes : Len(revision'[d]) = Len(revision[d])
  BY <1>1, <1>2 DEF ExportingInv
<1>5. Exporting!Revisions' = Exporting!Revisions
  BY <1>4 DEF Exporting!Revisions
<1>6. ASSUME NEW w \in Exporting!Revisions, Exporting!State(w) \in {"APPROVED", "RELEASED"}
      PROVE  Exporting!State(w)' = Exporting!State(w)
  <2>1. w[1] \in FileCodes /\ w[2] \in 1 .. Len(revision[w[1]])
    BY DEF Exporting!Revisions, ExportingInv
  <2>2. w[1] # c \/ w[2] # n
    BY <1>6 DEF Exporting!State
  <2>3. revision'[w[1]][w[2]] = revision[w[1]][w[2]]
    BY <1>1, <2>1, <2>2 DEF ExportingInv
  <2> QED BY <2>3 DEF Exporting!State
<1> QED BY <1>3, <1>5, <1>6, WorkflowKeeps DEF RevisionsStay

LEMMA ReviewKeeps ==
  ASSUME ExportingInv, NEW v \in Exporting!Revisions,
         \/ Exporting!submit(v) \/ Exporting!sign_admin(v) \/ Exporting!sign_review(v)
         \/ Exporting!chief_engineer_approve(v) \/ Exporting!clear_review_signoffs(v)
  PROVE  ExportingInv' /\ RevisionsStay
<1> DEFINE old == revision[v[1]][v[2]]
<1>1. old \in Row
  BY DEF Exporting!Revisions, ExportingInv
<1>2. UNCHANGED <<published, building, file>>
        /\ Exporting!State(v) \notin {"APPROVED", "RELEASED"}
  BY DEF Exporting!submit, Exporting!sign_admin, Exporting!sign_review,
         Exporting!chief_engineer_approve, Exporting!clear_review_signoffs
<1>3. ASSUME NEW row \in Row,
             revision' = [revision EXCEPT ![v[1]] = [revision[v[1]] EXCEPT ![v[2]] = row]]
      PROVE  ExportingInv' /\ RevisionsStay
  BY <1>2, <1>3, RowMoves
<1>4. ASSUME NEW state \in {"DRAFT", "REVIEW", "PENDING", "APPROVED"}
      PROVE  [old EXCEPT !.state = state] \in Row
  BY ONLY <1>1, <1>4 DEF Row
<1>5. CASE Exporting!submit(v)
  <2>1. revision' = [revision EXCEPT ![v[1]] =
                       [revision[v[1]] EXCEPT ![v[2]] = [old EXCEPT !.state = "REVIEW"]]]
    BY <1>5 DEF Exporting!submit
  <2> HIDE DEF old
  <2> QED BY <1>3, <1>4, <2>1
<1>6. CASE Exporting!chief_engineer_approve(v)
  <2>1. revision' = [revision EXCEPT ![v[1]] =
                       [revision[v[1]] EXCEPT ![v[2]] = [old EXCEPT !.state = "APPROVED"]]]
    BY <1>6 DEF Exporting!chief_engineer_approve
  <2> HIDE DEF old
  <2> QED BY <1>3, <1>4, <2>1
<1>7. CASE Exporting!sign_admin(v)
  <2> PICK shows \in {"visible", "hidden"} :
        revision' = [revision EXCEPT
          ![v[1]][v[2]].access = shows,
          ![v[1]][v[2]].state = IF revision[v[1]][v[2]].signed THEN "PENDING" ELSE "REVIEW"]
    BY <1>7 DEF Exporting!sign_admin
  <2> DEFINE row == [old EXCEPT !.access = shows, !.state = IF old.signed THEN "PENDING" ELSE "REVIEW"]
  <2>1. revision' = [revision EXCEPT ![v[1]] = [revision[v[1]] EXCEPT ![v[2]] = row]]
    BY DEF Exporting!Revisions, ExportingInv
  <2>2. row \in Row
    BY ONLY <1>1, shows \in {"visible", "hidden"} DEF Row, row
  <2> HIDE DEF row
  <2> QED BY <1>3, <2>1, <2>2
<1>8. CASE Exporting!sign_review(v)
  <2> DEFINE row == [old EXCEPT !.signed = TRUE,
                                !.state = IF v \in confirmed THEN "PENDING" ELSE "REVIEW"]
  <2>1. revision' = [revision EXCEPT ![v[1]] = [revision[v[1]] EXCEPT ![v[2]] = row]]
    BY <1>8 DEF Exporting!sign_review, Exporting!Revisions, ExportingInv
  <2>2. row \in Row
    BY ONLY <1>1 DEF Row, row
  <2> HIDE DEF row
  <2> QED BY <1>3, <2>1, <2>2
<1>9. CASE Exporting!clear_review_signoffs(v)
  <2> DEFINE row == [old EXCEPT !.signed = FALSE, !.state = "DRAFT"]
  <2>1. revision' = [revision EXCEPT ![v[1]] = [revision[v[1]] EXCEPT ![v[2]] = row]]
    BY <1>9 DEF Exporting!clear_review_signoffs, Exporting!Revisions, ExportingInv
  <2>2. row \in Row
    BY ONLY <1>1 DEF Row, row
  <2> HIDE DEF row
  <2> QED BY <1>3, <2>1, <2>2
<1> QED BY <1>5, <1>6, <1>7, <1>8, <1>9

LEMMA DraftKeeps ==
  ASSUME ExportingInv, NEW c \in FileCodes, Exporting!draft(c)
  PROVE  ExportingInv' /\ RevisionsStay
<1> DEFINE row == [state |-> "DRAFT", signed |-> FALSE, access |-> "visible"]
<1>1. revision' = [revision EXCEPT ![c] = Append(@, row)]
        /\ UNCHANGED <<published, building, file>>
  BY DEF Exporting!draft
<1>2. revision[c] \in Seq(Row) /\ row \in Row
  BY DEF ExportingInv, Row
<1> HIDE DEF row
<1>3. /\ Append(revision[c], row) \in Seq(Row)
      /\ Len(Append(revision[c], row)) = Len(revision[c]) + 1
      /\ \A n \in 1 .. Len(revision[c]) : Append(revision[c], row)[n] = revision[c][n]
  BY <1>2
<1>4. revision' \in [FileCodes -> Seq(Row)]
  BY <1>1, <1>3 DEF ExportingInv
<1>5. ASSUME NEW v \in Exporting!Revisions
      PROVE  v \in Exporting!Revisions' /\ Exporting!State(v)' = Exporting!State(v)
  <2>1. v[1] \in FileCodes /\ v[2] \in 1 .. Len(revision[v[1]]) /\ Len(revision[v[1]]) \in Nat
    BY DEF Exporting!Revisions, ExportingInv
  <2>2. v[2] \in 1 .. Len(revision'[v[1]]) /\ revision'[v[1]][v[2]] = revision[v[1]][v[2]]
    BY <1>1, <1>3, <2>1 DEF ExportingInv
  <2> QED BY <2>1, <2>2 DEF Exporting!Revisions, Exporting!State
<1> QED BY <1>1, <1>4, <1>5, WorkflowKeeps DEF RevisionsStay

LEMMA PublishKeeps ==
  ASSUME ExportingInv, Exporting!publish
  PROVE  ExportingInv' /\ RevisionsStay
<1>1. /\ revision' = [c \in FileCodes |-> [n \in DOMAIN revision[c] |->
           IF <<c, n>> \in building THEN [revision[c][n] EXCEPT !.state = "RELEASED"]
           ELSE revision[c][n]]]
      /\ published' = Append(published, building) /\ building' = {} /\ file' = file
  BY DEF Exporting!publish
<1>2. ASSUME NEW c \in FileCodes
      PROVE  /\ revision'[c] \in Seq(Row) /\ Len(revision'[c]) = Len(revision[c])
             /\ \A n \in 1 .. Len(revision[c]) :
                  revision'[c][n].state =
                    IF <<c, n>> \in building THEN "RELEASED" ELSE revision[c][n].state
  <2>1. revision[c] \in Seq(Row)
    BY DEF ExportingInv
  <2> DEFINE Released(row) == [row EXCEPT !.state = "RELEASED"]
             row(n) == IF <<c, n>> \in building THEN Released(revision[c][n]) ELSE revision[c][n]
  <2>2. \A x \in Row : Released(x) \in Row /\ Released(x).state = "RELEASED"
    BY DEF Row
  <2>3. revision'[c] = [n \in DOMAIN revision[c] |-> row(n)]
    BY <1>1
  <2> HIDE DEF Released
  <2>4. \A n \in DOMAIN revision[c] :
          /\ row(n) \in Row
          /\ row(n).state = IF <<c, n>> \in building THEN "RELEASED" ELSE revision[c][n].state
    BY <2>1, <2>2
  <2> HIDE DEF row
  <2>5. revision'[c] \in [DOMAIN revision[c] -> Row]
    BY <2>3, <2>4
  <2> QED BY <2>1, <2>3, <2>4, <2>5
<1>3. revision' \in [FileCodes -> Seq(Row)] /\ Exporting!Revisions' = Exporting!Revisions
  BY <1>1, <1>2 DEF Exporting!Revisions
<1>4. \A v \in Exporting!Revisions :
        Exporting!State(v)' = IF v \in building THEN "RELEASED" ELSE Exporting!State(v)
  BY <1>2 DEF Exporting!Revisions, Exporting!State, ExportingInv
<1>5. building \subseteq ReleasedOnes' /\ ReleasedOnes \subseteq ReleasedOnes'
        /\ DecidedOnes \subseteq DecidedOnes'
  BY <1>3, <1>4 DEF ExportingInv, ReleasedOnes, DecidedOnes, Exporting!InState
<1>6. building \in SUBSET (FileCodes \X (1 .. FileRevisions))
  BY DEF ExportingInv, Exporting!InState, Exporting!Revisions
<1>7. /\ published' \in Seq(SUBSET (FileCodes \X (1 .. FileRevisions)))
      /\ \A i \in 1 .. Len(published') : published'[i] \subseteq ReleasedOnes'
  BY <1>1, <1>5, <1>6 DEF ExportingInv
<1> QED BY <1>1, <1>3, <1>5, <1>7 DEF ExportingInv, RevisionsStay

\* A file of decided revisions, or with a notice, and of released ones if it is for everybody.
LEMMA HandOutKeeps ==
  ASSUME ExportingInv, NEW kind, NEW inside, NEW revs, NEW o, NEW notice, NEW scope,
         Exporting!HandOut(kind, inside, revs, o, notice, scope),
         UNCHANGED <<revision, published, building>>,
         ~inside => revs \subseteq ReleasedOnes, revs \subseteq DecidedOnes \/ notice
  PROVE  ExportingInv'
<1>1. file'.rows \subseteq revs /\ file'.inside = inside /\ file'.notice = notice
  BY DEF Exporting!HandOut, Exporting!prepare, Exporting!Narrowed
<1>2. /\ ReleasedOnes' = ReleasedOnes /\ DecidedOnes' = DecidedOnes
      /\ Exporting!InState({"APPROVED"})' = Exporting!InState({"APPROVED"})
  BY DEF ReleasedOnes, DecidedOnes, Exporting!InState, Exporting!Revisions, Exporting!State
<1> QED BY <1>1, <1>2 DEF ExportingInv

\* What the Releases hold, up to each, and with the one that is being built.
LEMMA MembersAreDecided ==
  ASSUME ExportingInv
  PROVE  /\ ReleasedOnes \subseteq DecidedOnes /\ DecidedOnes \subseteq Exporting!Revisions
         /\ \A r \in 0 .. Len(published) : Before(r) \subseteq ReleasedOnes
         /\ building \subseteq DecidedOnes
         /\ UNION {published[i] : i \in DOMAIN published} = Before(Len(published))
         /\ \A r \in 1 .. Len(published) : published[r] \subseteq ReleasedOnes
BY DEF ExportingInv, ReleasedOnes, DecidedOnes, Exporting!InState, Before

\* What an export of a Release is made of.
LEMMA ReleaseRevisions ==
  ASSUME ExportingInv, NEW r \in 0 .. Len(published), NEW o
  PROVE  /\ Exporting!release_revisions(r, o) \subseteq DecidedOnes
         /\ r # 0 => Exporting!release_revisions(r, o) \subseteq ReleasedOnes
<1>1. r # 0 => r \in 1 .. Len(published)
  BY DEF ExportingInv
<1>2. CASE o.delta
  BY <1>1, <1>2, MembersAreDecided DEF Exporting!release_revisions
<1>3. CASE ~o.delta
  <2>1. Exporting!baseline(r) \subseteq IF r = 0 THEN building \cup Before(Len(published)) ELSE Before(r)
    BY MembersAreDecided DEF Exporting!baseline, Exporting!Latest, Before
  <2>2. Len(published) \in 0 .. Len(published)
    BY DEF ExportingInv
  <2> QED BY <1>3, <2>1, <2>2, MembersAreDecided DEF Exporting!release_revisions
<1> QED BY <1>2, <1>3

LEMMA ExportKeeps ==
  ASSUME ExportingInv,
         \/ Exporting!export_released \/ Exporting!export_release
         \/ Exporting!export_working_set \/ Exporting!export_offline_bundle
  PROVE  ExportingInv'
<1>1. UNCHANGED <<revision, published, building>>
  BY DEF Exporting!export_released, Exporting!export_release,
         Exporting!export_working_set, Exporting!export_offline_bundle
<1>2. CASE Exporting!export_released
  <2>1. PICK inside \in BOOLEAN, o \in Exporting!Options :
          Exporting!HandOut("released", inside, Exporting!released_revisions, o, FALSE, {})
    BY <1>2 DEF Exporting!export_released
  <2>2. Exporting!released_revisions \subseteq ReleasedOnes
    BY DEF Exporting!released_revisions, Exporting!Latest, ReleasedOnes
  <2> QED BY <1>1, <2>1, <2>2, MembersAreDecided, HandOutKeeps
<1>3. CASE Exporting!export_release
  <2>1. PICK r \in 0 .. Len(published), inside \in BOOLEAN, o \in Exporting!Options :
          /\ Exporting!require_released_or_owner(r, inside)
          /\ Exporting!HandOut("release", inside, Exporting!release_revisions(r, o), o, FALSE,
                               {f \in {"platform", "delta"} : o[f]})
    BY <1>3 DEF Exporting!export_release
  <2>2. ~inside => r # 0
    BY <2>1 DEF Exporting!require_released_or_owner
  <2> QED BY <1>1, <2>1, <2>2, ReleaseRevisions, HandOutKeeps
<1>4. CASE Exporting!export_working_set
  <2>1. PICK o \in Exporting!Options :
          Exporting!HandOut("working set", TRUE, Exporting!working_set_revisions, o, TRUE, {})
    BY <1>4 DEF Exporting!export_working_set
  <2> QED BY <1>1, <2>1, HandOutKeeps
<1>5. CASE Exporting!export_offline_bundle
  <2>1. PICK r \in 1 .. Len(published), inside \in BOOLEAN, o \in Exporting!Options :
          Exporting!HandOut("offline", inside, Exporting!release_revisions(r, o), o, FALSE, {})
    BY <1>5 DEF Exporting!export_offline_bundle
  <2>2. r \in 0 .. Len(published) /\ r # 0
    BY DEF ExportingInv
  <2> QED BY <1>1, <2>1, <2>2, ReleaseRevisions, HandOutKeeps
<1> QED BY <1>2, <1>3, <1>4, <1>5

LEMMA ExportingStep ==
  ASSUME ExportingInv, [Exporting!Next]_exporting
  PROVE  ExportingInv'
<1>1. ASSUME UNCHANGED <<revision, published>>, file' = file \/ file' = Exporting!NoFile,
             building' = building \/ building' \subseteq Exporting!InState({"APPROVED"})
      PROVE  ExportingInv'
  <2>1. /\ ReleasedOnes' = ReleasedOnes /\ DecidedOnes' = DecidedOnes
        /\ Exporting!InState({"APPROVED"})' = Exporting!InState({"APPROVED"})
    BY <1>1 DEF ReleasedOnes, DecidedOnes, Exporting!InState, Exporting!Revisions, Exporting!State
  <2>2. Exporting!NoFile.inside = TRUE /\ Exporting!NoFile.rows = {}
    BY DEF Exporting!NoFile
  <2> QED BY <1>1, <2>1, <2>2 DEF ExportingInv
<1>2. CASE UNCHANGED exporting
  BY <1>1, <1>2 DEF exporting
<1>3. ASSUME NEW v \in Exporting!Revisions,
             Exporting!approve_translation(v) \/ Exporting!save_translation(v)
      PROVE  ExportingInv'
  BY <1>1, <1>3 DEF Exporting!approve_translation, Exporting!save_translation
<1>4. CASE Exporting!set_items \/ Exporting!OutOfSight
  BY <1>1, <1>4 DEF Exporting!set_items, Exporting!OutOfSight
<1> QED BY <1>2, <1>3, <1>4, DraftKeeps, ReviewKeeps, PublishKeeps, ExportKeeps
        DEF Exporting!Next

\* A code with a revision in a set has a latest one in it.
LEMMA LatestCovers ==
  ASSUME ExportingInv, NEW S, S \subseteq Exporting!Revisions
  PROVE  {v[1] : v \in Exporting!Latest(S)} = {v[1] : v \in S}
<1>1. \A v \in S : v = <<v[1], v[2]>> /\ v[1] \in FileCodes /\ v[2] \in 0 .. Len(revision[v[1]])
                     /\ Len(revision[v[1]]) \in Nat
  BY DEF Exporting!Revisions, ExportingInv
<1>2. ASSUME NEW v \in S
      PROVE  \E w \in Exporting!Latest(S) : w[1] = v[1]
  <2> DEFINE T == {w[2] : w \in {u \in S : u[1] = v[1]}}
  <2>1. T \subseteq 0 .. Len(revision[v[1]]) /\ T # {} /\ Len(revision[v[1]]) \in Nat
    BY <1>1
  <2>2. PICK n \in T : \A m \in T : m <= n
    <3> HIDE DEF T
    <3> QED BY <2>1, GreatestNumber
  <2>3. PICK w \in S : w[1] = v[1] /\ w[2] = n
    BY <2>2
  <2>4. \A u \in S : u[1] = w[1] => u[2] <= w[2]
    BY <2>2, <2>3
  <2> QED BY <2>3, <2>4 DEF Exporting!Latest
<1>3. Exporting!Latest(S) \subseteq S
  BY DEF Exporting!Latest
<1> QED BY <1>2, <1>3

\* What a step does to the file.
LEMMA FileStep ==
  ASSUME Exporting!Next, file' # file
  PROVE  \/ file' = Exporting!NoFile
         \/ \E kind, inside, revs, o, notice, scope :
              /\ Exporting!HandOut(kind, inside, revs, o, notice, scope)
              /\ kind = "release" =>
                   /\ scope = {f \in {"platform", "delta"} : o[f]}
                   /\ \E r \in 0 .. Len(published) : revs = Exporting!release_revisions(r, o)
<1>1. \/ Exporting!export_released \/ Exporting!export_release
      \/ Exporting!export_working_set \/ Exporting!export_offline_bundle \/ Exporting!OutOfSight
  BY DEF Exporting!Next, Exporting!draft, Exporting!submit, Exporting!sign_admin,
     Exporting!sign_review, Exporting!chief_engineer_approve, Exporting!clear_review_signoffs,
     Exporting!approve_translation, Exporting!save_translation, Exporting!set_items,
     Exporting!publish
<1> DEFINE Made(kind, inside, revs, o, notice, scope) ==
       /\ Exporting!HandOut(kind, inside, revs, o, notice, scope)
       /\ kind = "release" =>
            /\ scope = {f \in {"platform", "delta"} : o[f]}
            /\ \E r \in 0 .. Len(published) : revs = Exporting!release_revisions(r, o)
<1> SUFFICES ASSUME file' # Exporting!NoFile
             PROVE  \E kind, inside, revs, o, notice, scope :
                      Made(kind, inside, revs, o, notice, scope)
  OBVIOUS
<1>2. CASE Exporting!export_released
  <2>1. PICK inside \in BOOLEAN, o \in Exporting!Options :
          Exporting!HandOut("released", inside, Exporting!released_revisions, o, FALSE, {})
    BY <1>2 DEF Exporting!export_released
  <2>2. Made("released", inside, Exporting!released_revisions, o, FALSE, {})
    BY <2>1
  <2> HIDE DEF Made
  <2> QED BY <2>2
<1>3. CASE Exporting!export_release
  <2>1. PICK r \in 0 .. Len(published), inside \in BOOLEAN, o \in Exporting!Options :
          Exporting!HandOut("release", inside, Exporting!release_revisions(r, o), o, FALSE,
                            {f \in {"platform", "delta"} : o[f]})
    BY <1>3 DEF Exporting!export_release
  <2>2. Made("release", inside, Exporting!release_revisions(r, o), o, FALSE,
             {f \in {"platform", "delta"} : o[f]})
    BY <2>1
  <2> HIDE DEF Made
  <2> QED BY <2>2
<1>4. CASE Exporting!export_working_set
  <2>1. PICK o \in Exporting!Options :
          Exporting!HandOut("working set", TRUE, Exporting!working_set_revisions, o, TRUE, {})
    BY <1>4 DEF Exporting!export_working_set
  <2>2. Made("working set", TRUE, Exporting!working_set_revisions, o, TRUE, {})
    BY <2>1
  <2> HIDE DEF Made
  <2> QED BY <2>2
<1>5. CASE Exporting!export_offline_bundle
  <2>1. PICK r \in 1 .. Len(published), inside \in BOOLEAN, o \in Exporting!Options :
          Exporting!HandOut("offline", inside, Exporting!release_revisions(r, o), o, FALSE, {})
    BY <1>5 DEF Exporting!export_offline_bundle
  <2>2. Made("offline", inside, Exporting!release_revisions(r, o), o, FALSE, {})
    BY <2>1
  <2> HIDE DEF Made
  <2> QED BY <2>2
<1> QED BY <1>1, <1>2, <1>3, <1>4, <1>5 DEF Exporting!OutOfSight

\* FilesAreSafe: whoever is not the StCd Owner or an Administrator takes released revisions
\* only, a file with a revision that is not decided says so, an audience is shown what an
\* Administrator confirmed for it, and the file of a Release has a row of every code that was
\* published up to it, unless its manifest names what was left out - for every catalogue,
\* profile and set of options (services/export_service.py, services/baseline_service.py).
THEOREM OutsideFilesAreSafe == OutsideSpec => FilesAreSafe
<1>1. OutsideInit => ExportingInv
  BY ExportingBegins DEF OutsideInit
<1>2. [OutsideNext]_outside => [Exporting!Next]_exporting
  BY DEF OutsideNext, Only, outside
<1>3. ExportingInv /\ [Exporting!Next]_exporting => ExportingInv'
  BY ExportingStep
<1>4. ExportingInv => Exporting!UnreleasedStaysInside /\ Exporting!UnapprovedIsLabelled
  BY DEF ExportingInv, ReleasedOnes, DecidedOnes, Exporting!UnreleasedStaysInside,
         Exporting!UnapprovedIsLabelled
<1>5. [Exporting!Next]_exporting =>
        [file' # file /\ file'.audience =>
           \A v \in file'.rows : v \in confirmed /\ revision[v[1]][v[2]].access = "visible"]_exporting
  <2> SUFFICES ASSUME Exporting!Next, file' # file, file'.audience, NEW v \in file'.rows
               PROVE  Exporting!is_visible(v)
    BY DEF Exporting!is_visible, exporting
  <2>1. file' # Exporting!NoFile
    BY DEF Exporting!NoFile
  <2>2. PICK kind, inside, revs, o, notice, scope :
          Exporting!HandOut(kind, inside, revs, o, notice, scope)
    BY <2>1, FileStep
  <2>3. file'.rows = Exporting!prepare(revs, o) /\ file'.audience = Exporting!Audience(o)
    BY <2>2 DEF Exporting!HandOut
  <2> QED BY <2>3 DEF Exporting!prepare, Exporting!Narrowed
<1>6. ExportingInv /\ [Exporting!Next]_exporting =>
        [file' # file /\ file'.kind = "release" /\ ~file'.audience /\ ~file'.strict
           /\ file'.scope = {} =>
         LET Upto(r) == UNION {published[i] : i \in 1 .. r}
             Members == {Upto(r) : r \in DOMAIN published}
                          \union {building \union Upto(Len(published))}
         IN  \E S \in Members : {v[1] : v \in file'.rows} = {v[1] : v \in S}]_exporting
  <2> SUFFICES ASSUME ExportingInv, Exporting!Next, file' # file, file'.kind = "release",
                      ~file'.audience, ~file'.strict, file'.scope = {}
               PROVE  \E S \in {Before(r) : r \in DOMAIN published}
                                 \union {building \union Before(Len(published))} :
                        {v[1] : v \in file'.rows} = {v[1] : v \in S}
    BY DEF Before, exporting
  <2>1. file' # Exporting!NoFile
    BY DEF Exporting!NoFile
  <2>2. PICK kind, inside, revs, o, notice, scope :
          /\ Exporting!HandOut(kind, inside, revs, o, notice, scope)
          /\ kind = "release" =>
               /\ scope = {f \in {"platform", "delta"} : o[f]}
               /\ \E r \in 0 .. Len(published) : revs = Exporting!release_revisions(r, o)
    BY <2>1, FileStep
  <2>3. /\ file'.rows = Exporting!prepare(revs, o) /\ file'.audience = Exporting!Audience(o)
        /\ file'.kind = kind /\ file'.scope = scope /\ file'.strict = o.strict
    BY <2>2 DEF Exporting!HandOut
  <2>4. ~o.platform /\ ~o.delta
    BY <2>2, <2>3
  <2>5. PICK r \in 0 .. Len(published) : revs = Exporting!baseline(r)
    BY <2>2, <2>3, <2>4 DEF Exporting!release_revisions
  <2>6. file'.rows = revs
    BY <2>3, <2>4 DEF Exporting!prepare, Exporting!Narrowed
  <2> DEFINE S == IF r = 0 THEN building \union Before(Len(published)) ELSE Before(r)
  <2>7. Len(published) \in 0 .. Len(published) /\ (r # 0 => r \in DOMAIN published)
    BY DEF ExportingInv
  <2>8. revs = Exporting!Latest(S) /\ S \subseteq Exporting!Revisions
    BY <2>5, <2>7, MembersAreDecided DEF Exporting!baseline, Before
  <2>9. {v[1] : v \in file'.rows} = {v[1] : v \in S}
    <3> HIDE DEF S
    <3> QED BY <2>6, <2>8, LatestCovers
  <2> QED BY <2>7, <2>9
<1> QED BY <1>1, <1>2, <1>3, <1>4, <1>5, <1>6, PTL
        DEF OutsideSpec, FilesAreSafe, Exporting!AudienceSeesConfirmed,
            Exporting!CompleteUnlessNamed, Exporting!vars, exporting

\* What is confirmed, translated or in a file are revisions that are there; a translation is
\* approved of a decided one.
FilesFit ==
  /\ confirmed \subseteq Exporting!Revisions
  /\ translated \subseteq DecidedOnes
  /\ file.rows \subseteq Exporting!Revisions

LEMMA FilesFitStep ==
  ASSUME ExportingInv, FilesFit, [Exporting!Next]_exporting
  PROVE  FilesFit'
<1>1. ASSUME RevisionsStay, confirmed' \subseteq confirmed \union Exporting!Revisions,
             translated' \subseteq translated \union DecidedOnes,
             file' = file \/ file'.rows \subseteq Exporting!Revisions
      PROVE  FilesFit'
  BY <1>1 DEF FilesFit, RevisionsStay
<1>2. UNCHANGED revision => RevisionsStay
  BY DEF RevisionsStay, DecidedOnes, Exporting!InState, Exporting!Revisions, Exporting!State
<1>3. CASE UNCHANGED exporting
  BY <1>1, <1>2, <1>3 DEF exporting
<1>4. ASSUME NEW c \in FileCodes, Exporting!draft(c)
      PROVE  FilesFit'
  BY <1>1, <1>4, DraftKeeps DEF Exporting!draft
<1>5. ASSUME NEW v \in Exporting!Revisions,
             \/ Exporting!submit(v) \/ Exporting!sign_admin(v) \/ Exporting!sign_review(v)
             \/ Exporting!chief_engineer_approve(v) \/ Exporting!clear_review_signoffs(v)
      PROVE  FilesFit'
  <2>1. RevisionsStay
    BY <1>5, ReviewKeeps
  <2>2. /\ confirmed' \subseteq confirmed \union {v}
        /\ UNCHANGED <<translated, file>>
    BY <1>5 DEF Exporting!submit, Exporting!sign_admin, Exporting!sign_review,
       Exporting!chief_engineer_approve, Exporting!clear_review_signoffs
  <2> QED BY <1>1, <2>1, <2>2
<1>6. ASSUME NEW v \in Exporting!Revisions,
             Exporting!approve_translation(v) \/ Exporting!save_translation(v)
      PROVE  FilesFit'
  <2>1. UNCHANGED <<revision, confirmed, file>> /\ translated' \subseteq translated \union DecidedOnes
    BY <1>6 DEF Exporting!approve_translation, Exporting!save_translation, DecidedOnes
  <2> QED BY <1>1, <1>2, <2>1
<1>7. CASE Exporting!set_items
  BY <1>1, <1>2, <1>7 DEF Exporting!set_items
<1>8. CASE Exporting!publish
  BY <1>1, <1>8, PublishKeeps DEF Exporting!publish
<1>9. CASE Exporting!OutOfSight
  <2>1. file'.rows = {} /\ UNCHANGED <<revision, confirmed, translated>>
    BY <1>9 DEF Exporting!OutOfSight, Exporting!NoFile
  <2> QED BY <1>1, <1>2, <2>1
<1>10. CASE \/ Exporting!export_released \/ Exporting!export_release
            \/ Exporting!export_working_set \/ Exporting!export_offline_bundle
  <2>1. UNCHANGED <<revision, confirmed, translated>>
    BY <1>10 DEF Exporting!export_released, Exporting!export_release,
       Exporting!export_working_set, Exporting!export_offline_bundle
  <2>2. \E kind, inside, revs, o, notice, scope :
          /\ Exporting!HandOut(kind, inside, revs, o, notice, scope)
          /\ revs \subseteq Exporting!Revisions
    <3>1. /\ Exporting!released_revisions \subseteq Exporting!Revisions
          /\ Exporting!working_set_revisions \subseteq Exporting!Revisions
      BY DEF Exporting!released_revisions, Exporting!working_set_revisions, Exporting!Latest,
         Exporting!InState
    <3>2. \A r \in 0 .. Len(published) : \A o :
            Exporting!release_revisions(r, o) \subseteq Exporting!Revisions
      BY ReleaseRevisions, MembersAreDecided
    <3>3. \A r \in 1 .. Len(published) : r \in 0 .. Len(published)
      OBVIOUS
    <3>4. CASE Exporting!export_released
      BY <3>1, <3>4 DEF Exporting!export_released
    <3>5. CASE Exporting!export_release
      BY <3>2, <3>5 DEF Exporting!export_release
    <3>6. CASE Exporting!export_working_set
      BY <3>1, <3>6 DEF Exporting!export_working_set
    <3>7. CASE Exporting!export_offline_bundle
      BY <3>2, <3>3, <3>7 DEF Exporting!export_offline_bundle
    <3> QED BY <1>10, <3>4, <3>5, <3>6, <3>7
  <2>3. file'.rows \subseteq Exporting!Revisions
    BY <2>2 DEF Exporting!HandOut, Exporting!prepare, Exporting!Narrowed
  <2> QED BY <1>1, <1>2, <2>1, <2>3
<1> QED BY <1>3, <1>4, <1>5, <1>6, <1>7, <1>8, <1>9, <1>10 DEF Exporting!Next

LEMMA ExportsAreTyped == OutsideSpec => []Exporting!ExportsTypeOK
<1>1. OutsideInit => ExportingInv /\ FilesFit
  BY ExportingBegins DEF OutsideInit, Exporting!Init, Exporting!NoFile, FilesFit
<1>2. [OutsideNext]_outside => [Exporting!Next]_exporting
  BY DEF OutsideNext, Only, outside
<1>3. ExportingInv /\ FilesFit /\ [Exporting!Next]_exporting => ExportingInv' /\ FilesFit'
  BY ExportingStep, FilesFitStep
<1>4. ExportingInv /\ FilesFit => Exporting!ExportsTypeOK
  BY DEF ExportingInv, FilesFit, Exporting!ExportsTypeOK, Row, DecidedOnes
<1> QED BY <1>1, <1>2, <1>3, <1>4, PTL DEF OutsideSpec

-----------------------------------------------------------------------------
(* Releases and their notes.  The audit log only grows, and a Release that *)
(* is published takes the number of the entry that comes next, so the      *)
(* Releases are published in the order of their numbers.                   *)

States == {"APPROVED", "RELEASED", "DEPRECATED", "ARCHIVED"}

PublishedRelease == [status : {"BUILDING", "PUBLISHED"}, at : Nat,
                     items : SUBSET (FeedCodes \X (1 .. FeedRevisions))]

\* A log is a sequence of whatever its entries are.
IsLog(s) == s \in Seq({s[i] : i \in 1 .. Len(s)})

PublishingInv ==
  /\ life \in [FeedCodes -> Seq(States)]
  /\ release \in [ReleaseIds -> PublishedRelease]
  /\ IsLog(audit)
  /\ \A r \in ReleaseIds : release[r].items \subseteq Publishing!Revisions
  /\ \A r \in Publishing!Published :
       /\ 0 < release[r].at /\ release[r].at <= Len(audit)
       /\ \A p \in Publishing!Published \ {r} : release[p].at # release[r].at

LEMMA PublishingBegins == Publishing!Init => PublishingInv
<1> SUFFICES ASSUME Publishing!Init PROVE PublishingInv
  OBVIOUS
<1>1. audit = <<>> /\ IsLog(audit)
  BY DEF Publishing!Init, IsLog
<1>2. Publishing!Published = {} /\ \A r \in ReleaseIds : release[r].items = {}
  BY DEF Publishing!Init, Publishing!Published
<1> QED BY <1>1, <1>2 DEF Publishing!Init, PublishingInv, PublishedRelease, States

\* Entries are added at the end of the log.
AuditGrows ==
  /\ IsLog(audit') /\ Len(audit) \in Nat /\ Len(audit') \in Nat /\ Len(audit) <= Len(audit')
  /\ \A i \in 1 .. Len(audit) : audit'[i] = audit[i]

LEMMA Concatenated ==
  ASSUME NEW S, NEW s \in Seq(S), NEW t \in Seq(S)
  PROVE  /\ s \o t \in Seq(S) /\ Len(s \o t) = Len(s) + Len(t)
         /\ \A i \in 1 .. Len(s) : (s \o t)[i] = s[i]
OBVIOUS

LEMMA LogGrows ==
  ASSUME IsLog(audit), NEW action, NEW revs, IsFiniteSet(revs), Publishing!LogAll(action, revs)
  PROVE  AuditGrows /\ Len(audit') = Len(audit) + Cardinality(revs)
<1> DEFINE n == Cardinality(revs)
           more == [i \in 1 .. n |-> [action |-> action,
                                       revision |-> Publishing!SetToSeq(revs)[i]]]
           S == {audit[i] : i \in 1 .. Len(audit)} \cup {more[i] : i \in 1 .. n}
<1>1. n \in Nat
  BY FS_CardinalityType
<1>2. audit' = audit \o more
  BY DEF Publishing!LogAll, Publishing!Cardinality, Cardinality
<1> HIDE DEF n
<1>3. more \in Seq(S) /\ Len(more) = n
  <2>1. DOMAIN more = 1 .. n /\ more = [i \in 1 .. n |-> more[i]]
    OBVIOUS
  <2> HIDE DEF more
  <2> QED BY <1>1, <2>1
<1> HIDE DEF more
<1>4. audit \in Seq(S) /\ Len(audit) \in Nat
  BY DEF IsLog
<1> HIDE DEF S
<1>5. /\ audit' \in Seq(S) /\ Len(audit') = Len(audit) + n
      /\ \A i \in 1 .. Len(audit) : audit'[i] = audit[i]
  BY ONLY <1>2, <1>3, <1>4, Concatenated
<1>6. IsLog(audit')
  BY <1>5 DEF IsLog
<1>7. Len(audit') \in Nat /\ Len(audit) <= Len(audit')
  BY ONLY <1>1, <1>4, <1>5
<1> QED BY <1>4, <1>5, <1>6, <1>7 DEF n, AuditGrows

\* The items of a Release are finitely many.
LEMMA ItemsAreFinite ==
  ASSUME NEW revs \in SUBSET (FeedCodes \X (1 .. FeedRevisions))
  PROVE  IsFiniteSet(revs) /\ Cardinality(revs) \in Nat /\ (revs # {} => Cardinality(revs) > 0)
<1>1. IsFiniteSet(FeedCodes) /\ FeedRevisions \in Nat
  BY PublishingAssumption DEF PublishingAssumption, Publishing!LimitAssumption,
     Publishing!IsFiniteSet, IsFiniteSet
<1>2. IsFiniteSet(1 .. FeedRevisions)
  BY <1>1, FS_Interval
<1>3. IsFiniteSet(FeedCodes \X (1 .. FeedRevisions))
  BY <1>1, <1>2, FS_Product
<1>4. IsFiniteSet(revs)
  BY <1>3, FS_Subset
<1>5. Cardinality(revs) \in Nat /\ (Cardinality(revs) = 0 <=> revs = {})
  BY <1>4, FS_CardinalityType, FS_EmptySet
<1> QED BY <1>4, <1>5

\* What every step does: revisions and entries are only added, and of the Releases at most one
\* that is being built changes.
CodesGrow ==
  /\ life' \in [FeedCodes -> Seq(States)]
  /\ \A c \in FeedCodes : Len(life[c]) \in Nat /\ Len(life'[c]) \in Nat /\ Len(life[c]) <= Len(life'[c])

OneReleaseMoves ==
  \/ UNCHANGED release
  \/ \E r \in ReleaseIds :
       /\ release[r].status = "BUILDING"
       /\ release' \in [ReleaseIds -> PublishedRelease]
       /\ \A p \in ReleaseIds \ {r} : release'[p] = release[p]
       /\ release'[r].items \subseteq Publishing!Revisions
       /\ release'[r].status = "PUBLISHED" => release'[r].at = Len(audit) + 1 /\ Len(audit) < Len(audit')

LEMMA CodeSteps ==
  ASSUME PublishingInv, NEW c \in FeedCodes,
         \/ Publishing!Approve(c) \/ Publishing!Deprecate(c)
         \/ Publishing!archive(c) \/ Publishing!reinstate(c)
  PROVE  CodesGrow /\ AuditGrows /\ OneReleaseMoves
<1>1. life \in [FeedCodes -> Seq(States)] /\ life[c] \in Seq(States) /\ Len(life[c]) \in Nat
  BY DEF PublishingInv
<1>2. \A v : IsFiniteSet({v})
  BY FS_Singleton
<1>3. UNCHANGED audit => AuditGrows
  BY DEF PublishingInv, AuditGrows, IsLog
<1>4. ASSUME NEW action, NEW v, Publishing!LogAll(action, {v})
      PROVE  AuditGrows
  <2>1. IsLog(audit)
    BY DEF PublishingInv
  <2> QED BY ONLY <1>2, <1>4, <2>1, LogGrows
<1>5. ASSUME NEW s \in Seq(States), Len(life[c]) <= Len(s), life' = [life EXCEPT ![c] = s]
      PROVE  CodesGrow
  BY <1>1, <1>5 DEF CodesGrow
<1>6. ASSUME NEW state \in States, life' = [life EXCEPT ![c] = Append(life[c], state)]
      PROVE  CodesGrow
  <2> DEFINE s == Append(life[c], state)
  <2>1. s \in Seq(States) /\ Len(s) = Len(life[c]) + 1
    BY <1>1
  <2>2. life' = [life EXCEPT ![c] = s]
    BY <1>6
  <2> HIDE DEF s
  <2>3. Len(life[c]) <= Len(s)
    BY <1>1, <2>1
  <2> QED BY ONLY <1>5, <2>1, <2>2, <2>3, Zenon
<1>7. CASE Publishing!Approve(c)
  <2>1. life' = [life EXCEPT ![c] = Append(life[c], "APPROVED")] /\ UNCHANGED <<release, audit>>
    BY <1>7 DEF Publishing!Approve
  <2>2. CodesGrow
    BY <1>6, <2>1 DEF States
  <2> QED BY <1>3, <2>1, <2>2 DEF OneReleaseMoves
<1>8. CASE Publishing!Deprecate(c)
  <2>1. /\ life' = [life EXCEPT ![c] = Append(life[c], "DEPRECATED")] /\ UNCHANGED release
        /\ Publishing!LogAll("DEPRECATE", {<<c, Len(life[c]) + 1>>})
    BY <1>8 DEF Publishing!Deprecate
  <2>2. CodesGrow
    BY <1>6, <2>1 DEF States
  <2>3. AuditGrows
    BY <1>4, <2>1
  <2> QED BY <2>1, <2>2, <2>3 DEF OneReleaseMoves
<1>9. ASSUME NEW action, NEW state \in States, Publishing!EndDeprecation(c, action, state)
      PROVE  CodesGrow /\ AuditGrows /\ OneReleaseMoves
  <2>1. /\ life' = [life EXCEPT ![c] = [life[c] EXCEPT ![Len(life[c])] = state]]
        /\ UNCHANGED release /\ life[c] # <<>>
        /\ Publishing!LogAll(action, {<<c, Len(life[c])>>})
    BY <1>9 DEF Publishing!EndDeprecation
  <2>2. CodesGrow
    <3> DEFINE s == [life[c] EXCEPT ![Len(life[c])] = state]
    <3>1. s \in Seq(States) /\ Len(s) = Len(life[c])
      BY <1>1, <2>1
    <3>2. life' = [life EXCEPT ![c] = s]
      BY <2>1
    <3> HIDE DEF s
    <3>3. Len(life[c]) <= Len(s)
      BY <1>1, <3>1
    <3> QED BY ONLY <1>5, <3>1, <3>2, <3>3, Zenon
  <2>3. AuditGrows
    BY <1>4, <2>1
  <2> QED BY <2>1, <2>2, <2>3 DEF OneReleaseMoves
<1> QED BY <1>7, <1>8, <1>9 DEF Publishing!archive, Publishing!reinstate, States

LEMMA ReleaseSteps ==
  ASSUME PublishingInv, NEW r \in ReleaseIds, Publishing!set_items(r) \/ Publishing!publish(r)
  PROVE  CodesGrow /\ AuditGrows /\ OneReleaseMoves
<1>1. release \in [ReleaseIds -> PublishedRelease] /\ release[r] \in PublishedRelease
      /\ release[r].status = "BUILDING"
  BY DEF PublishingInv, Publishing!set_items, Publishing!publish
<1>2. CASE Publishing!set_items(r)
  <2>1. PICK items \in SUBSET Publishing!Revisions :
          release' = [release EXCEPT ![r].items = items] /\ UNCHANGED <<life, audit>>
    BY <1>2 DEF Publishing!set_items
  <2>2. items \in SUBSET (FeedCodes \X (1 .. FeedRevisions))
    BY DEF Publishing!Revisions
  <2>3. release' = [release EXCEPT ![r] = [release[r] EXCEPT !.items = items]]
    BY <2>1
  <2>4. /\ [release[r] EXCEPT !.items = items] \in PublishedRelease
        /\ [release[r] EXCEPT !.items = items].items = items
        /\ [release[r] EXCEPT !.items = items].status = "BUILDING"
    BY ONLY <1>1, <2>2 DEF PublishedRelease
  <2>5. OneReleaseMoves
    BY <1>1, <2>1, <2>3, <2>4 DEF OneReleaseMoves
  <2> QED BY <2>1, <2>5 DEF PublishingInv, CodesGrow, AuditGrows, IsLog
<1>3. CASE Publishing!publish(r)
  <2> DEFINE items == release[r].items
             published_one == [release[r] EXCEPT !.status = "PUBLISHED", !.at = Len(audit) + 1]
  <2>1. /\ items # {} /\ Publishing!LogAll("RELEASE_PUBLISH", items)
        /\ life' = [c \in FeedCodes |-> [n \in 1 .. Len(life[c]) |->
                      IF <<c, n>> \in items THEN "RELEASED" ELSE life[c][n]]]
        /\ release' = [release EXCEPT ![r] = published_one]
    BY <1>3 DEF Publishing!publish
  <2>2. items \in SUBSET (FeedCodes \X (1 .. FeedRevisions)) /\ items \subseteq Publishing!Revisions
    BY <1>1 DEF PublishedRelease, PublishingInv
  <2>3. IsFiniteSet(items) /\ Cardinality(items) \in Nat /\ Cardinality(items) > 0
    BY <2>1, <2>2, ItemsAreFinite
  <2>4. AuditGrows /\ Len(audit) < Len(audit')
    BY <2>1, <2>3, LogGrows DEF PublishingInv, AuditGrows
  <2>5. ASSUME NEW c \in FeedCodes
        PROVE  life'[c] \in Seq(States) /\ Len(life'[c]) = Len(life[c]) /\ Len(life[c]) \in Nat
    <3>1. life[c] \in Seq(States)
      BY DEF PublishingInv
    <3>2. life'[c] = [n \in 1 .. Len(life[c]) |->
                        IF <<c, n>> \in items THEN "RELEASED" ELSE life[c][n]]
      BY <2>1
    <3>3. life'[c] \in [1 .. Len(life[c]) -> States]
      BY <3>1, <3>2 DEF States
    <3> QED BY <3>1, <3>3
  <2>6. CodesGrow
    BY <2>1, <2>5 DEF CodesGrow
  <2>7. /\ published_one \in PublishedRelease /\ published_one.items = items
        /\ published_one.at = Len(audit) + 1
    <3>1. Len(audit) + 1 \in Nat
      BY <2>4 DEF AuditGrows
    <3> QED BY ONLY <1>1, <3>1 DEF PublishedRelease, published_one, items
  <2> HIDE DEF published_one
  <2>8. OneReleaseMoves
    BY <1>1, <2>1, <2>2, <2>4, <2>7 DEF OneReleaseMoves
  <2> QED BY <2>4, <2>6, <2>8
<1> QED BY <1>2, <1>3

LEMMA PublishingMoves ==
  ASSUME PublishingInv, [Publishing!Next]_publishing
  PROVE  CodesGrow /\ AuditGrows /\ OneReleaseMoves
<1>1. CASE UNCHANGED <<life, release, audit>>
  BY <1>1 DEF PublishingInv, CodesGrow, AuditGrows, OneReleaseMoves, IsLog
<1> QED BY <1>1, CodeSteps, ReleaseSteps DEF Publishing!Next, Publishing!Poll, publishing

LEMMA PublishingStep ==
  ASSUME PublishingInv, CodesGrow, AuditGrows, OneReleaseMoves
  PROVE  /\ PublishingInv'
         /\ \A r \in Publishing!Published : r \in Publishing!Published' /\ release'[r] = release[r]
         /\ \A r \in Publishing!Published' \ Publishing!Published : release'[r].at > Len(audit)
<1>1. Publishing!Revisions \subseteq Publishing!Revisions'
  BY DEF CodesGrow, Publishing!Revisions
<1>2. \A r \in ReleaseIds : release'[r].items \subseteq Publishing!Revisions'
  BY <1>1 DEF OneReleaseMoves, PublishingInv
<1>3. \A r \in Publishing!Published : r \in Publishing!Published' /\ release'[r] = release[r]
  BY DEF OneReleaseMoves, Publishing!Published
<1>4. \A r \in Publishing!Published' \ Publishing!Published :
        /\ release'[r].at = Len(audit) + 1 /\ Len(audit) < Len(audit')
        /\ \A p \in Publishing!Published' \ {r} : p \in Publishing!Published
  BY DEF OneReleaseMoves, Publishing!Published
<1>5. release' \in [ReleaseIds -> PublishedRelease]
  BY DEF OneReleaseMoves, PublishingInv
<1>6. Len(audit) \in Nat /\ Len(audit') \in Nat /\ Len(audit) <= Len(audit')
  BY DEF AuditGrows
<1>7. \A r \in Publishing!Published : release[r].at \in Nat
  BY DEF PublishingInv, PublishedRelease, Publishing!Published
<1>8. \A r \in Publishing!Published' :
        /\ 0 < release'[r].at /\ release'[r].at <= Len(audit')
        /\ \A p \in Publishing!Published' \ {r} : release'[p].at # release'[r].at
  <2> TAKE r \in Publishing!Published'
  <2>1. CASE r \in Publishing!Published
    BY <1>3, <1>4, <1>6, <1>7, <2>1 DEF PublishingInv
  <2>2. CASE r \notin Publishing!Published
    BY <1>3, <1>4, <1>6, <1>7, <2>2 DEF PublishingInv
  <2> QED BY <2>1, <2>2
<1>9. \A r \in Publishing!Published' \ Publishing!Published : release'[r].at > Len(audit)
  BY <1>4, <1>6
<1> QED BY <1>2, <1>3, <1>5, <1>8, <1>9 DEF PublishingInv, CodesGrow, AuditGrows

\* A Release that was published after r changes neither the baseline nor the notes of r.
LEMMA DocumentsStand ==
  ASSUME PublishingInv, CodesGrow, AuditGrows, OneReleaseMoves, NEW r \in Publishing!Published
  PROVE  /\ Publishing!Baseline(r)' = Publishing!Baseline(r)
         /\ Publishing!Notes(r)' = Publishing!Notes(r)
<1>1. /\ PublishingInv' /\ r \in Publishing!Published' /\ release'[r] = release[r]
      /\ \A p \in Publishing!Published : p \in Publishing!Published' /\ release'[p] = release[p]
      /\ \A p \in Publishing!Published' \ Publishing!Published : release'[p].at > Len(audit)
  BY PublishingStep
<1>2. /\ release[r].at \in Nat /\ release[r].at <= Len(audit) /\ Len(audit) \in Nat
      /\ \A p \in Publishing!Published' : release'[p].at \in Nat
      /\ release[r].items \subseteq Publishing!Revisions
  BY <1>1 DEF PublishingInv, AuditGrows, Publishing!Published, PublishedRelease
<1>3. \A p \in Publishing!Published' : release'[p].at <= release[r].at => p \in Publishing!Published
  BY <1>1, <1>2
<1>4. Publishing!Members(r)' = Publishing!Members(r)
        /\ \A p \in Publishing!Members(r) : release'[p] = release[p]
  BY <1>1, <1>3 DEF Publishing!Members
<1>5. Publishing!Baseline(r)' = Publishing!Baseline(r)
  <2>1. UNION {release'[p].items : p \in Publishing!Members(r)'}
          = UNION {release[p].items : p \in Publishing!Members(r)}
    BY <1>4
  <2> QED BY <2>1 DEF Publishing!Baseline
<1>6. Publishing!previous_release(r)' = Publishing!previous_release(r)
  <2> DEFINE Earlier == {p \in Publishing!Published : release[p].at < release[r].at}
  <2>1. Earlier' = Earlier /\ \A p \in Earlier : release'[p] = release[p]
    BY <1>1, <1>2, <1>3
  <2>2. Publishing!previous_release(r)
          = {p \in Earlier \ {r} : \A q \in Earlier \ {r} : release[q].at <= release[p].at}
    BY DEF Publishing!previous_release
  <2>3. Publishing!previous_release(r)'
          = {p \in Earlier' \ {r} : \A q \in Earlier' \ {r} : release'[q].at <= release'[p].at}
    BY <1>1 DEF Publishing!previous_release
  <2> HIDE DEF Earlier
  <2> QED BY <2>1, <2>2, <2>3
<1>7. Publishing!Added(r)' = Publishing!Added(r)
  <2>1. ASSUME NEW v \in release[r].items
        PROVE  Publishing!baseline_for(v)' = Publishing!baseline_for(v)
    <3>1. /\ v[1] \in FeedCodes /\ v[2] \in Int /\ 1 <= v[2] /\ v[2] <= Len(life[v[1]])
          /\ life[v[1]] \in Seq(States) /\ life'[v[1]] \in Seq(States)
          /\ Len(life[v[1]]) <= Len(life'[v[1]])
      BY <1>2 DEF Publishing!Revisions, PublishingInv, CodesGrow
    <3>2. \A n \in 1 .. v[2] - 1 : life[v[1]][n] \in States /\ life'[v[1]][n] \in States
      BY <3>1
    <3> QED BY <3>2 DEF Publishing!baseline_for, States
  <2> QED BY <1>1, <2>1 DEF Publishing!Added
<1>8. Publishing!Deprecated(r)' = Publishing!Deprecated(r)
  <2>1. \A p \in Publishing!previous_release(r) : release'[p] = release[p]
    BY <1>1 DEF Publishing!previous_release
  <2>2. /\ Len(audit') \in Nat /\ Len(audit) <= Len(audit')
        /\ \A i \in 1 .. Len(audit) : audit'[i] = audit[i]
    BY DEF AuditGrows
  <2>3. Publishing!Deprecated(r) =
          {i \in 1 .. Len(audit) :
             /\ audit[i].action = "DEPRECATE"
             /\ \A p \in Publishing!previous_release(r) : i > release[p].at
             /\ i <= release[r].at}
    BY DEF Publishing!Deprecated
  <2>4. Publishing!Deprecated(r)' =
          {i \in 1 .. Len(audit') :
             /\ audit'[i].action = "DEPRECATE"
             /\ \A p \in Publishing!previous_release(r) : i > release'[p].at
             /\ i <= release[r].at}
    BY <1>1, <1>6 DEF Publishing!Deprecated
  <2>5. \A i \in 1 .. Len(audit') : i <= release[r].at => i \in 1 .. Len(audit)
    BY <1>2, <2>2
  <2>6. \A i \in 1 .. Len(audit) : i \in 1 .. Len(audit')
    BY <1>2, <2>2
  <2> QED BY <2>1, <2>2, <2>3, <2>4, <2>5, <2>6
<1> QED BY <1>1, <1>5, <1>6, <1>7, <1>8 DEF Publishing!Notes

\* A deprecation is told in the notes of the first Release that is published after it.
LEMMA ToldOnce ==
  ASSUME PublishingInv
  PROVE  Publishing!DeprecationsAreToldOnce
<1> SUFFICES ASSUME NEW i \in 1 .. Len(audit), audit[i].action = "DEPRECATE",
                    \E r \in Publishing!Published : i <= release[r].at
             PROVE  Cardinality({r \in Publishing!Published : i \in Publishing!Deprecated(r)}) = 1
  BY DEF Publishing!DeprecationsAreToldOnce, Publishing!Cardinality, Cardinality
<1> DEFINE After == {r \in Publishing!Published : i <= release[r].at}
<1>1. /\ Len(audit) \in Nat /\ i \in Nat
      /\ \A r \in Publishing!Published : release[r].at \in 0 .. Len(audit)
      /\ \A r, p \in Publishing!Published : release[p].at = release[r].at => p = r
  BY DEF PublishingInv, IsLog, PublishedRelease, Publishing!Published
<1>2. PICK first \in After : \A r \in After : release[first].at <= release[r].at
  <2> DEFINE T == {release[r].at : r \in After}
  <2>1. \A r \in After : release[r].at \in Nat
    BY <1>1
  <2>2. T \subseteq Nat /\ T # {}
    BY <2>1
  <2>3. PICK t \in T : \A u \in T : t <= u
    <3> HIDE DEF T
    <3> QED BY <2>2, LeastNumber
  <2> QED BY <2>3
<1>3. i \in Publishing!Deprecated(first)
  <2>1. \A p \in Publishing!previous_release(first) :
          p \in Publishing!Published /\ release[p].at < release[first].at
    BY DEF Publishing!previous_release
  <2>2. \A p \in Publishing!previous_release(first) : i > release[p].at
    BY <1>1, <1>2, <2>1
  <2> QED BY <2>2 DEF Publishing!Deprecated
<1>4. ASSUME NEW r \in Publishing!Published, i \in Publishing!Deprecated(r)
      PROVE  r = first
  <2> SUFFICES ASSUME r # first PROVE FALSE
    OBVIOUS
  <2>1. r \in After
    BY <1>4 DEF Publishing!Deprecated
  <2>2. release[first].at < release[r].at
    BY <1>1, <1>2, <2>1
  <2> DEFINE Earlier == {p \in Publishing!Published : release[p].at < release[r].at} \ {r}
             T == {release[p].at : p \in Earlier}
  <2>3. first \in Earlier
    BY <2>2
  <2>4. T \subseteq 0 .. Len(audit) /\ T # {}
    BY <1>1, <2>3
  <2>5. PICK t \in T : \A u \in T : u <= t
    <3> HIDE DEF T
    <3> QED BY <1>1, <2>4, GreatestNumber
  <2>6. PICK p \in Earlier : \A q \in Earlier : release[q].at <= release[p].at
    BY <2>5
  <2>7. p \in Publishing!previous_release(r)
    BY <2>6 DEF Publishing!previous_release
  <2>8. i > release[p].at
    BY <1>4, <2>7 DEF Publishing!Deprecated
  <2>9. release[first].at <= release[p].at /\ i <= release[first].at
    BY <2>3, <2>6
  <2> QED BY <1>1, <2>6, <2>8, <2>9
<1>5. {r \in Publishing!Published : i \in Publishing!Deprecated(r)} = {first}
  BY <1>3, <1>4
<1> QED BY <1>5, FS_Singleton

\* ReleasesStand: what is told about a published Release - its baseline, and the release
\* notes against the Release before it - is the same for ever, and a deprecation is told in
\* the notes of exactly one Release, however many are built and published
\* (services/release_service.py, services/release_notes_service.py).
THEOREM OutsideReleasesStand == OutsideSpec => ReleasesStand
<1>1. OutsideInit => PublishingInv
  BY PublishingBegins DEF OutsideInit
<1>2. [OutsideNext]_outside => [Publishing!Next]_publishing
  BY DEF OutsideNext, Only, outside
<1>3. PublishingInv /\ [Publishing!Next]_publishing => PublishingInv'
  BY PublishingMoves, PublishingStep
<1>4. PublishingInv => Publishing!DeprecationsAreToldOnce
  BY ToldOnce
<1>5. PublishingInv /\ [Publishing!Next]_publishing =>
        /\ [\A r \in Publishing!Published : Publishing!Baseline(r)' = Publishing!Baseline(r)]_publishing
        /\ [\A r \in Publishing!Published : Publishing!Notes(r)' = Publishing!Notes(r)]_publishing
  BY PublishingMoves, DocumentsStand
<1> QED BY <1>1, <1>2, <1>3, <1>4, <1>5, PTL
        DEF OutsideSpec, ReleasesStand, Publishing!BaselinesStand, Publishing!NotesStand,
            Publishing!vars, publishing

\* What the consumer of the feed and the readers of the log rely on: the log tells of
\* revisions that are there, and the cursor is not past its end.
FeedFits ==
  /\ \A c \in FeedCodes : Len(life[c]) <= FeedRevisions
  /\ \A r \in ReleaseIds : release[r].at = 0 <=> release[r].status = "BUILDING"
  /\ \A i \in 1 .. Len(audit) : audit[i].revision \in Publishing!Revisions
  /\ poller.since \in 0 .. Len(audit)

\* The set as a sequence.
LEMMA ListedAreMembers ==
  ASSUME NEW S, IsFiniteSet(S)
  PROVE  Publishing!SetToSeq(S) \in [1 .. Cardinality(S) -> S]
<1> DEFINE n == Cardinality(S)
<1>1. n \in Nat /\ ExistsBijection(1 .. n, S)
  BY FS_CardinalityType
<1>2. PICK g \in Bijection(1 .. n, S) : TRUE
  BY <1>1 DEF ExistsBijection
<1>3. g \in [1 .. n -> S] /\ \A a, b \in DOMAIN g : g[a] = g[b] => a = b
  BY <1>2 DEF Bijection, Injection, IsInjective
<1>4. Publishing!SetToSeq(S) =
        CHOOSE f \in [1 .. n -> S] : \A a, b \in DOMAIN f : f[a] = f[b] => a = b
  BY DEF Publishing!SetToSeq, Publishing!IsInjective, Publishing!Cardinality, Cardinality
<1> HIDE DEF n
<1>5. Publishing!SetToSeq(S) \in [1 .. n -> S]
  BY <1>3, <1>4
<1> QED BY <1>5 DEF n

\* What LogAll adds tells of its revisions.
LEMMA LogTells ==
  ASSUME IsLog(audit), NEW action, NEW revs, IsFiniteSet(revs), Publishing!LogAll(action, revs)
  PROVE  \A i \in 1 .. Len(audit') : i \notin 1 .. Len(audit) => audit'[i].revision \in revs
<1> DEFINE n == Cardinality(revs)
           listed == Publishing!SetToSeq(revs)
           more == [i \in 1 .. n |-> [action |-> action, revision |-> listed[i]]]
<1>1. n \in Nat /\ listed \in [1 .. n -> revs]
  BY FS_CardinalityType, ListedAreMembers
<1>2. audit' = audit \o more
  BY DEF Publishing!LogAll, Publishing!Cardinality, Cardinality
<1>3. Len(audit') = Len(audit) + n /\ Len(audit) \in Nat
  BY LogGrows DEF IsLog
<1> HIDE DEF n, listed
<1>4. \A i \in 1 .. n : more[i].revision \in revs
  BY <1>1
<1>5. more \in Seq({more[i] : i \in 1 .. n}) /\ Len(more) = n
  <2>1. DOMAIN more = 1 .. n /\ more = [i \in 1 .. n |-> more[i]]
    OBVIOUS
  <2> HIDE DEF more
  <2> QED BY <1>1, <2>1
<1> HIDE DEF more
<1>6. ASSUME NEW i \in 1 .. Len(audit'), i \notin 1 .. Len(audit)
      PROVE  audit'[i].revision \in revs
  <2>1. i - Len(audit) \in 1 .. n /\ Len(audit) + (i - Len(audit)) = i
    BY <1>1, <1>3, <1>6
  <2>2. ASSUME NEW k \in 1 .. n PROVE (audit \o more)[Len(audit) + k] = more[k]
    <3> DEFINE S == {audit[j] : j \in 1 .. Len(audit)} \cup {more[j] : j \in 1 .. n}
    <3>1. audit \in Seq(S) /\ more \in Seq(S) /\ Len(more) = n
      BY <1>5 DEF IsLog
    <3> HIDE DEF S
    <3> QED BY <3>1, <1>1, <1>3
  <2> QED BY <1>2, <1>4, <2>1, <2>2
<1> QED BY <1>6

\* A page ends where the log ends at the latest, and its end is the next cursor.
LEMMA PageEnds ==
  ASSUME NEW n \in 0 .. Len(audit), Len(audit) \in Nat
  PROVE  Publishing!Page(n).next \in 0 .. Len(audit)
<1> DEFINE last == Len(audit)
           all == [i \in 1 .. last |-> i]
           ids == SubSeq(all, n + 1, last)
           end == Publishing!Min({Len(ids), PageSize})
           items == SubSeq(ids, 1, end)
<1>1. Publishing!Page(n).next = IF items = <<>> THEN n ELSE items[Len(items)]
  BY DEF Publishing!Page, Publishing!Last
<1>2. last \in Nat /\ n \in Nat /\ n <= last /\ PageSize \in Nat /\ PageSize >= 1
  BY PublishingAssumption DEF PublishingAssumption, Publishing!LimitAssumption
<1> HIDE DEF last
<1>3. all \in Seq(Nat) /\ Len(all) = last /\ \A i \in 1 .. last : all[i] = i
  BY <1>2
<1> HIDE DEF all
<1>4. ids \in Seq(Nat) /\ Len(ids) = last - n /\ \A i \in 1 .. last - n : ids[i] = n + i
  BY <1>2, <1>3
<1> HIDE DEF ids
<1>5. end \in Nat /\ end <= last - n
  <2> DEFINE S == {Len(ids), PageSize}
  <2>1. \E x \in S : \A y \in S : x <= y
    BY <1>2, <1>4
  <2>2. end \in S /\ \A y \in S : end <= y
    BY <2>1 DEF Publishing!Min
  <2> HIDE DEF end
  <2> QED BY <2>2, <1>2, <1>4
<1> HIDE DEF end
<1>6. items \in Seq(Nat) /\ Len(items) = end /\ \A i \in 1 .. end : items[i] = n + i
  BY <1>2, <1>4, <1>5
<1> HIDE DEF items
<1>7. (IF items = <<>> THEN n ELSE items[Len(items)]) = n + end
  BY <1>2, <1>5, <1>6
<1> QED BY <1>1, <1>2, <1>5, <1>7 DEF last

\* Revisions and entries are added, and the new entries tell of revisions that are there.
LEMMA FeedGrows ==
  ASSUME PublishingInv, FeedFits, CodesGrow, AuditGrows, UNCHANGED poller,
         \A c \in FeedCodes : Len(life'[c]) <= FeedRevisions,
         \A r \in ReleaseIds : release'[r].at = 0 <=> release'[r].status = "BUILDING",
         \A i \in 1 .. Len(audit') :
           i \notin 1 .. Len(audit) => audit'[i].revision \in Publishing!Revisions'
  PROVE  FeedFits'
<1>1. Publishing!Revisions \subseteq Publishing!Revisions'
  BY DEF CodesGrow, Publishing!Revisions
<1>2. \A i \in 1 .. Len(audit') : audit'[i].revision \in Publishing!Revisions'
  BY <1>1 DEF FeedFits, AuditGrows
<1>3. poller'.since \in 0 .. Len(audit')
  BY DEF FeedFits, AuditGrows
<1> QED BY <1>2, <1>3 DEF FeedFits

LEMMA FeedOfOne ==
  ASSUME PublishingInv, FeedFits, NEW c \in FeedCodes,
         \/ Publishing!Approve(c) \/ Publishing!Deprecate(c)
         \/ Publishing!archive(c) \/ Publishing!reinstate(c)
  PROVE  FeedFits'
<1>1. CodesGrow /\ AuditGrows
  BY CodeSteps
<1>2. /\ life \in [FeedCodes -> Seq(States)] /\ life[c] \in Seq(States) /\ Len(life[c]) \in Nat
      /\ IsLog(audit) /\ FeedRevisions \in Nat
      /\ \A k \in FeedCodes : Len(life[k]) <= FeedRevisions
      /\ \A r \in ReleaseIds : release[r].at = 0 <=> release[r].status = "BUILDING"
  BY PublishingAssumption
  DEF PublishingAssumption, Publishing!LimitAssumption, PublishingInv, FeedFits
<1>3. UNCHANGED <<release, poller>>
  BY DEF Publishing!Approve, Publishing!Deprecate, Publishing!archive, Publishing!reinstate,
     Publishing!EndDeprecation
<1>4. ASSUME NEW s, Len(s) <= FeedRevisions, life' = [life EXCEPT ![c] = s]
      PROVE  life'[c] = s /\ \A k \in FeedCodes : Len(life'[k]) <= FeedRevisions
  BY <1>2, <1>4
<1>5. ASSUME NEW n \in 1 .. FeedRevisions, n <= Len(life'[c]), NEW action,
             Publishing!LogAll(action, {<<c, n>>})
      PROVE  \A i \in 1 .. Len(audit') :
               i \notin 1 .. Len(audit) => audit'[i].revision \in Publishing!Revisions'
  <2> DEFINE revs == {<<c, n>>}
  <2>1. revs \subseteq Publishing!Revisions'
    BY <1>5 DEF Publishing!Revisions
  <2>2. IsFiniteSet(revs)
    BY FS_Singleton
  <2> HIDE DEF revs
  <2>3. Publishing!LogAll(action, revs)
    BY <1>5 DEF revs
  <2> QED BY <1>2, <2>1, <2>2, <2>3, LogTells
<1>6. CASE Publishing!Approve(c)
  <2> DEFINE s == Append(life[c], "APPROVED")
  <2>1. Len(s) <= FeedRevisions
    BY <1>2, <1>6 DEF Publishing!Approve
  <2>2. life' = [life EXCEPT ![c] = s] /\ UNCHANGED audit
    BY <1>6 DEF Publishing!Approve
  <2> HIDE DEF s
  <2> QED BY <1>1, <1>2, <1>3, <1>4, <2>1, <2>2, FeedGrows
<1>7. CASE Publishing!Deprecate(c)
  <2> DEFINE s == Append(life[c], "DEPRECATED")
             n == Len(life[c]) + 1
  <2>1. n <= Len(s) /\ Len(s) <= FeedRevisions /\ n \in 1 .. FeedRevisions
    BY <1>2, <1>7 DEF Publishing!Deprecate
  <2>2. life' = [life EXCEPT ![c] = s] /\ Publishing!LogAll("DEPRECATE", {<<c, n>>})
    BY <1>7 DEF Publishing!Deprecate
  <2> HIDE DEF s, n
  <2> QED BY <1>1, <1>2, <1>3, <1>4, <1>5, <2>1, <2>2, FeedGrows
<1>8. ASSUME NEW action, NEW state, Publishing!EndDeprecation(c, action, state)
      PROVE  FeedFits'
  <2> DEFINE n == Len(life[c])
             s == [life[c] EXCEPT ![n] = state]
  <2>1. life' = [life EXCEPT ![c] = s] /\ Publishing!LogAll(action, {<<c, n>>}) /\ life[c] # <<>>
    BY <1>8 DEF Publishing!EndDeprecation
  <2>2. n \in 1 .. FeedRevisions
    BY <1>2, <2>1
  <2>3. Len(s) = n
    <3>1. DOMAIN s = 1 .. n
      BY <1>2
    <3> HIDE DEF s
    <3> QED BY <2>2, <3>1
  <2> HIDE DEF s, n
  <2> QED BY <1>1, <1>2, <1>3, <1>4, <1>5, <2>1, <2>2, <2>3, FeedGrows
<1> QED BY <1>6, <1>7, <1>8 DEF Publishing!archive, Publishing!reinstate

LEMMA FeedOfRelease ==
  ASSUME PublishingInv, FeedFits, NEW r \in ReleaseIds,
         Publishing!set_items(r) \/ Publishing!publish(r)
  PROVE  FeedFits'
<1>1. CodesGrow /\ AuditGrows
  BY ReleaseSteps
<1>2. /\ release \in [ReleaseIds -> PublishedRelease] /\ release[r] \in PublishedRelease
      /\ IsLog(audit) /\ Len(audit) \in Nat
      /\ \A c \in FeedCodes : Len(life[c]) <= FeedRevisions /\ Len(life[c]) \in Nat
      /\ \A q \in ReleaseIds : release[q].at = 0 <=> release[q].status = "BUILDING"
  BY DEF PublishingInv, FeedFits, IsLog
<1>3. CASE Publishing!set_items(r)
  <2>1. PICK items : release' = [release EXCEPT ![r].items = items]
                     /\ UNCHANGED <<life, audit, poller>>
    BY <1>3 DEF Publishing!set_items
  <2>2. [release[r] EXCEPT !.items = items].at = release[r].at
        /\ [release[r] EXCEPT !.items = items].status = release[r].status
    BY ONLY <1>2 DEF PublishedRelease
  <2>3. \A q \in ReleaseIds : release'[q].at = release[q].at /\ release'[q].status = release[q].status
    BY <1>2, <2>1, <2>2
  <2> QED BY <1>1, <1>2, <2>1, <2>3, FeedGrows
<1>4. CASE Publishing!publish(r)
  <2> DEFINE items == release[r].items
             published_one == [release[r] EXCEPT !.status = "PUBLISHED", !.at = Len(audit) + 1]
  <2>1. /\ Publishing!LogAll("RELEASE_PUBLISH", items) /\ UNCHANGED poller
        /\ life' = [c \in FeedCodes |-> [n \in 1 .. Len(life[c]) |->
                      IF <<c, n>> \in items THEN "RELEASED" ELSE life[c][n]]]
        /\ release' = [release EXCEPT ![r] = published_one]
    BY <1>4 DEF Publishing!publish
  <2>2. items \in SUBSET (FeedCodes \X (1 .. FeedRevisions)) /\ items \subseteq Publishing!Revisions
    BY <1>2 DEF PublishedRelease, PublishingInv
  <2>3. items \subseteq Publishing!Revisions'
    BY <1>1, <2>2 DEF CodesGrow, Publishing!Revisions
  <2>4. IsFiniteSet(items)
    BY <2>2, ItemsAreFinite
  <2>5. published_one.at # 0 /\ published_one.status = "PUBLISHED"
    <3>1. Len(audit) + 1 # 0
      BY <1>2
    <3> QED BY ONLY <1>2, <3>1 DEF PublishedRelease, published_one
  <2> HIDE DEF published_one, items
  <2>6. ASSUME NEW c \in FeedCodes PROVE Len(life'[c]) <= FeedRevisions
    <3>1. DOMAIN life'[c] = 1 .. Len(life[c])
      BY <2>1
    <3>2. Len(life'[c]) = Len(life[c])
      BY <3>1, <1>2
    <3> QED BY <1>2, <3>2
  <2>7. \A q \in ReleaseIds : release'[q].at = 0 <=> release'[q].status = "BUILDING"
    BY <1>2, <2>1, <2>5
  <2>8. \A i \in 1 .. Len(audit') :
          i \notin 1 .. Len(audit) => audit'[i].revision \in Publishing!Revisions'
    BY <1>2, <2>1, <2>3, <2>4, LogTells
  <2> QED BY <1>1, <2>1, <2>6, <2>7, <2>8, FeedGrows
<1> QED BY <1>3, <1>4

LEMMA FeedStep ==
  ASSUME PublishingInv, FeedFits, [Publishing!Next]_publishing
  PROVE  FeedFits'
<1>1. CASE UNCHANGED publishing
  BY <1>1 DEF publishing, FeedFits, Publishing!Revisions
<1>2. CASE Publishing!Poll
  <2>1. poller.since \in 0 .. Len(audit) /\ Len(audit) \in Nat
    BY DEF FeedFits, PublishingInv, IsLog
  <2>2. Publishing!Page(poller.since).next \in 0 .. Len(audit)
    BY <2>1, PageEnds
  <2>3. UNCHANGED <<life, release, audit>> /\ poller'.since \in 0 .. Len(audit)
    BY <1>2, <2>1, <2>2 DEF Publishing!Poll
  <2> QED BY <2>3 DEF FeedFits, Publishing!Revisions
<1> QED BY <1>1, <1>2, FeedOfOne, FeedOfRelease DEF Publishing!Next

LEMMA PublicationFits ==
  ASSUME PublishingInv, FeedFits
  PROVE  Publishing!PublicationTypeOK
<1>1. ASSUME NEW v \in Publishing!Revisions
      PROVE  Publishing!Life(v) \in States
  <2>1. life[v[1]] \in Seq(States) /\ v[2] \in 1 .. Len(life[v[1]])
    BY DEF PublishingInv, Publishing!Revisions
  <2> QED BY <2>1 DEF Publishing!Life
<1>2. ASSUME NEW r \in ReleaseIds
      PROVE  /\ release[r].status \in {"BUILDING", "PUBLISHED"}
             /\ release[r].items \subseteq Publishing!Revisions
             /\ (release[r].at = 0) = (r \notin Publishing!Published)
  <2>1. /\ release[r].status \in {"BUILDING", "PUBLISHED"}
        /\ release[r].items \subseteq Publishing!Revisions
        /\ release[r].at = 0 <=> release[r].status = "BUILDING"
    BY DEF PublishingInv, PublishedRelease, FeedFits
  <2> QED BY <2>1 DEF Publishing!Published
<1> QED BY <1>1, <1>2 DEF Publishing!PublicationTypeOK, States, FeedFits

LEMMA PublicationIsTyped == OutsideSpec => []Publishing!PublicationTypeOK
<1>1. OutsideInit => PublishingInv /\ FeedFits
  <2> SUFFICES ASSUME OutsideInit PROVE PublishingInv /\ FeedFits
    OBVIOUS
  <2>1. PublishingInv /\ Publishing!Init
    BY PublishingBegins DEF OutsideInit
  <2>2. FeedRevisions \in Nat /\ audit = <<>>
    BY <2>1, PublishingAssumption
    DEF PublishingAssumption, Publishing!LimitAssumption, Publishing!Init
  <2> QED BY <2>1, <2>2 DEF Publishing!Init, FeedFits
<1>2. [OutsideNext]_outside => [Publishing!Next]_publishing
  BY DEF OutsideNext, Only, outside
<1>3. PublishingInv /\ FeedFits /\ [Publishing!Next]_publishing => PublishingInv' /\ FeedFits'
  BY PublishingMoves, PublishingStep, FeedStep
<1>4. PublishingInv /\ FeedFits => Publishing!PublicationTypeOK
  BY PublicationFits
<1> QED BY <1>1, <1>2, <1>3, <1>4, PTL DEF OutsideSpec

-----------------------------------------------------------------------------
(* The audit trail.  What nobody altered is a chain from its first entry,  *)
(* and a chain stays broken where it was: entries are only added behind.   *)
(* As a hash is what it was computed from, the last one of a chain tells   *)
(* all of it.                                                              *)

Archive == [first : Nat, last : Nat]
Content == Nat \X Archive
Entry == [at : Nat, tells : Archive, prev : Seq(Content), hash : Seq(Content)]
Logged == [at : Nat, tells : Archive]

Sealed(rows) ==
  \A i \in 1 .. Len(rows) :
    /\ rows[i].prev = IF i = 1 THEN <<>> ELSE rows[i - 1].hash
    /\ rows[i].hash = Append(rows[i].prev, <<rows[i].at, rows[i].tells>>)

Begins(s, t) == Len(s) <= Len(t) /\ \A i \in 1 .. Len(s) : t[i] = s[i]

\* Entries are dated in their order, none later than t; new ones come after the stored.
Dated(rows, new, t) ==
  /\ \A i \in 1 .. Len(rows) : 1 <= rows[i].at /\ rows[i].at <= t
  /\ \A i, j \in 1 .. Len(rows) : i <= j => rows[i].at <= rows[j].at
  /\ \A k \in 1 .. Len(new) : 1 <= new[k].at /\ new[k].at <= t
  /\ \A k, m \in 1 .. Len(new) : k <= m => new[k].at <= new[m].at
  /\ \A i \in 1 .. Len(rows), k \in 1 .. Len(new) : rows[i].at <= new[k].at

Tells(rows, j) == rows[j].tells # Trail!Work

\* One of the files holds the rows of a range.
InFile(files, range, rows) ==
  \E f \in files : /\ f.range = range
                  /\ \A i \in range.first .. range.last : i \in DOMAIN f.rows /\ f.rows[i] = rows[i]

\* What the log records as archived is before the record, follows what was archived
\* before, and is in a file.
Recorded(rows, files) ==
  \A j \in 1 .. Len(rows) : Tells(rows, j) =>
    /\ 1 <= rows[j].tells.first /\ rows[j].tells.first <= rows[j].tells.last
    /\ rows[j].tells.last < j
    /\ InFile(files, rows[j].tells, rows)

InOrder(rows) ==
  \A j, k \in 1 .. Len(rows) : Tells(rows, j) /\ Tells(rows, k) /\ j < k =>
    rows[j].tells.last < rows[k].tells.first

WithoutGaps(rows) ==
  \A j \in 1 .. Len(rows) : Tells(rows, j) =>
    \A i \in 1 .. rows[j].tells.last : \E k \in 1 .. j :
      Tells(rows, k) /\ rows[k].tells.first <= i /\ i <= rows[k].tells.last

Archived(rows, files) == Recorded(rows, files) /\ InOrder(rows) /\ WithoutGaps(rows)

TxOfTrail ==
  [who : {"nobody", "request", "verification", "anchor", "archive"},
   flushed : Seq(Entry), new : Seq(Logged), due : Archive]

TrailTypes ==
  /\ log \in Seq(Entry) /\ copy \in Seq(Entry) /\ vouched \in Seq(Entry)
  /\ now \in Nat /\ 1 <= now /\ altered \in BOOLEAN
  /\ verdict \in {"none", "ok", "broken"}
  /\ tx \in TxOfTrail
  /\ tx.who # "request" => tx.flushed = <<>> /\ tx.new = <<>>
  /\ \A i \in 1 .. Len(tx.flushed) : ~Tells(tx.flushed, i)
  /\ \A i \in 1 .. Len(tx.new) : ~Tells(tx.new, i)

\* While nobody altered the log.
Sound ==
  /\ Begins(copy, log)
  /\ Sealed(Trail!Stored)
  /\ Dated(Trail!Stored, tx.new, now)
  /\ Archived(log, archives)
  /\ tx.who = "archive" =>
       /\ tx.due.first = Trail!LastArchived + 1
       /\ tx.due.first <= tx.due.last /\ tx.due.last <= Len(log)
       /\ InFile(archives, tx.due, log)

\* What verifications know.
Vouching ==
  /\ Sealed(copy) /\ Sealed(vouched)
  /\ \/ anchor = Trail!None /\ vouched = <<>>
     \/ vouched # <<>> /\ anchor = [count |-> Len(vouched), head |-> vouched[Len(vouched)].hash]
  /\ tx.who \in {"verification", "anchor"} /\ verdict = "ok" => Sealed(log)
  /\ tx.who = "anchor" => verdict = "ok" /\ log # <<>>

TrailInv ==
  /\ TrailTypes
  /\ Vouching
  /\ altered => ~Sealed(log)
  /\ ~altered => Sound

LEMMA Sealing ==
  ASSUME NEW rows \in Seq(Entry)
  PROVE  Trail!LinksHold(rows) <=> Sealed(rows)
<1>1. ASSUME NEW i \in 1 .. Len(rows)
      PROVE  Trail!HeadOf(SubSeq(rows, 1, i - 1)) = IF i = 1 THEN <<>> ELSE rows[i - 1].hash
  <2>1. CASE i = 1
    BY <2>1 DEF Trail!HeadOf, Trail!Genesis
  <2>2. CASE i # 1
    <3>1. i - 1 \in 1 .. Len(rows) /\ Len(SubSeq(rows, 1, i - 1)) = i - 1
      BY <2>2
    <3>2. SubSeq(rows, 1, i - 1) # <<>> /\ SubSeq(rows, 1, i - 1)[i - 1] = rows[i - 1]
      BY <3>1
    <3> QED BY <2>2, <3>1, <3>2 DEF Trail!HeadOf
  <2> QED BY <2>1, <2>2
<1> QED BY <1>1 DEF Trail!LinksHold, Sealed, Trail!compute_hash

LEMMA Chaining ==
  ASSUME NEW rows \in Seq(Entry), NEW new \in Seq(Logged)
  PROVE  LET more == Trail!Chained(rows, new) IN
         /\ more \in Seq(Entry) /\ Len(more) = Len(new)
         /\ \A i \in 1 .. Len(new) :
              /\ more[i].at = new[i].at /\ more[i].tells = new[i].tells
              /\ more[i].prev = IF i = 1 THEN Trail!HeadOf(rows) ELSE more[i - 1].hash
              /\ more[i].hash = Append(more[i].prev, <<new[i].at, new[i].tells>>)
<1> DEFINE head == Trail!HeadOf(rows)
           upTo(i) == [k \in 1 .. i |-> <<new[k].at, new[k].tells>>]
           hash(i) == head \o upTo(i)
           more == Trail!Chained(rows, new)
<1>1. head \in Seq(Content)
  <2>1. rows # <<>> => rows[Len(rows)] \in Entry
    OBVIOUS
  <2>2. \A e \in Entry : e.hash \in Seq(Content)
    BY DEF Entry
  <2>3. <<>> \in Seq(Content)
    OBVIOUS
  <2> QED BY <2>1, <2>2, <2>3 DEF Trail!HeadOf, Trail!Genesis
<1>2. more = [i \in 1 .. Len(new) |-> [at |-> new[i].at, tells |-> new[i].tells,
                                      prev |-> hash(i - 1), hash |-> hash(i)]]
  BY DEF Trail!Chained
<1>3. \A k \in 1 .. Len(new) : <<new[k].at, new[k].tells>> \in Content
  <2>1. \A k \in 1 .. Len(new) : new[k] \in Logged
    OBVIOUS
  <2>2. \A e \in Logged : e.at \in Nat /\ e.tells \in Archive
    BY DEF Logged
  <2> HIDE DEF head, upTo, hash, more
  <2> QED BY <2>1, <2>2 DEF Content
<1>4. ASSUME NEW i \in 0 .. Len(new)
      PROVE  upTo(i) \in Seq(Content) /\ Len(upTo(i)) = i
  BY <1>3
<1>5. \A i \in 0 .. Len(new) : hash(i) \in Seq(Content)
  BY <1>1, <1>4
<1>6. hash(0) = head
  <2>1. upTo(0) = <<>>
    BY <1>4
  <2> QED BY <1>1, <2>1
<1>7. ASSUME NEW i \in 1 .. Len(new)
      PROVE  hash(i) = Append(hash(i - 1), <<new[i].at, new[i].tells>>)
  <2>1. i \in 0 .. Len(new) /\ i - 1 \in 0 .. Len(new)
    OBVIOUS
  <2>2. /\ upTo(i) \in Seq(Content) /\ Len(upTo(i)) = i
        /\ upTo(i - 1) \in Seq(Content) /\ Len(upTo(i - 1)) = i - 1
    BY <1>4, <2>1
  <2>3. upTo(i) = Append(upTo(i - 1), <<new[i].at, new[i].tells>>)
    <3>1. \A k \in 1 .. i - 1 : upTo(i)[k] = upTo(i - 1)[k]
      OBVIOUS
    <3>2. upTo(i)[i] = <<new[i].at, new[i].tells>>
      OBVIOUS
    <3> HIDE DEF upTo
    <3> QED BY <2>2, <3>1, <3>2
  <2> HIDE DEF upTo, head
  <2>4. head \o Append(upTo(i - 1), <<new[i].at, new[i].tells>>)
          = Append(head \o upTo(i - 1), <<new[i].at, new[i].tells>>)
    BY <1>1, <2>2
  <2> QED BY <2>3, <2>4
<1> HIDE DEF upTo, head, hash, more
<1>8. Len(new) \in Nat /\ DOMAIN more = 1 .. Len(new)
  BY <1>2
<1>9. \A i \in 1 .. Len(new) : more[i] \in Entry
  <2>1. \A i \in 1 .. Len(new) : new[i] \in Logged
    OBVIOUS
  <2>2. \A e \in Logged : e.at \in Nat /\ e.tells \in Archive
    BY DEF Logged
  <2>3. ASSUME NEW i \in 1 .. Len(new)
        PROVE  more[i] \in Entry
    <3>1. hash(i) \in Seq(Content) /\ hash(i - 1) \in Seq(Content)
      BY <1>5
    <3>2. more[i] = [at |-> new[i].at, tells |-> new[i].tells, prev |-> hash(i - 1), hash |-> hash(i)]
      BY <1>2
    <3> QED BY <2>1, <2>2, <3>1, <3>2 DEF Entry
  <2> QED BY <2>3
<1>10. more \in Seq(Entry) /\ Len(more) = Len(new)
  BY <1>2, <1>8, <1>9
<1>11. \A i \in 1 .. Len(new) : more[i].prev = IF i = 1 THEN head ELSE more[i - 1].hash
  BY <1>2, <1>6
<1>12. \A i \in 1 .. Len(new) : more[i].hash = Append(more[i].prev, <<new[i].at, new[i].tells>>)
  BY <1>2, <1>7
<1>13. \A i \in 1 .. Len(new) : more[i].at = new[i].at /\ more[i].tells = new[i].tells
  BY <1>2
<1> QED BY <1>10, <1>11, <1>12, <1>13 DEF more, head

\* Entries that are added behind: they continue a chain, and what was there stays.
LEMMA LogGrowsBy ==
  ASSUME NEW rows \in Seq(Entry), NEW new \in Seq(Logged)
  PROVE  LET all == rows \o Trail!Chained(rows, new) IN
         /\ all \in Seq(Entry) /\ Len(all) = Len(rows) + Len(new)
         /\ \A i \in 1 .. Len(rows) : all[i] = rows[i]
         /\ \A k \in 1 .. Len(new) : /\ all[Len(rows) + k].at = new[k].at
                                    /\ all[Len(rows) + k].tells = new[k].tells
         /\ Sealed(rows) => Sealed(all)
<1> DEFINE more == Trail!Chained(rows, new)
           all == rows \o more
<1>1. /\ more \in Seq(Entry) /\ Len(more) = Len(new)
      /\ \A i \in 1 .. Len(new) :
           /\ more[i].at = new[i].at /\ more[i].tells = new[i].tells
           /\ more[i].prev = IF i = 1 THEN Trail!HeadOf(rows) ELSE more[i - 1].hash
           /\ more[i].hash = Append(more[i].prev, <<new[i].at, new[i].tells>>)
  BY Chaining
<1> HIDE DEF more
<1>2. /\ all \in Seq(Entry) /\ Len(all) = Len(rows) + Len(more)
      /\ \A i \in 1 .. Len(rows) : all[i] = rows[i]
  <2>1. rows \in Seq(Entry) /\ more \in Seq(Entry)
    BY <1>1
  <2> QED BY ONLY <2>1, Concatenated
<1>3. \A k \in 1 .. Len(more) : all[Len(rows) + k] = more[k]
  BY <1>1
<1>4. \A i \in 1 .. Len(all) : i \in 1 .. Len(rows) \/ i - Len(rows) \in 1 .. Len(more)
  BY <1>1, <1>2
<1>5. Len(rows) \in Nat /\ Len(new) \in Nat
  OBVIOUS
<1>6. Trail!HeadOf(rows) = IF Len(rows) = 0 THEN <<>> ELSE rows[Len(rows)].hash
  BY DEF Trail!HeadOf, Trail!Genesis
<1> HIDE DEF all
<1>7. ASSUME Sealed(rows), NEW i \in 1 .. Len(all)
      PROVE  /\ all[i].prev = IF i = 1 THEN <<>> ELSE all[i - 1].hash
             /\ all[i].hash = Append(all[i].prev, <<all[i].at, all[i].tells>>)
  <2>1. CASE i \in 1 .. Len(rows)
    <3>1. i # 1 => i - 1 \in 1 .. Len(rows)
      BY <1>5, <2>1
    <3>2. all[i] = rows[i] /\ (i # 1 => all[i - 1] = rows[i - 1])
      BY <1>2, <2>1, <3>1
    <3> QED BY <1>7, <2>1, <3>1, <3>2 DEF Sealed
  <2>2. CASE i \notin 1 .. Len(rows)
    <3> DEFINE k == i - Len(rows)
    <3>1. k \in 1 .. Len(more) /\ i = Len(rows) + k
      BY <1>4, <1>5, <2>2
    <3>2. all[i] = more[k]
      BY <1>3, <3>1
    <3> HIDE DEF k
    <3>5. k \in 1 .. Len(new)
      BY <1>1, <3>1
    <3>6. more[k].hash = Append(more[k].prev, <<more[k].at, more[k].tells>>)
      <4>1. more[k].at = new[k].at /\ more[k].tells = new[k].tells
        BY <1>1, <3>5
      <4>2. more[k].hash = Append(more[k].prev, <<new[k].at, new[k].tells>>)
        BY <1>1, <3>5
      <4> QED BY <4>1, <4>2
    <3>3. CASE k = 1
      <4>1. more[k].prev = Trail!HeadOf(rows)
        BY <1>1, <3>1, <3>3
      <4>2. i # 1 => i - 1 \in 1 .. Len(rows) /\ i - 1 = Len(rows) /\ Len(rows) # 0
        BY <1>5, <3>1, <3>3
      <4>3. i = 1 => Len(rows) = 0
        BY <1>5, <3>1, <3>3
      <4>4. all[i].prev = IF i = 1 THEN <<>> ELSE all[i - 1].hash
        BY <1>2, <1>6, <3>2, <4>1, <4>2, <4>3
      <4>5. all[i].hash = Append(all[i].prev, <<all[i].at, all[i].tells>>)
        BY <3>2, <3>6
      <4> QED BY <4>4, <4>5
    <3>4. CASE k # 1
      <4>1. k - 1 \in 1 .. Len(more) /\ i - 1 = Len(rows) + (k - 1) /\ i # 1
        BY <1>1, <1>5, <3>1, <3>4
      <4>2. all[i - 1] = more[k - 1]
        BY <1>3, <4>1
      <4>3. all[i].hash = Append(all[i].prev, <<all[i].at, all[i].tells>>)
        BY <3>2, <3>6
      <4>4. all[i].prev = all[i - 1].hash
        BY <1>1, <3>1, <3>2, <3>4, <4>2
      <4> QED BY <4>1, <4>3, <4>4
    <3> QED BY <3>3, <3>4
  <2> QED BY <2>1, <2>2
<1>8. Sealed(rows) => Sealed(all)
  BY <1>7 DEF Sealed
<1>9. \A k \in 1 .. Len(new) : /\ all[Len(rows) + k].at = new[k].at
                             /\ all[Len(rows) + k].tells = new[k].tells
  BY <1>1, <1>3
<1> QED BY <1>1, <1>2, <1>8, <1>9 DEF all, more

\* The beginning of a chain is one.
LEMMA BeginningIsSealed ==
  ASSUME NEW s \in Seq(Entry), NEW t \in Seq(Entry), Begins(s, t), Sealed(t)
  PROVE  Sealed(s)
<1> SUFFICES ASSUME NEW i \in 1 .. Len(s)
             PROVE  /\ s[i].prev = IF i = 1 THEN <<>> ELSE s[i - 1].hash
                    /\ s[i].hash = Append(s[i].prev, <<s[i].at, s[i].tells>>)
  BY DEF Sealed
<1>1. i \in 1 .. Len(t) /\ (i # 1 => i - 1 \in 1 .. Len(s))
  BY DEF Begins
<1>2. s[i] = t[i] /\ (i # 1 => s[i - 1] = t[i - 1])
  BY <1>1 DEF Begins
<1> QED BY <1>1, <1>2 DEF Sealed

LEMMA Beginning ==
  ASSUME NEW s \in Seq(Entry), NEW t \in Seq(Entry)
  PROVE  Trail!IsPrefix(s, t) <=> Begins(s, t)
<1>1. ASSUME Len(s) <= Len(t)
      PROVE  /\ Len(SubSeq(t, 1, Len(s))) = Len(s)
             /\ SubSeq(t, 1, Len(s)) \in Seq(Entry)
             /\ \A i \in 1 .. Len(s) : SubSeq(t, 1, Len(s))[i] = t[i]
  BY <1>1
<1>2. ASSUME Len(s) <= Len(t), \A i \in 1 .. Len(s) : t[i] = s[i]
      PROVE  SubSeq(t, 1, Len(s)) = s
  <2> DEFINE u == SubSeq(t, 1, Len(s))
  <2>1. u \in Seq(Entry) /\ Len(u) = Len(s) /\ \A i \in 1 .. Len(s) : u[i] = s[i]
    BY <1>1, <1>2
  <2> HIDE DEF u
  <2>2. u = s
    BY <2>1
  <2> QED BY <2>2 DEF u
<1> QED BY <1>1, <1>2 DEF Trail!IsPrefix, Begins

\* The last record of the archive job, if there is one.
LEMMA LastRecord ==
  ASSUME log \in Seq(Entry)
  PROVE  \/ Trail!LastArchived = 0 /\ \A k \in 1 .. Len(log) : ~Tells(log, k)
         \/ \E j \in 1 .. Len(log) :
              /\ Tells(log, j) /\ Trail!LastArchived = log[j].tells.last
              /\ \A k \in 1 .. Len(log) : Tells(log, k) => k <= j
<1> DEFINE told == {i \in 1 .. Len(log) : log[i].tells # Trail!Work}
           last == CHOOSE i \in told : \A k \in told : k <= i
<1>1. Trail!LastArchived = IF told = {} THEN 0 ELSE log[last].tells.last
  BY DEF Trail!LastArchived
<1>2. CASE told = {}
  BY <1>1, <1>2 DEF Tells
<1>3. CASE told # {}
  <2>1. Len(log) \in Nat /\ told \subseteq 0 .. Len(log)
    OBVIOUS
  <2>2. \E i \in told : \A k \in told : k <= i
    BY ONLY <1>3, <2>1, GreatestNumber
  <2>3. last \in told /\ \A k \in told : k <= last
    BY <2>2
  <2> QED BY <1>1, <1>3, <2>3 DEF Tells
<1> QED BY <1>2, <1>3

LEMMA DueIsRange ==
  ASSUME Trail!Due # {}, log \in Seq(Entry)
  PROVE  LET r == Trail!Range(Trail!Due) IN
         /\ r \in Archive /\ r = [first |-> r.first, last |-> r.last]
         /\ r.first \in Trail!Due /\ r.last \in Trail!Due
         /\ \A i \in Trail!Due : r.first <= i /\ i <= r.last
<1> DEFINE D == Trail!Due
           f == CHOOSE i \in D : \A j \in D : i <= j
           l == CHOOSE i \in D : \A j \in D : j <= i
<1>1. Len(log) \in Nat /\ D \subseteq Nat /\ D \subseteq 0 .. Len(log) /\ D # {}
  BY DEF Trail!Due
<1>2. Trail!Range(D) = [first |-> f, last |-> l]
  BY DEF Trail!Range
<1> HIDE DEF D
<1>3. f \in D /\ \A j \in D : f <= j
  <2>1. \E i \in D : \A j \in D : i <= j
    BY ONLY <1>1, LeastNumber
  <2> QED BY <2>1
<1>4. l \in D /\ \A j \in D : j <= l
  <2>1. \E i \in D : \A j \in D : j <= i
    BY ONLY <1>1, GreatestNumber
  <2> QED BY <2>1
<1> HIDE DEF f, l
<1> QED BY <1>1, <1>2, <1>3, <1>4 DEF D, Archive

LEMMA RecordsSoFar ==
  ASSUME log \in Seq(Entry), NEW F, Archived(log, F)
  PROVE  /\ Trail!LastArchived \in Nat /\ Trail!LastArchived <= Len(log)
         /\ \A k \in 1 .. Len(log) : Tells(log, k) => log[k].tells.last <= Trail!LastArchived
         /\ \A i \in 1 .. Trail!LastArchived : \E k \in 1 .. Len(log) :
              Tells(log, k) /\ log[k].tells.first <= i /\ i <= log[k].tells.last
<1>1. \A k \in 1 .. Len(log) : log[k].tells.first \in Nat /\ log[k].tells.last \in Nat
  <2>1. \A k \in 1 .. Len(log) : log[k] \in Entry
    OBVIOUS
  <2>2. \A e \in Entry : e.tells.first \in Nat /\ e.tells.last \in Nat
    BY DEF Entry, Archive
  <2> QED BY <2>1, <2>2
<1>2. Len(log) \in Nat
  OBVIOUS
<1>3. CASE Trail!LastArchived = 0 /\ \A k \in 1 .. Len(log) : ~Tells(log, k)
  BY <1>2, <1>3
<1>4. CASE \E j \in 1 .. Len(log) :
             /\ Tells(log, j) /\ Trail!LastArchived = log[j].tells.last
             /\ \A k \in 1 .. Len(log) : Tells(log, k) => k <= j
  <2>1. PICK j \in 1 .. Len(log) :
               /\ Tells(log, j) /\ Trail!LastArchived = log[j].tells.last
               /\ \A k \in 1 .. Len(log) : Tells(log, k) => k <= j
    BY <1>4
  <2>2. Trail!LastArchived \in Nat /\ Trail!LastArchived < j
    BY <1>1, <2>1 DEF Archived, Recorded
  <2>3. ASSUME NEW k \in 1 .. Len(log), Tells(log, k)
        PROVE  log[k].tells.last <= Trail!LastArchived
    <3>1. CASE k = j
      BY <1>1, <2>1, <3>1
    <3>2. CASE k < j
      <4>1. log[k].tells.last < log[j].tells.first
        BY <2>1, <2>3, <3>2 DEF Archived, InOrder
      <4>2. log[j].tells.first <= log[j].tells.last
        BY <2>1 DEF Archived, Recorded
      <4> QED BY <1>1, <2>1, <4>1, <4>2
    <3>3. k = j \/ k < j
      BY <2>1, <2>3
    <3> QED BY <3>1, <3>2, <3>3
  <2>4. ASSUME NEW i \in 1 .. Trail!LastArchived
        PROVE  \E k \in 1 .. Len(log) :
                 Tells(log, k) /\ log[k].tells.first <= i /\ i <= log[k].tells.last
    <3>1. PICK k \in 1 .. j : Tells(log, k) /\ log[k].tells.first <= i /\ i <= log[k].tells.last
      BY <2>1 DEF Archived, WithoutGaps
    <3>2. k \in 1 .. Len(log)
      BY <1>2
    <3> QED BY <3>1, <3>2
  <2> QED BY <1>2, <2>2, <2>3, <2>4
<1> QED BY <1>3, <1>4, LastRecord

LEMMA DueFollows ==
  ASSUME log \in Seq(Entry), now \in Nat, NEW F, Archived(log, F), NEW new, Dated(log, new, now),
         Trail!Due # {}
  PROVE  LET r == Trail!Range(Trail!Due) IN
         /\ r.first = Trail!LastArchived + 1 /\ r.first <= r.last /\ r.last <= Len(log)
         /\ Trail!Due = r.first .. r.last
<1> DEFINE r == Trail!Range(Trail!Due)
           L == Trail!LastArchived
           D == Trail!Due
<1>1. /\ r.first \in D /\ r.last \in D
      /\ \A i \in D : r.first <= i /\ i <= r.last
  BY DueIsRange
<1>2. L \in Nat /\ L <= Len(log) /\ Len(log) \in Nat
  BY RecordsSoFar
<1>3. \A i : i \in D <=> i \in 1 .. Len(log) /\ i > L /\ log[i].at + Retention < now
  BY DEF Trail!Due
<1>4. Retention \in Nat
  BY TrailAssumption DEF Trail!RetentionAssumption
<1>5. \A i \in 1 .. Len(log) : log[i].at \in Nat
  <2>1. \A i \in 1 .. Len(log) : log[i] \in Entry
    OBVIOUS
  <2> QED BY <2>1 DEF Entry
<1>6. \A i, j \in 1 .. Len(log) : i <= j => log[i].at <= log[j].at
  BY DEF Dated
<1> HIDE DEF r, L, D
<1>7. L + 1 \in D
  <2>1. L + 1 \in 1 .. Len(log) /\ r.first \in 1 .. Len(log) /\ L + 1 <= r.first
    BY <1>1, <1>2, <1>3
  <2>2. log[L + 1].at <= log[r.first].at /\ log[r.first].at + Retention < now
    BY <1>1, <1>3, <1>6, <2>1
  <2>3. log[L + 1].at + Retention < now
    BY <1>4, <1>5, <2>1, <2>2
  <2> QED BY <1>2, <1>3, <2>1, <2>3
<1>8. r.first = L + 1
  BY <1>1, <1>2, <1>3, <1>7
<1>9. ASSUME NEW i \in r.first .. r.last PROVE i \in D
  <2>1. i \in 1 .. Len(log) /\ i > L /\ r.last \in 1 .. Len(log) /\ i <= r.last
    BY <1>1, <1>2, <1>3, <1>8
  <2>2. log[i].at <= log[r.last].at /\ log[r.last].at + Retention < now
    BY <1>1, <1>3, <1>6, <2>1
  <2>3. log[i].at + Retention < now
    BY <1>4, <1>5, <2>1, <2>2
  <2> QED BY <1>3, <2>1, <2>3
<1>10. D = r.first .. r.last
  <2>1. D \subseteq r.first .. r.last
    BY <1>1, <1>2, <1>3, <1>8
  <2> QED BY <1>9, <2>1
<1>11. r.first <= r.last /\ r.last <= Len(log)
  BY <1>1, <1>2, <1>3
<1> QED BY <1>8, <1>10, <1>11 DEF r, L, D

LEMMA ArchiveOfBeginning ==
  ASSUME NEW s \in Seq(Entry), NEW t \in Seq(Entry), Begins(s, t), NEW F, Archived(t, F)
  PROVE  Archived(s, F)
<1>1. Len(s) \in Nat /\ Len(t) \in Nat /\ Len(s) <= Len(t) /\ \A i \in 1 .. Len(s) : t[i] = s[i]
  BY DEF Begins
<1>2. \A i \in 1 .. Len(s) : i \in 1 .. Len(t) /\ (Tells(s, i) <=> Tells(t, i))
  BY <1>1 DEF Tells
<1>3. Recorded(s, F)
  <2> SUFFICES ASSUME NEW j \in 1 .. Len(s), Tells(s, j)
               PROVE  /\ 1 <= s[j].tells.first /\ s[j].tells.first <= s[j].tells.last
                      /\ s[j].tells.last < j
                      /\ InFile(F, s[j].tells, s)
    BY DEF Recorded
  <2>1. /\ 1 <= t[j].tells.first /\ t[j].tells.first <= t[j].tells.last
        /\ t[j].tells.last < j
        /\ InFile(F, t[j].tells, t)
    BY <1>2 DEF Archived, Recorded
  <2>2. t[j].tells.first \in Nat /\ t[j].tells.last \in Nat /\ s[j] = t[j]
    <3>1. t[j] \in Entry
      BY <1>2
    <3> QED BY <1>1, <3>1 DEF Entry, Archive
  <2>3. \A i \in t[j].tells.first .. t[j].tells.last : s[i] = t[i]
    BY <1>1, <2>1, <2>2
  <2>4. InFile(F, t[j].tells, s)
    BY <2>1, <2>3 DEF InFile
  <2> QED BY <2>1, <2>2, <2>4
<1>4. InOrder(s)
  BY <1>1, <1>2 DEF Archived, InOrder
<1>5. WithoutGaps(s)
  <2> SUFFICES ASSUME NEW j \in 1 .. Len(s), Tells(s, j), NEW i \in 1 .. s[j].tells.last
               PROVE  \E k \in 1 .. j :
                        Tells(s, k) /\ s[k].tells.first <= i /\ i <= s[k].tells.last
    BY DEF WithoutGaps
  <2>1. PICK k \in 1 .. j : Tells(t, k) /\ t[k].tells.first <= i /\ i <= t[k].tells.last
    BY <1>1, <1>2 DEF Archived, WithoutGaps
  <2>2. k \in 1 .. Len(s)
    BY <1>1
  <2> QED BY <1>1, <1>2, <2>1, <2>2
<1> QED BY <1>3, <1>4, <1>5 DEF Archived

LEMMA ArchiveStays ==
  ASSUME NEW s \in Seq(Entry), NEW t \in Seq(Entry), Begins(s, t), NEW F, Archived(s, F),
         \A j \in 1 .. Len(t) : j > Len(s) => ~Tells(t, j)
  PROVE  Archived(t, F)
<1>1. Len(s) \in Nat /\ Len(t) \in Nat /\ Len(s) <= Len(t) /\ \A i \in 1 .. Len(s) : t[i] = s[i]
  BY DEF Begins
<1>2. \A j \in 1 .. Len(t) : Tells(t, j) => j \in 1 .. Len(s) /\ Tells(s, j) /\ t[j] = s[j]
  BY <1>1 DEF Tells
<1>3. Recorded(t, F)
  <2> SUFFICES ASSUME NEW j \in 1 .. Len(t), Tells(t, j)
               PROVE  /\ 1 <= t[j].tells.first /\ t[j].tells.first <= t[j].tells.last
                      /\ t[j].tells.last < j
                      /\ InFile(F, t[j].tells, t)
    BY DEF Recorded
  <2>1. j \in 1 .. Len(s) /\ Tells(s, j) /\ t[j] = s[j]
    BY <1>2
  <2>2. /\ 1 <= s[j].tells.first /\ s[j].tells.first <= s[j].tells.last
        /\ s[j].tells.last < j
        /\ InFile(F, s[j].tells, s)
    BY <2>1 DEF Archived, Recorded
  <2>3. s[j].tells.first \in Nat /\ s[j].tells.last \in Nat
    <3>1. s[j] \in Entry
      BY <2>1
    <3> QED BY <3>1 DEF Entry, Archive
  <2>4. \A i \in s[j].tells.first .. s[j].tells.last : s[i] = t[i]
    BY <1>1, <2>1, <2>2, <2>3
  <2>5. InFile(F, s[j].tells, t)
    BY <2>2, <2>4 DEF InFile
  <2> QED BY <2>1, <2>2, <2>5
<1>4. InOrder(t)
  BY <1>2 DEF Archived, InOrder
<1>5. WithoutGaps(t)
  <2> SUFFICES ASSUME NEW j \in 1 .. Len(t), Tells(t, j), NEW i \in 1 .. t[j].tells.last
               PROVE  \E k \in 1 .. j :
                        Tells(t, k) /\ t[k].tells.first <= i /\ i <= t[k].tells.last
    BY DEF WithoutGaps
  <2>1. j \in 1 .. Len(s) /\ Tells(s, j) /\ t[j] = s[j]
    BY <1>2
  <2>2. PICK k \in 1 .. j : Tells(s, k) /\ s[k].tells.first <= i /\ i <= s[k].tells.last
    BY <2>1 DEF Archived, WithoutGaps
  <2>3. k \in 1 .. Len(s)
    BY <1>1, <2>1
  <2>4. t[k] = s[k]
    BY <1>1, <2>3
  <2> QED BY <2>2, <2>4 DEF Tells
<1> QED BY <1>3, <1>4, <1>5 DEF Archived

LEMMA FileIsReplaced ==
  ASSUME NEW s \in Seq(Entry), NEW F, NEW r, NEW g, Archived(s, F),
         \A j \in 1 .. Len(s) : Tells(s, j) => s[j].tells # r
  PROVE  Archived(s, {f \in F : f.range # r} \cup {g})
<1> DEFINE G == {f \in F : f.range # r} \cup {g}
<1>1. ASSUME NEW j \in 1 .. Len(s), Tells(s, j) PROVE InFile(G, s[j].tells, s)
  <2>1. InFile(F, s[j].tells, s) /\ s[j].tells # r
    BY <1>1 DEF Archived, Recorded
  <2>2. PICK f \in F : /\ f.range = s[j].tells
                       /\ \A i \in s[j].tells.first .. s[j].tells.last :
                            i \in DOMAIN f.rows /\ f.rows[i] = s[i]
    BY <2>1 DEF InFile
  <2>3. f \in G
    BY <2>1, <2>2
  <2> HIDE DEF G
  <2> QED BY <2>2, <2>3 DEF InFile
<1> HIDE DEF G
<1>2. Recorded(s, G)
  BY <1>1 DEF Archived, Recorded
<1>3. Archived(s, G)
  BY <1>2 DEF Archived
<1> QED BY <1>3 DEF G

LEMMA RecordIsAdded ==
  ASSUME NEW s \in Seq(Entry), NEW t \in Seq(Entry), Begins(s, t), Len(t) = Len(s) + 1,
         NEW F, Archived(s, F), NEW due \in Archive, t[Len(t)].tells = due,
         1 <= due.first, due.first <= due.last, due.last <= Len(s), InFile(F, due, s),
         \A k \in 1 .. Len(s) : Tells(s, k) => s[k].tells.last < due.first,
         \A i \in 1 .. due.first - 1 : \E k \in 1 .. Len(s) :
           Tells(s, k) /\ s[k].tells.first <= i /\ i <= s[k].tells.last
  PROVE  Archived(t, F)
<1>1. Len(s) \in Nat /\ Len(t) \in Nat /\ \A i \in 1 .. Len(s) : t[i] = s[i]
  BY DEF Begins
<1>2. due.first \in Nat /\ due.last \in Nat
  BY DEF Archive
<1>3. \A j \in 1 .. Len(t) : j \in 1 .. Len(s) \/ j = Len(t)
  BY <1>1
<1>4. ASSUME NEW j \in 1 .. Len(s), Tells(t, j)
      PROVE  /\ Tells(s, j) /\ t[j] = s[j]
             /\ t[j].tells.first \in Nat /\ t[j].tells.last \in Nat
  <2>1. t[j] = s[j] /\ s[j] \in Entry
    BY <1>1
  <2> QED BY <1>4, <2>1 DEF Tells, Entry, Archive
<1>5. Recorded(t, F)
  <2> SUFFICES ASSUME NEW j \in 1 .. Len(t), Tells(t, j)
               PROVE  /\ 1 <= t[j].tells.first /\ t[j].tells.first <= t[j].tells.last
                      /\ t[j].tells.last < j
                      /\ InFile(F, t[j].tells, t)
    BY DEF Recorded
  <2>1. CASE j \in 1 .. Len(s)
    <3>1. /\ 1 <= s[j].tells.first /\ s[j].tells.first <= s[j].tells.last
          /\ s[j].tells.last < j
          /\ InFile(F, s[j].tells, s)
      BY <1>4, <2>1 DEF Archived, Recorded
    <3>2. \A i \in s[j].tells.first .. s[j].tells.last : s[i] = t[i]
      BY <1>1, <1>4, <2>1, <3>1
    <3>3. InFile(F, s[j].tells, t)
      BY <3>1, <3>2 DEF InFile
    <3> QED BY <1>4, <2>1, <3>1, <3>3
  <2>2. CASE j = Len(t)
    <3>1. \A i \in due.first .. due.last : s[i] = t[i]
      BY <1>1, <1>2
    <3>2. InFile(F, due, t)
      BY <3>1 DEF InFile
    <3>3. due.last < Len(t)
      BY <1>1, <1>2
    <3> QED BY <2>2, <3>2, <3>3
  <2> QED BY <1>3, <2>1, <2>2
<1>6. InOrder(t)
  <2> SUFFICES ASSUME NEW j \in 1 .. Len(t), NEW k \in 1 .. Len(t), Tells(t, j), Tells(t, k), j < k
               PROVE  t[j].tells.last < t[k].tells.first
    BY DEF InOrder
  <2>1. j \in 1 .. Len(s)
    BY <1>1
  <2>2. CASE k \in 1 .. Len(s)
    BY <1>4, <2>1, <2>2 DEF Archived, InOrder
  <2>3. CASE k = Len(t)
    BY <1>4, <2>1, <2>3
  <2> QED BY <1>3, <2>2, <2>3
<1>7. WithoutGaps(t)
  <2> SUFFICES ASSUME NEW j \in 1 .. Len(t), Tells(t, j), NEW i \in 1 .. t[j].tells.last
               PROVE  \E k \in 1 .. j :
                        Tells(t, k) /\ t[k].tells.first <= i /\ i <= t[k].tells.last
    BY DEF WithoutGaps
  <2>1. CASE j \in 1 .. Len(s)
    <3>1. PICK k \in 1 .. j : Tells(s, k) /\ s[k].tells.first <= i /\ i <= s[k].tells.last
      BY <1>4, <2>1 DEF Archived, WithoutGaps
    <3>2. k \in 1 .. Len(s)
      BY <1>1, <2>1
    <3> QED BY <1>1, <3>1, <3>2 DEF Tells
  <2>2. CASE j = Len(t)
    <3>1. CASE due.first <= i
      BY <1>1, <1>2, <2>2, <3>1
    <3>2. CASE ~(due.first <= i)
      <4>1. i \in 1 .. due.first - 1
        BY <1>2, <2>2, <3>2
      <4>2. PICK k \in 1 .. Len(s) : Tells(s, k) /\ s[k].tells.first <= i /\ i <= s[k].tells.last
        BY <4>1
      <4>3. k \in 1 .. j /\ t[k] = s[k]
        BY <1>1, <2>2
      <4> QED BY <4>2, <4>3 DEF Tells
    <3> QED BY <3>1, <3>2
  <2> QED BY <1>3, <2>1, <2>2
<1> QED BY <1>5, <1>6, <1>7 DEF Archived

LEMMA StoredIsLog ==
  ASSUME TrailTypes
  PROVE  /\ Trail!Stored \in Seq(Entry) /\ Begins(log, Trail!Stored)
         /\ tx.who # "request" => Trail!Stored = log
         /\ Len(Trail!Stored) = Len(log) + Len(tx.flushed)
         /\ \A i \in 1 .. Len(tx.flushed) : Trail!Stored[Len(log) + i] = tx.flushed[i]
<1>1. log \in Seq(Entry) /\ tx.flushed \in Seq(Entry)
  BY DEF TrailTypes, TxOfTrail
<1>2. tx.who # "request" => tx.flushed = <<>>
  BY DEF TrailTypes
<1>3. Trail!Stored = log \o tx.flushed
  BY DEF Trail!Stored
<1>4. /\ log \o tx.flushed \in Seq(Entry) /\ Len(log \o tx.flushed) = Len(log) + Len(tx.flushed)
      /\ \A i \in 1 .. Len(log) : (log \o tx.flushed)[i] = log[i]
  BY ONLY <1>1, Concatenated
<1>5. \A i \in 1 .. Len(tx.flushed) : (log \o tx.flushed)[Len(log) + i] = tx.flushed[i]
  BY <1>1
<1>6. tx.flushed = <<>> => log \o tx.flushed = log
  BY <1>1
<1>7. Begins(log, log \o tx.flushed)
  <2>1. Len(log) \in Nat /\ Len(tx.flushed) \in Nat
    BY <1>1
  <2> QED BY <1>4, <2>1 DEF Begins
<1> QED BY <1>2, <1>3, <1>4, <1>5, <1>6, <1>7

LEMMA WorkIsArchive == Trail!Work \in Archive /\ Trail!Idle \in TxOfTrail
<1>1. <<>> \in Seq(Entry) /\ <<>> \in Seq(Logged)
  OBVIOUS
<1> QED BY <1>1 DEF Trail!Work, Trail!Idle, Archive, TxOfTrail

LEMMA IdleIsTyped ==
  ASSUME TrailTypes, tx' = Trail!Idle, log' \in Seq(Entry), copy' \in Seq(Entry),
         vouched' \in Seq(Entry), now' \in Nat, 1 <= now', altered' \in BOOLEAN, UNCHANGED verdict
  PROVE  TrailTypes'
<1>1. tx'.flushed = <<>> /\ tx'.new = <<>>
  BY DEF Trail!Idle
<1>2. verdict' \in {"none", "ok", "broken"}
  BY DEF TrailTypes
<1> QED BY <1>1, <1>2, WorkIsArchive DEF TrailTypes

LEMMA CommitKeepsTypes ==
  ASSUME TrailTypes, Trail!Commit
  PROVE  /\ TrailTypes' /\ Begins(log, log') /\ Begins(Trail!Stored, log')
         /\ log' = Trail!Stored \o Trail!Chained(Trail!Stored, tx.new)
         /\ \A j \in 1 .. Len(log') : j > Len(log) => ~Tells(log', j)
<1> DEFINE S == Trail!Stored
           more == Trail!Chained(S, tx.new)
<1>1. log' = S \o more /\ tx' = Trail!Idle
  BY DEF Trail!Commit
<1>2. tx.new \in Seq(Logged) /\ tx.flushed \in Seq(Entry) /\ log \in Seq(Entry)
  BY DEF TrailTypes, TxOfTrail
<1>3. S \in Seq(Entry) /\ Begins(log, S) /\ Len(S) = Len(log) + Len(tx.flushed)
  BY StoredIsLog
<1>4. /\ S \o more \in Seq(Entry) /\ Len(S \o more) = Len(S) + Len(tx.new)
      /\ \A i \in 1 .. Len(S) : (S \o more)[i] = S[i]
      /\ \A k \in 1 .. Len(tx.new) : (S \o more)[Len(S) + k].tells = tx.new[k].tells
  BY <1>2, <1>3, LogGrowsBy
<1>5. \A i \in 1 .. Len(tx.flushed) : S[Len(log) + i] = tx.flushed[i]
  BY StoredIsLog
<1> HIDE DEF S, more
<1>6. Len(log) \in Nat /\ Len(S) \in Nat /\ Len(tx.new) \in Nat /\ Len(tx.flushed) \in Nat
  BY <1>2, <1>3
<1>10. Len(log') = Len(S) + Len(tx.new) /\ \A i \in 1 .. Len(S) : log'[i] = S[i]
  BY <1>1, <1>4
<1>7. Begins(S, log') /\ Begins(log, log')
  <2>1. Len(S) <= Len(log') /\ Len(log) <= Len(S) /\ Len(log) <= Len(log')
    <3> DEFINE f == Len(tx.flushed)
               n == Len(tx.new)
    <3>1. /\ Len(S) = Len(log) + f /\ Len(log') = Len(S) + n
          /\ f \in Nat /\ n \in Nat /\ Len(log) \in Nat /\ Len(S) \in Nat
      BY <1>3, <1>6, <1>10
    <3> HIDE DEF f, n
    <3> QED BY <3>1
  <2>2. \A i \in 1 .. Len(log) : i \in 1 .. Len(S) /\ S[i] = log[i]
    BY <1>3, <1>6, <2>1 DEF Begins
  <2> QED BY <1>10, <2>1, <2>2 DEF Begins
<1>8. ASSUME NEW j \in 1 .. Len(log'), j > Len(log) PROVE ~Tells(log', j)
  <2>1. \/ j - Len(log) \in 1 .. Len(tx.flushed) /\ j \in 1 .. Len(S)
        \/ j - Len(S) \in 1 .. Len(tx.new)
    <3> DEFINE f == Len(tx.flushed)
               n == Len(tx.new)
    <3>1. /\ Len(S) = Len(log) + f /\ Len(log') = Len(S) + n
          /\ f \in Nat /\ n \in Nat /\ Len(log) \in Nat /\ Len(S) \in Nat
      BY <1>3, <1>6, <1>10
    <3> HIDE DEF f, n
    <3>2. \/ j - Len(log) \in 1 .. f /\ j \in 1 .. Len(S)
          \/ j - Len(S) \in 1 .. n
      BY <1>8, <3>1
    <3> QED BY <3>2 DEF f, n
  <2>2. CASE j - Len(log) \in 1 .. Len(tx.flushed) /\ j \in 1 .. Len(S)
    <3>1. log'[j] = S[Len(log) + (j - Len(log))]
      BY <1>1, <1>4, <1>6, <2>2
    <3>2. log'[j] = tx.flushed[j - Len(log)]
      BY <1>5, <2>2, <3>1
    <3> QED BY <2>2, <3>2 DEF TrailTypes, Tells
  <2>3. CASE j - Len(S) \in 1 .. Len(tx.new)
    <3>1. log'[j].tells = (S \o more)[Len(S) + (j - Len(S))].tells
      BY <1>1, <1>6
    <3>2. log'[j].tells = tx.new[j - Len(S)].tells
      BY <1>4, <2>3, <3>1
    <3> QED BY <2>3, <3>2 DEF TrailTypes, Tells
  <2> QED BY <2>1, <2>2, <2>3
<1>9. TrailTypes'
  <2>1. /\ log' \in Seq(Entry) /\ UNCHANGED <<copy, vouched, now, altered, verdict>>
    BY <1>1, <1>4 DEF Trail!Commit
  <2>2. /\ copy \in Seq(Entry) /\ vouched \in Seq(Entry) /\ now \in Nat /\ 1 <= now
        /\ altered \in BOOLEAN
    BY DEF TrailTypes
  <2> QED BY <1>1, <2>1, <2>2, IdleIsTyped
<1> QED BY <1>1, <1>7, <1>8, <1>9 DEF S, more

LEMMA FlushKeepsTypes ==
  ASSUME TrailTypes, Trail!Flush
  PROVE  /\ TrailTypes' /\ Trail!Stored' = Trail!Stored \o Trail!Chained(Trail!Stored, tx.new)
         /\ tx.who = "request" /\ tx'.who = "request" /\ tx'.new = <<>>
         /\ UNCHANGED <<log, anchor, archives, copy, now, verdict, vouched, altered>>
<1> DEFINE S == Trail!Stored
           more == Trail!Chained(S, tx.new)
<1>1. tx' = [tx EXCEPT !.flushed = tx.flushed \o more, !.new = <<>>] /\ tx.new # <<>>
  BY DEF Trail!Flush
<1>2. tx.new \in Seq(Logged) /\ tx.flushed \in Seq(Entry) /\ log \in Seq(Entry) /\ tx \in TxOfTrail
  BY DEF TrailTypes, TxOfTrail
<1>3. S \in Seq(Entry) /\ S = log \o tx.flushed
  BY StoredIsLog DEF Trail!Stored
<1>4. /\ more \in Seq(Entry) /\ Len(more) = Len(tx.new)
      /\ \A i \in 1 .. Len(tx.new) : more[i].tells = tx.new[i].tells
  <2>1. S \in Seq(Entry) /\ tx.new \in Seq(Logged)
    BY <1>2, <1>3
  <2> HIDE DEF S
  <2> QED BY <2>1, Chaining
<1> HIDE DEF S, more
<1>5. /\ tx.flushed \o more \in Seq(Entry)
      /\ Len(tx.flushed \o more) = Len(tx.flushed) + Len(more)
      /\ \A i \in 1 .. Len(tx.flushed) : (tx.flushed \o more)[i] = tx.flushed[i]
  <2>1. tx.flushed \in Seq(Entry) /\ more \in Seq(Entry)
    BY <1>2, <1>4
  <2> QED BY ONLY <2>1, Concatenated
<1>6. tx'.flushed = tx.flushed \o more /\ tx'.new = <<>> /\ tx'.who = tx.who /\ tx'.due = tx.due
  BY <1>1, <1>2 DEF TxOfTrail
<1>7. tx' \in TxOfTrail
  <2>1. <<>> \in Seq(Logged)
    OBVIOUS
  <2> QED BY <1>1, <1>2, <1>5, <2>1 DEF TxOfTrail
<1>8. tx.who = "request"
  BY <1>1 DEF TrailTypes
<1>9. ASSUME NEW i \in 1 .. Len(tx'.flushed) PROVE ~Tells(tx'.flushed, i)
  <2>1. Len(tx.flushed) \in Nat /\ Len(more) \in Nat
    BY <1>2, <1>4
  <2>2. i \in 1 .. Len(tx.flushed) \/ i - Len(tx.flushed) \in 1 .. Len(more)
    BY <1>5, <1>6, <2>1
  <2>3. CASE i \in 1 .. Len(tx.flushed)
    <3>1. tx'.flushed[i] = tx.flushed[i]
      BY <1>5, <1>6, <2>3
    <3> QED BY <2>3, <3>1 DEF TrailTypes, Tells
  <2>4. CASE i - Len(tx.flushed) \in 1 .. Len(more)
    <3>1. tx'.flushed[i] = more[i - Len(tx.flushed)]
      BY <1>2, <1>4, <1>6, <2>4
    <3>2. tx'.flushed[i].tells = tx.new[i - Len(tx.flushed)].tells
      BY <1>4, <2>4, <3>1
    <3> QED BY <1>4, <2>4, <3>2 DEF TrailTypes, Tells
  <2> QED BY <2>2, <2>3, <2>4
<1>10. UNCHANGED <<log, anchor, archives, copy, now, verdict, vouched, altered>>
  BY DEF Trail!Flush
<1>11. TrailTypes'
  <2>1. \A i \in 1 .. Len(tx'.new) : ~Tells(tx'.new, i)
    BY <1>6
  <2>2. tx'.who # "request" => tx'.flushed = <<>> /\ tx'.new = <<>>
    BY <1>6, <1>8
  <2> QED BY <1>7, <1>9, <1>10, <2>1, <2>2 DEF TrailTypes
<1>12. Trail!Stored' = S \o more
  <2>1. Trail!Stored' = log \o (tx.flushed \o more)
    BY <1>6, <1>10 DEF Trail!Stored
  <2>2. log \o (tx.flushed \o more) = (log \o tx.flushed) \o more
    <3>1. log \in Seq(Entry) /\ tx.flushed \in Seq(Entry) /\ more \in Seq(Entry)
      BY <1>2, <1>4
    <3> DEFINE a == log
               b == tx.flushed
    <3> HIDE DEF a, b
    <3>2. a \in Seq(Entry) /\ b \in Seq(Entry) /\ more \in Seq(Entry)
      BY <3>1 DEF a, b
    <3>3. (a \o b) \o more = a \o (b \o more)
      BY ONLY <3>2
    <3> QED BY <3>3 DEF a, b
  <2> QED BY <1>3, <2>1, <2>2
<1> QED BY <1>6, <1>8, <1>10, <1>11, <1>12 DEF S, more

LEMMA RecordKeepsTypes ==
  ASSUME TrailTypes, Trail!RecordArchive
  PROVE  /\ TrailTypes' /\ Begins(log, log') /\ Len(log') = Len(log) + 1
         /\ log' = log \o Trail!Chained(log, <<[at |-> now, tells |-> tx.due]>>)
         /\ log'[Len(log')].tells = tx.due /\ log'[Len(log')].at = now
         /\ tx.due \in Archive
<1> DEFINE new == <<[at |-> now, tells |-> tx.due]>>
           more == Trail!Chained(log, new)
<1>1. log' = log \o more /\ tx' = Trail!Idle
  BY DEF Trail!RecordArchive
<1>2. log \in Seq(Entry) /\ tx.due \in Archive /\ now \in Nat
  BY DEF TrailTypes, TxOfTrail
<1>3. new \in Seq(Logged) /\ Len(new) = 1 /\ new[1].at = now /\ new[1].tells = tx.due
  <2>1. [at |-> now, tells |-> tx.due] \in Logged
    BY <1>2 DEF Logged
  <2> QED BY <2>1
<1> HIDE DEF new
<1>4. /\ log \o more \in Seq(Entry) /\ Len(log \o more) = Len(log) + Len(new)
      /\ \A i \in 1 .. Len(log) : (log \o more)[i] = log[i]
      /\ \A k \in 1 .. Len(new) : /\ (log \o more)[Len(log) + k].at = new[k].at
                                  /\ (log \o more)[Len(log) + k].tells = new[k].tells
  BY <1>2, <1>3, LogGrowsBy
<1> HIDE DEF more
<1>5. Len(log) \in Nat /\ Len(log') = Len(log) + 1
  BY <1>1, <1>2, <1>3, <1>4
<1>6. Begins(log, log')
  BY <1>1, <1>4, <1>5 DEF Begins
<1>7. log'[Len(log')].tells = tx.due /\ log'[Len(log')].at = now
  BY <1>1, <1>3, <1>4, <1>5
<1>8. TrailTypes'
  <2>1. /\ log' \in Seq(Entry) /\ UNCHANGED <<copy, vouched, now, altered, verdict>>
    BY <1>1, <1>4 DEF Trail!RecordArchive
  <2>2. /\ copy \in Seq(Entry) /\ vouched \in Seq(Entry) /\ now \in Nat /\ 1 <= now
        /\ altered \in BOOLEAN
    BY DEF TrailTypes
  <2> QED BY <1>1, <2>1, <2>2, IdleIsTyped
<1> QED BY <1>1, <1>2, <1>5, <1>6, <1>7, <1>8 DEF more, new

\* The entries of an altered log are entries.
LEMMA AlterKeepsTypes ==
  ASSUME TrailTypes, Trail!Alter
  PROVE  TrailTypes'
<1>1. log \in Seq(Entry) /\ UNCHANGED <<tx, copy, now, verdict, vouched>> /\ altered' = TRUE
  BY DEF TrailTypes, Trail!Alter
<1>2. PICK i \in 1 .. Len(log) :
        \/ i < Len(log) /\ log' = SubSeq(log, 1, i - 1) \o SubSeq(log, i + 1, Len(log))
        \/ log' = [log EXCEPT ![i].at = 0]
  BY DEF Trail!Alter
<1>3. log' \in Seq(Entry)
  <2>1. CASE i < Len(log) /\ log' = SubSeq(log, 1, i - 1) \o SubSeq(log, i + 1, Len(log))
    <3>1. SubSeq(log, 1, i - 1) \in Seq(Entry) /\ SubSeq(log, i + 1, Len(log)) \in Seq(Entry)
      BY <1>1
    <3> QED BY <2>1, <3>1, Concatenated
  <2>2. CASE log' = [log EXCEPT ![i].at = 0]
    <3>1. log[i] \in Entry
      BY <1>1
    <3>2. [log[i] EXCEPT !.at = 0] \in Entry
      BY <3>1 DEF Entry
    <3>3. log' = [log EXCEPT ![i] = [log[i] EXCEPT !.at = 0]]
      BY <2>2
    <3> QED BY <1>1, <3>2, <3>3
  <2> QED BY <1>2, <2>1, <2>2
<1> QED BY <1>1, <1>3 DEF TrailTypes

LEMMA TrailTypesStep ==
  ASSUME TrailTypes, Trail!Next
  PROVE  TrailTypes'
<1>1. /\ log \in Seq(Entry) /\ copy \in Seq(Entry) /\ vouched \in Seq(Entry)
      /\ now \in Nat /\ 1 <= now /\ altered \in BOOLEAN
  BY DEF TrailTypes
<1>2. <<>> \in Seq(Entry) /\ <<>> \in Seq(Logged)
  OBVIOUS
<1>3. CASE Trail!BeginRequest \/ Trail!Verify
  <2>1. /\ tx' = [Trail!Idle EXCEPT !.who = "request"] \/ tx' = [Trail!Idle EXCEPT !.who = "verification"]
        /\ UNCHANGED <<log, copy, vouched, now, altered>>
        /\ verdict' \in {verdict, "ok", "broken"}
    BY <1>3 DEF Trail!BeginRequest, Trail!Verify, Trail!Begin
  <2>2. tx' \in TxOfTrail /\ tx'.flushed = <<>> /\ tx'.new = <<>>
    BY <2>1, WorkIsArchive DEF TxOfTrail, Trail!Idle
  <2> QED BY <2>1, <2>2 DEF TrailTypes
<1>4. CASE Trail!Log
  <2> DEFINE e == [at |-> now, tells |-> Trail!Work]
  <2>1. tx' = [tx EXCEPT !.new = Append(tx.new, e)] /\ tx.who = "request"
    BY <1>4 DEF Trail!Log
  <2>2. tx \in TxOfTrail /\ tx.new \in Seq(Logged) /\ e \in Logged
    BY <1>1, WorkIsArchive DEF TrailTypes, TxOfTrail, Logged
  <2>3. e.tells = Trail!Work
    OBVIOUS
  <2> HIDE DEF e
  <2>4. Append(tx.new, e) \in Seq(Logged)
    BY <2>2
  <2>5. tx' \in TxOfTrail /\ tx'.new = Append(tx.new, e) /\ tx'.flushed = tx.flushed /\ tx'.who = tx.who
    BY <2>1, <2>2, <2>4 DEF TxOfTrail
  <2>6. \A i \in 1 .. Len(tx'.new) : ~Tells(tx'.new, i)
    <3> DEFINE n == tx.new
    <3>1. n \in Seq(Logged) /\ tx'.new = Append(n, e) /\ \A i \in 1 .. Len(n) : ~Tells(n, i)
      BY <2>2, <2>5 DEF TrailTypes
    <3> HIDE DEF n
    <3> QED BY <2>3, <3>1 DEF Tells
  <2>7. UNCHANGED <<log, copy, vouched, now, altered, verdict>>
    BY <1>4 DEF Trail!Log
  <2> QED BY <2>1, <2>5, <2>6, <2>7 DEF TrailTypes
<1>5. CASE Trail!Rollback
  <2>1. tx' = Trail!Idle /\ UNCHANGED <<log, copy, vouched, now, altered, verdict>>
    BY <1>5 DEF Trail!Rollback
  <2> QED BY <1>1, <2>1, IdleIsTyped
<1>6. CASE Trail!EmptyAnchor
  <2>1. /\ tx.who = "verification" /\ tx' = [tx EXCEPT !.who = "anchor"] /\ vouched' = <<>>
        /\ UNCHANGED <<log, copy, now, altered, verdict>>
    BY <1>6 DEF Trail!EmptyAnchor
  <2>2. tx \in TxOfTrail /\ tx.flushed = <<>> /\ tx.new = <<>>
    BY <2>1 DEF TrailTypes
  <2>3. tx' \in TxOfTrail /\ tx'.flushed = <<>> /\ tx'.new = <<>>
    BY <2>1, <2>2 DEF TxOfTrail
  <2> QED BY <1>2, <2>1, <2>3 DEF TrailTypes
<1>7. CASE Trail!WriteAnchor
  <2>1. tx' = Trail!Idle /\ vouched' = log /\ UNCHANGED <<log, copy, now, altered, verdict>>
    BY <1>7 DEF Trail!WriteAnchor
  <2> QED BY <1>1, <2>1, IdleIsTyped
<1>8. CASE Trail!WriteArchive
  <2> DEFINE r == Trail!Range(Trail!Due)
  <2>1. /\ tx' = [Trail!Idle EXCEPT !.who = "archive", !.due = r] /\ Trail!Due # {}
        /\ UNCHANGED <<log, copy, vouched, now, altered, verdict>>
    BY <1>8 DEF Trail!WriteArchive
  <2>2. r \in Archive
    BY <1>1, <2>1, DueIsRange
  <2> HIDE DEF r
  <2>3. tx' \in TxOfTrail /\ tx'.flushed = <<>> /\ tx'.new = <<>>
    BY <2>1, <2>2, WorkIsArchive DEF TxOfTrail, Trail!Idle
  <2> QED BY <2>1, <2>3 DEF TrailTypes
<1>9. CASE Trail!Tick
  BY <1>9 DEF Trail!Tick, TrailTypes
<1>10. CASE Trail!Backup
  BY <1>10 DEF Trail!Backup, TrailTypes
<1>11. CASE Trail!Restore
  <2>1. /\ log' = copy /\ vouched' \in {<<>>, vouched}
        /\ UNCHANGED <<tx, copy, now, altered, verdict>>
    BY <1>11 DEF Trail!Restore
  <2>2. vouched' \in Seq(Entry)
    BY <1>1, <1>2, <2>1
  <2> QED BY <2>1, <2>2 DEF TrailTypes
<1> QED BY <1>3, <1>4, <1>5, <1>6, <1>7, <1>8, <1>9, <1>10, <1>11, CommitKeepsTypes,
           FlushKeepsTypes, RecordKeepsTypes, AlterKeepsTypes DEF Trail!Next

\* How the committed entries may change.
LEMMA LogMoves ==
  ASSUME TrailTypes, Trail!Next
  PROVE  \/ log' = log /\ altered' = altered
         \/ Begins(log, log') /\ altered' = altered /\ tx.who \in {"request", "archive"}
         \/ Trail!Restore
         \/ Trail!Alter
<1>1. CASE Trail!Commit
  <2>1. altered' = altered /\ tx.who = "request"
    BY <1>1 DEF Trail!Commit
  <2> QED BY <1>1, <2>1, CommitKeepsTypes
<1>2. CASE Trail!RecordArchive
  <2>1. altered' = altered /\ tx.who = "archive"
    BY <1>2 DEF Trail!RecordArchive
  <2> QED BY <1>2, <2>1, RecordKeepsTypes
<1> QED BY <1>1, <1>2
        DEF Trail!Next, Trail!BeginRequest, Trail!Log, Trail!Flush, Trail!Rollback, Trail!Verify,
            Trail!EmptyAnchor, Trail!WriteAnchor, Trail!WriteArchive, Trail!Tick, Trail!Backup

\* An entry that is changed, or removed before the end, breaks the chain where it was.
LEMMA AlterBreaks ==
  ASSUME TrailTypes, ~altered => Sound, Trail!Alter
  PROVE  ~Sealed(log')
<1>1. log \in Seq(Entry) /\ Sealed(log) /\ \A k \in 1 .. Len(log) : 1 <= log[k].at
  <2>1. Sound /\ log \in Seq(Entry)
    BY DEF Trail!Alter, TrailTypes
  <2>2. Begins(log, Trail!Stored) /\ Trail!Stored \in Seq(Entry)
    BY StoredIsLog
  <2>3. Sealed(log)
    BY <2>1, <2>2, BeginningIsSealed DEF Sound
  <2>4. \A k \in 1 .. Len(log) : k \in 1 .. Len(Trail!Stored) /\ Trail!Stored[k] = log[k]
    BY <2>1, <2>2 DEF Begins
  <2>5. \A k \in 1 .. Len(log) : 1 <= log[k].at
    BY <2>1, <2>4 DEF Sound, Dated
  <2> QED BY <2>1, <2>3, <2>5
<1>2. PICK i \in 1 .. Len(log) :
        \/ i < Len(log) /\ log' = SubSeq(log, 1, i - 1) \o SubSeq(log, i + 1, Len(log))
        \/ log' = [log EXCEPT ![i].at = 0]
  BY DEF Trail!Alter
<1>3. \A k \in 1 .. Len(log) : log[k] \in Entry
  BY <1>1
<1>4. /\ log[i].prev \in Seq(Content)
      /\ log[i].hash = Append(log[i].prev, <<log[i].at, log[i].tells>>)
      /\ log[i].prev = IF i = 1 THEN <<>> ELSE log[i - 1].hash
  BY <1>1, <1>3 DEF Sealed, Entry
<1>5. CASE log' = [log EXCEPT ![i].at = 0]
  <2>1. log[i] \in Entry /\ i \in DOMAIN log
    BY <1>1, <1>3
  <2>2. /\ log'[i].at = 0 /\ log'[i].tells = log[i].tells /\ log'[i].prev = log[i].prev
        /\ log'[i].hash = log[i].hash
    BY <1>5, <2>1 DEF Entry
  <2>3. i \in 1 .. Len(log')
    BY <1>1, <1>5
  <2>4. Append(log[i].prev, <<log[i].at, log[i].tells>>) # Append(log[i].prev, <<0, log[i].tells>>)
    <3> DEFINE p == log[i].prev
               x == <<log[i].at, log[i].tells>>
               y == <<0, log[i].tells>>
    <3>1. log[i].at # 0
      BY <1>1, <1>3 DEF Entry
    <3>2. x # y
      BY <3>1
    <3>3. p \in Seq(Content)
      BY <1>4
    <3> HIDE DEF p, x, y
    <3>4. Append(p, x)[Len(p) + 1] = x /\ Append(p, y)[Len(p) + 1] = y
      BY <3>3
    <3>5. Append(p, x) # Append(p, y)
      BY <3>2, <3>4
    <3> QED BY <3>5 DEF p, x, y
  <2> QED BY <1>4, <2>2, <2>3, <2>4 DEF Sealed
<1>6. CASE i < Len(log) /\ log' = SubSeq(log, 1, i - 1) \o SubSeq(log, i + 1, Len(log))
  <2>1. i + 1 \in 1 .. Len(log)
    BY <1>6
  <2>2. i \in 1 .. Len(log') /\ log'[i] = log[i + 1] /\ (i # 1 => log'[i - 1] = log[i - 1])
    <3>1. /\ SubSeq(log, 1, i - 1) \in Seq(Entry) /\ Len(SubSeq(log, 1, i - 1)) = i - 1
          /\ \A k \in 1 .. i - 1 : SubSeq(log, 1, i - 1)[k] = log[k]
      BY <1>1
    <3>2. /\ SubSeq(log, i + 1, Len(log)) \in Seq(Entry)
          /\ Len(SubSeq(log, i + 1, Len(log))) = Len(log) - i
          /\ SubSeq(log, i + 1, Len(log))[1] = log[i + 1]
      BY <1>1, <1>6
    <3> DEFINE u == SubSeq(log, 1, i - 1)
               v == SubSeq(log, i + 1, Len(log))
    <3>3. /\ u \in Seq(Entry) /\ Len(u) = i - 1 /\ \A k \in 1 .. i - 1 : u[k] = log[k]
          /\ v \in Seq(Entry) /\ Len(v) = Len(log) - i /\ v[1] = log[i + 1] /\ log' = u \o v
      BY <1>6, <3>1, <3>2
    <3> HIDE DEF u, v
    <3>4. Len(log) \in Nat
      BY <1>1
    <3>5. /\ Len(u \o v) = Len(u) + Len(v)
          /\ \A k \in 1 .. Len(u) : (u \o v)[k] = u[k]
          /\ \A k \in 1 .. Len(v) : (u \o v)[Len(u) + k] = v[k]
      <4>1. u \in Seq(Entry) /\ v \in Seq(Entry)
        BY <3>3
      <4> QED BY ONLY <4>1
    <3> DEFINE a == Len(u)
               b == Len(v)
               n == Len(log)
    <3>6. a = i - 1 /\ b = n - i /\ i < n /\ n \in Nat /\ Len(log') = a + b
      BY <1>6, <3>3, <3>4, <3>5
    <3> HIDE DEF a, b, n
    <3>7. 1 \in 1 .. b /\ a + 1 = i /\ i \in 1 .. a + b /\ (i # 1 => i - 1 \in 1 .. a)
      BY <3>6
    <3>8. log'[i] = v[1] /\ (i # 1 => log'[i - 1] = u[i - 1])
      BY <3>3, <3>5, <3>7 DEF a, b
    <3>9. i # 1 => u[i - 1] = log[i - 1]
      BY <3>3, <3>7 DEF a
    <3> QED BY <3>3, <3>6, <3>7, <3>8, <3>9
  <2>3. log[i + 1].prev = log[i].hash
    BY <1>1, <2>1 DEF Sealed
  <2>4. log[i].hash # log[i].prev
    <3>1. Len(Append(log[i].prev, <<log[i].at, log[i].tells>>)) = Len(log[i].prev) + 1
      BY <1>4
    <3>2. Len(log[i].prev) \in Nat
      BY <1>4
    <3> QED BY <1>4, <3>1, <3>2
  <2>5. log'[i].prev = log[i].hash
    BY <2>2, <2>3
  <2>6. (IF i = 1 THEN <<>> ELSE log'[i - 1].hash) = log[i].prev
    BY <1>4, <2>2
  <2> QED BY <2>2, <2>4, <2>5, <2>6 DEF Sealed
<1> QED BY <1>2, <1>5, <1>6

-----------------------------------------------------------------------------

\* What nobody altered is a chain, also as far as it is committed only.
LEMMA UnalteredIsSealed ==
  ASSUME TrailTypes, Sound
  PROVE  Sealed(log)
BY StoredIsLog, BeginningIsSealed DEF TrailTypes, Sound

LEMMA BrokenStays ==
  ASSUME TrailInv, Trail!Next, altered'
  PROVE  ~Sealed(log')
<1>1. TrailTypes /\ TrailTypes'
  BY TrailTypesStep DEF TrailInv
<1>2. log \in Seq(Entry) /\ log' \in Seq(Entry) /\ (altered => ~Sealed(log))
  BY <1>1 DEF TrailTypes, TrailInv
<1>3. CASE log' = log /\ altered' = altered
  BY <1>2, <1>3
<1>4. CASE Begins(log, log') /\ altered' = altered
  BY <1>2, <1>4, BeginningIsSealed
<1>5. CASE Trail!Restore
  BY <1>5 DEF Trail!Restore
<1>6. CASE Trail!Alter
  BY <1>1, <1>6, AlterBreaks DEF TrailInv
<1> QED BY <1>1, <1>3, <1>4, <1>5, <1>6, LogMoves

\* A chain that grows is one, and holds what was there.
LEMMA KnownStays ==
  ASSUME TrailInv, Trail!Next
  PROVE  Sealed(copy') /\ Sealed(vouched')
<1>1. TrailTypes /\ Sealed(copy) /\ Sealed(vouched) /\ Sealed(<<>>)
  BY DEF TrailInv, Vouching, Sealed
<1>2. CASE Trail!Backup
  <2>1. copy' = log /\ vouched' = vouched /\ Sealed(log)
    BY <1>1, <1>2, UnalteredIsSealed DEF Trail!Backup, TrailInv
  <2> QED BY <1>1, <2>1
<1>3. CASE Trail!WriteAnchor
  <2>1. copy' = copy /\ vouched' = log /\ Sealed(log)
    BY <1>3 DEF Trail!WriteAnchor, TrailInv, Vouching
  <2> QED BY <1>1, <2>1
<1>4. ASSUME ~Trail!Backup, ~Trail!WriteAnchor
      PROVE  copy' = copy /\ vouched' \in {<<>>, vouched}
  BY <1>4
     DEF Trail!Next, Trail!BeginRequest, Trail!Log, Trail!Flush, Trail!Commit, Trail!Rollback,
         Trail!Verify, Trail!EmptyAnchor, Trail!WriteArchive, Trail!RecordArchive, Trail!Tick,
         Trail!Restore, Trail!Alter
<1>5. CASE ~Trail!Backup /\ ~Trail!WriteAnchor
  <2>1. copy' = copy /\ (vouched' = <<>> \/ vouched' = vouched)
    BY <1>4, <1>5
  <2> QED BY <1>1, <2>1
<1> QED BY <1>2, <1>3, <1>5

LEMMA AnchorStays ==
  ASSUME TrailInv, Trail!Next
  PROVE  \/ anchor' = Trail!None /\ vouched' = <<>>
         \/ /\ vouched' # <<>>
            /\ anchor' = [count |-> Len(vouched'), head |-> vouched'[Len(vouched')].hash]
<1>1. CASE Trail!WriteAnchor
  <2>1. vouched' = log /\ log # <<>> /\ anchor' = [count |-> Len(log), head |-> Trail!HeadOf(log)]
    BY <1>1 DEF Trail!WriteAnchor, TrailInv, Vouching
  <2> QED BY <2>1 DEF Trail!HeadOf
<1>2. CASE ~Trail!WriteAnchor
  <2>1. \/ anchor' = Trail!None /\ vouched' = <<>>
        \/ anchor' = anchor /\ vouched' = vouched
    BY <1>2
       DEF Trail!Next, Trail!BeginRequest, Trail!Log, Trail!Flush, Trail!Commit, Trail!Rollback,
           Trail!Verify, Trail!EmptyAnchor, Trail!WriteArchive, Trail!RecordArchive, Trail!Tick,
           Trail!Backup, Trail!Restore, Trail!Alter
  <2> QED BY <2>1 DEF TrailInv, Vouching
<1> QED BY <1>1, <1>2

LEMMA VerdictStays ==
  ASSUME TrailInv, Trail!Next
  PROVE  /\ tx'.who \in {"verification", "anchor"} /\ verdict' = "ok" => Sealed(log')
         /\ tx'.who = "anchor" => verdict' = "ok" /\ log' # <<>>
<1>1. tx \in TxOfTrail /\ log \in Seq(Entry)
  BY DEF TrailInv, TrailTypes
<1>2. /\ tx.who \in {"verification", "anchor"} /\ verdict = "ok" => Sealed(log)
      /\ tx.who = "anchor" => verdict = "ok" /\ log # <<>>
  BY DEF TrailInv, Vouching
<1>3. CASE Trail!Verify
  <2>1. /\ log' = log /\ tx'.who = "verification"
        /\ verdict' = "ok" => Trail!LinksHold(log)
    BY <1>3 DEF Trail!Verify, Trail!Begin, Trail!verify_rows, Trail!Idle
  <2> QED BY <1>1, <2>1, Sealing
<1>4. CASE Trail!EmptyAnchor
  <2>1. /\ UNCHANGED <<log, verdict>> /\ tx.who = "verification" /\ verdict = "ok" /\ log # <<>>
    BY <1>4 DEF Trail!EmptyAnchor
  <2> QED BY <1>2, <2>1
<1>5. ASSUME ~Trail!Verify, ~Trail!EmptyAnchor
      PROVE  \/ tx'.who \in {"nobody", "request", "archive"}
             \/ UNCHANGED <<tx, log, verdict>>
  <2>1. CASE Trail!Commit \/ Trail!Rollback \/ Trail!WriteAnchor \/ Trail!RecordArchive
    <3>1. tx' = Trail!Idle
      BY <2>1 DEF Trail!Commit, Trail!Rollback, Trail!WriteAnchor, Trail!RecordArchive
    <3> QED BY <3>1 DEF Trail!Idle
  <2>6. CASE Trail!BeginRequest
    BY <2>6 DEF Trail!BeginRequest, Trail!Begin, Trail!Idle
  <2>7. CASE Trail!WriteArchive
    <3>1. PICK r : tx' = [Trail!Idle EXCEPT !.who = "archive", !.due = r]
      BY <2>7 DEF Trail!WriteArchive
    <3> QED BY <3>1 DEF Trail!Idle
  <2>2. CASE Trail!Log
    <3>1. tx.who = "request" /\ tx'.who = tx.who
      BY <1>1, <2>2 DEF Trail!Log, TxOfTrail
    <3> QED BY <3>1
  <2>3. CASE Trail!Flush
    BY <2>3, FlushKeepsTypes DEF TrailInv
  <2>4. CASE Trail!Restore \/ Trail!Alter
    BY <2>4 DEF Trail!Restore, Trail!Alter, Trail!Idle
  <2>5. CASE Trail!Tick \/ Trail!Backup
    BY <2>5 DEF Trail!Tick, Trail!Backup
  <2> QED BY <1>5, <2>1, <2>2, <2>3, <2>4, <2>5, <2>6, <2>7 DEF Trail!Next
<1>6. CASE ~Trail!Verify /\ ~Trail!EmptyAnchor
  BY <1>2, <1>5, <1>6
<1> QED BY <1>3, <1>4, <1>6

LEMMA VouchingStep ==
  ASSUME TrailInv, Trail!Next
  PROVE  Vouching'
BY KnownStays, AnchorStays, VerdictStays DEF Vouching

-----------------------------------------------------------------------------

LEMMA BeginsAgain ==
  ASSUME NEW s \in Seq(Entry), NEW t \in Seq(Entry), NEW u \in Seq(Entry), Begins(s, t), Begins(t, u)
  PROVE  Begins(s, u)
<1>1. Len(s) \in Nat /\ Len(t) \in Nat /\ Len(u) \in Nat
  OBVIOUS
<1>2. \A i \in 1 .. Len(s) : i \in 1 .. Len(t)
  BY <1>1 DEF Begins
<1> QED BY <1>1, <1>2 DEF Begins

\* What is flushed, or committed, comes after what was stored.
LEMMA DatesGrow ==
  ASSUME NEW rows \in Seq(Entry), NEW new \in Seq(Logged), NEW t \in Nat, Dated(rows, new, t)
  PROVE  Dated(rows \o Trail!Chained(rows, new), <<>>, t)
<1> DEFINE all == rows \o Trail!Chained(rows, new)
           n == Len(rows)
           m == Len(new)
<1>1. /\ all \in Seq(Entry) /\ Len(all) = n + m
      /\ \A i \in 1 .. n : all[i] = rows[i]
      /\ \A k \in 1 .. m : all[n + k].at = new[k].at
  BY LogGrowsBy
<1>2. n \in Nat /\ m \in Nat
  OBVIOUS
<1> HIDE DEF all
<1>3. /\ \A i \in 1 .. n : rows[i].at \in Nat
      /\ \A k \in 1 .. m : new[k].at \in Nat
  <2>1. /\ \A i \in 1 .. n : rows[i] \in Entry
        /\ \A k \in 1 .. m : new[k] \in Logged
    OBVIOUS
  <2> QED BY <2>1 DEF Entry, Logged
<1>4. /\ \A i \in 1 .. n : 1 <= rows[i].at /\ rows[i].at <= t
      /\ \A i, j \in 1 .. n : i <= j => rows[i].at <= rows[j].at
      /\ \A k \in 1 .. m : 1 <= new[k].at /\ new[k].at <= t
      /\ \A k, l \in 1 .. m : k <= l => new[k].at <= new[l].at
      /\ \A i \in 1 .. n, k \in 1 .. m : rows[i].at <= new[k].at
  BY DEF Dated
<1> HIDE DEF n, m
<1>5. ASSUME NEW i \in 1 .. Len(all)
      PROVE  \/ i \in 1 .. n /\ all[i].at = rows[i].at
             \/ i - n \in 1 .. m /\ all[i].at = new[i - n].at
  <2>1. i \in 1 .. n \/ (i - n \in 1 .. m /\ i = n + (i - n))
    BY <1>1, <1>2
  <2> QED BY <1>1, <2>1
<1>6. \A i \in 1 .. Len(all) : 1 <= all[i].at /\ all[i].at <= t
  BY <1>4, <1>5
<1>7. ASSUME NEW i \in 1 .. Len(all), NEW j \in 1 .. Len(all), i <= j
      PROVE  all[i].at <= all[j].at
  <2>1. CASE j \in 1 .. n
    <3>1. i \in 1 .. n
      BY <1>2, <1>7, <2>1
    <3>2. all[i] = rows[i] /\ all[j] = rows[j]
      BY <1>1, <2>1, <3>1
    <3> QED BY <1>4, <1>7, <2>1, <3>1, <3>2
  <2>2. CASE i \in 1 .. n /\ j - n \in 1 .. m /\ all[j].at = new[j - n].at
    BY <1>1, <1>4, <2>2
  <2>3. CASE /\ i - n \in 1 .. m /\ all[i].at = new[i - n].at
             /\ j - n \in 1 .. m /\ all[j].at = new[j - n].at
    <3>1. i - n <= j - n
      BY <1>2, <1>7
    <3> QED BY <1>4, <2>3, <3>1
  <2> QED BY <1>5, <2>1, <2>2, <2>3
<1>8. Len(<<>>) = 0 /\ \A k \in 1 .. Len(<<>>) : FALSE
  OBVIOUS
<1>9. Dated(all, <<>>, t)
  BY <1>6, <1>7, <1>8 DEF Dated
<1> QED BY <1>9 DEF all

\* Also without the new ones, and of the first entries.
LEMMA DatesOfBeginning ==
  ASSUME NEW s \in Seq(Entry), NEW rows \in Seq(Entry), Begins(s, rows), NEW new, NEW t,
         Dated(rows, new, t)
  PROVE  Dated(s, <<>>, t)
<1>1. \A i \in 1 .. Len(s) : i \in 1 .. Len(rows) /\ rows[i] = s[i]
  <2>1. Len(s) \in Nat /\ Len(rows) \in Nat
    OBVIOUS
  <2> QED BY <2>1 DEF Begins
<1>2. \A k \in 1 .. Len(<<>>) : FALSE
  OBVIOUS
<1> QED BY <1>1, <1>2 DEF Dated

LEMMA DatesStay ==
  ASSUME NEW rows \in Seq(Entry), NEW new \in Seq(Logged), NEW t \in Nat, Dated(rows, new, t)
  PROVE  Dated(rows, new, t + 1)
<1>1. /\ \A i \in 1 .. Len(rows) : rows[i] \in Entry
      /\ \A k \in 1 .. Len(new) : new[k] \in Logged
  OBVIOUS
<1>2. /\ \A i \in 1 .. Len(rows) : rows[i].at \in Nat
      /\ \A k \in 1 .. Len(new) : new[k].at \in Nat
  BY <1>1 DEF Entry, Logged
<1>3. /\ \A i \in 1 .. Len(rows) : 1 <= rows[i].at /\ rows[i].at <= t + 1
      /\ \A k \in 1 .. Len(new) : 1 <= new[k].at /\ new[k].at <= t + 1
  BY <1>2 DEF Dated
<1> QED BY <1>3 DEF Dated

\* A new entry is dated now.
LEMMA DatesFollow ==
  ASSUME NEW rows \in Seq(Entry), NEW new \in Seq(Logged), NEW t \in Nat, 1 <= t,
         Dated(rows, new, t), NEW e \in Logged, e.at = t
  PROVE  Dated(rows, Append(new, e), t)
<1> DEFINE more == Append(new, e)
           m == Len(new)
<1>1. /\ \A k \in 1 .. m : more[k] = new[k] /\ new[k] \in Logged
      /\ more[m + 1] = e /\ Len(more) = m + 1 /\ m \in Nat
  OBVIOUS
<1> HIDE DEF more, m
<1>2. \A k \in 1 .. Len(more) :
        \/ k \in 1 .. m /\ more[k] = new[k]
        \/ k = m + 1 /\ more[k].at = t
  <2>1. \A k \in 1 .. Len(more) : k \in 1 .. m \/ k = m + 1
    BY <1>1
  <2> QED BY <1>1, <2>1
<1>3. \A k \in 1 .. m : new[k].at \in Nat
  BY <1>1 DEF Logged
<1>4. /\ \A i \in 1 .. Len(rows) : 1 <= rows[i].at /\ rows[i].at <= t
      /\ \A i, j \in 1 .. Len(rows) : i <= j => rows[i].at <= rows[j].at
      /\ \A k \in 1 .. m : 1 <= new[k].at /\ new[k].at <= t
      /\ \A k, l \in 1 .. m : k <= l => new[k].at <= new[l].at
      /\ \A i \in 1 .. Len(rows), k \in 1 .. m : rows[i].at <= new[k].at
  BY DEF Dated, m
<1>5. ASSUME NEW k \in 1 .. Len(more)
      PROVE  1 <= more[k].at /\ more[k].at <= t
  <2>1. CASE k \in 1 .. m /\ more[k] = new[k]
    BY <1>4, <2>1
  <2>2. CASE more[k].at = t
    BY <2>2
  <2> QED BY <1>2, <2>1, <2>2
<1>6. ASSUME NEW k \in 1 .. Len(more), NEW l \in 1 .. Len(more), k <= l
      PROVE  more[k].at <= more[l].at
  <2>1. CASE l \in 1 .. m /\ more[l] = new[l]
    <3>1. k \in 1 .. m /\ more[k] = new[k]
      BY <1>1, <1>6, <2>1
    <3> QED BY <1>4, <1>6, <2>1, <3>1
  <2>2. CASE more[l].at = t
    BY <1>5, <2>2
  <2> QED BY <1>2, <2>1, <2>2
<1>7. \A i \in 1 .. Len(rows), k \in 1 .. Len(more) : rows[i].at <= more[k].at
  BY <1>2, <1>4
<1>8. Dated(rows, more, t)
  BY <1>4, <1>5, <1>6, <1>7 DEF Dated
<1> QED BY <1>8 DEF more

LEMMA SoundWhenIdle ==
  ASSUME tx'.flushed = <<>>, tx'.new = <<>>, tx'.who # "archive", log' \in Seq(Entry),
         Begins(copy', log'), Sealed(log'), Dated(log', <<>>, now'), Archived(log', archives')
  PROVE  Sound'
<1>1. log' \o <<>> = log'
  OBVIOUS
<1>2. Trail!Stored' = log'
  BY <1>1 DEF Trail!Stored
<1> QED BY <1>2 DEF Sound

\* Nothing is written, or what was is taken back.
LEMMA UnwrittenIsSound ==
  ASSUME TrailTypes, Sound, UNCHANGED <<log, copy, now, archives>>, tx'.flushed = <<>>,
         tx'.new = <<>>, tx'.who # "archive"
  PROVE  Sound'
<1>1. log \in Seq(Entry) /\ Trail!Stored \in Seq(Entry) /\ Begins(log, Trail!Stored)
  BY StoredIsLog DEF TrailTypes
<1>2. Sealed(log) /\ Dated(log, <<>>, now) /\ Begins(copy, log) /\ Archived(log, archives)
  BY <1>1, UnalteredIsSealed, DatesOfBeginning DEF Sound
<1> QED BY <1>1, <1>2, SoundWhenIdle

LEMMA CommitIsSound ==
  ASSUME TrailTypes, Sound, Trail!Commit
  PROVE  Sound'
<1>1. /\ TrailTypes' /\ Begins(log, log')
      /\ log' = Trail!Stored \o Trail!Chained(Trail!Stored, tx.new)
      /\ \A j \in 1 .. Len(log') : j > Len(log) => ~Tells(log', j)
  BY CommitKeepsTypes
<1>2. /\ tx' = Trail!Idle /\ UNCHANGED <<copy, archives, now>>
  BY DEF Trail!Commit
<1>3. /\ log \in Seq(Entry) /\ log' \in Seq(Entry) /\ copy \in Seq(Entry) /\ now \in Nat
      /\ tx.new \in Seq(Logged) /\ Trail!Stored \in Seq(Entry)
  BY <1>1, StoredIsLog DEF TrailTypes, TxOfTrail
<1>4. Sealed(log')
  BY <1>1, <1>3, LogGrowsBy DEF Sound
<1>5. Dated(log', <<>>, now')
  BY <1>1, <1>2, <1>3, DatesGrow DEF Sound
<1>6. Begins(copy', log')
  BY <1>1, <1>2, <1>3, BeginsAgain DEF Sound
<1>7. Archived(log', archives')
  BY <1>1, <1>2, <1>3, ArchiveStays DEF Sound
<1>8. tx'.flushed = <<>> /\ tx'.new = <<>> /\ tx'.who # "archive"
  BY <1>2 DEF Trail!Idle
<1> QED BY <1>3, <1>4, <1>5, <1>6, <1>7, <1>8, SoundWhenIdle

LEMMA RecordIsSound ==
  ASSUME TrailTypes, Sound, Trail!RecordArchive
  PROVE  Sound'
<1> DEFINE e == [at |-> now, tells |-> tx.due]
           new == <<e>>
           due == tx.due
<1>1. /\ TrailTypes' /\ Begins(log, log') /\ Len(log') = Len(log) + 1
      /\ log' = log \o Trail!Chained(log, new)
      /\ log'[Len(log')].tells = due /\ due \in Archive
  BY RecordKeepsTypes
<1>2. tx.who = "archive" /\ tx' = Trail!Idle /\ UNCHANGED <<copy, archives, now>>
  BY DEF Trail!RecordArchive
<1>3. /\ log \in Seq(Entry) /\ log' \in Seq(Entry) /\ copy \in Seq(Entry) /\ now \in Nat /\ 1 <= now
  BY <1>1 DEF TrailTypes
<1>4. e \in Logged /\ new \in Seq(Logged)
  <2>1. e \in Logged
    BY <1>1, <1>3 DEF Logged
  <2> HIDE DEF e
  <2> QED BY <2>1
<1>5. Trail!Stored = log /\ tx.new = <<>>
  BY <1>2, StoredIsLog DEF TrailTypes
<1>6. /\ due.first = Trail!LastArchived + 1 /\ due.first <= due.last /\ due.last <= Len(log)
      /\ InFile(archives, due, log) /\ Archived(log, archives) /\ Sealed(log)
      /\ Dated(log, <<>>, now) /\ Begins(copy, log)
  BY <1>2, <1>5 DEF Sound
<1>7. Dated(log, new, now)
  <2>1. e.at = now /\ <<>> \in Seq(Logged) /\ Append(<<>>, e) = new
    OBVIOUS
  <2> HIDE DEF e, new
  <2> QED BY <1>3, <1>4, <1>6, <2>1, DatesFollow
<1> HIDE DEF e, new
<1>8. Sealed(log')
  BY <1>1, <1>3, <1>4, <1>6, LogGrowsBy
<1>9. Dated(log', <<>>, now')
  BY <1>1, <1>2, <1>3, <1>4, <1>7, DatesGrow
<1>10. Begins(copy', log')
  BY <1>1, <1>2, <1>3, <1>6, BeginsAgain
<1>11. /\ Trail!LastArchived \in Nat
       /\ \A k \in 1 .. Len(log) : Tells(log, k) => log[k].tells.last <= Trail!LastArchived
       /\ \A i \in 1 .. Trail!LastArchived : \E k \in 1 .. Len(log) :
            Tells(log, k) /\ log[k].tells.first <= i /\ i <= log[k].tells.last
  BY <1>3, <1>6, RecordsSoFar
<1> HIDE DEF due
<1>12. /\ 1 <= due.first
       /\ \A i \in 1 .. due.first - 1 : \E k \in 1 .. Len(log) :
            Tells(log, k) /\ log[k].tells.first <= i /\ i <= log[k].tells.last
  <2>1. due.first - 1 = Trail!LastArchived
    BY <1>6, <1>11
  <2> QED BY <1>6, <1>11, <2>1
<1>13. \A k \in 1 .. Len(log) : Tells(log, k) => log[k].tells.last < due.first
  <2>1. \A k \in 1 .. Len(log) : log[k] \in Entry
    BY <1>3
  <2>2. \A k \in 1 .. Len(log) : log[k].tells.last \in Nat
    BY <2>1 DEF Entry, Archive
  <2> QED BY <1>6, <1>11, <2>2
<1>14. Archived(log', archives)
  BY <1>1, <1>3, <1>6, <1>12, <1>13, RecordIsAdded
<1>15. tx'.flushed = <<>> /\ tx'.new = <<>> /\ tx'.who # "archive"
  BY <1>2 DEF Trail!Idle
<1> QED BY <1>2, <1>3, <1>8, <1>9, <1>10, <1>14, <1>15, SoundWhenIdle

LEMMA RestoreIsSound ==
  ASSUME TrailTypes, Sound, Sealed(copy), Trail!Restore
  PROVE  Sound'
<1>1. log' = copy /\ tx' = tx /\ tx = Trail!Idle /\ UNCHANGED <<copy, archives, now>>
  BY DEF Trail!Restore
<1>2. copy \in Seq(Entry) /\ log \in Seq(Entry) /\ Trail!Stored \in Seq(Entry)
  BY StoredIsLog DEF TrailTypes
<1>3. Begins(copy, copy)
  BY <1>2 DEF Begins
<1>4. Begins(copy, log) /\ Begins(log, Trail!Stored)
  BY StoredIsLog DEF Sound
<1>5. Begins(copy, Trail!Stored)
  BY <1>2, <1>4, BeginsAgain
<1>6. Dated(copy, <<>>, now)
  BY <1>2, <1>5, DatesOfBeginning DEF Sound
<1>7. Archived(copy, archives)
  BY <1>2, <1>4, ArchiveOfBeginning DEF Sound
<1>8. tx'.flushed = <<>> /\ tx'.new = <<>> /\ tx'.who # "archive"
  BY <1>1 DEF Trail!Idle
<1> QED BY <1>1, <1>2, <1>3, <1>6, <1>7, <1>8, SoundWhenIdle

LEMMA FlushIsSound ==
  ASSUME TrailTypes, Sound, Trail!Flush
  PROVE  Sound'
<1>1. /\ Trail!Stored' = Trail!Stored \o Trail!Chained(Trail!Stored, tx.new)
      /\ tx'.who = "request" /\ tx'.new = <<>>
      /\ UNCHANGED <<log, archives, copy, now>>
  BY FlushKeepsTypes
<1>2. tx.new \in Seq(Logged) /\ Trail!Stored \in Seq(Entry) /\ now \in Nat
  BY StoredIsLog DEF TrailTypes, TxOfTrail
<1>3. Sealed(Trail!Stored')
  BY <1>1, <1>2, LogGrowsBy DEF Sound
<1>4. Dated(Trail!Stored', tx'.new, now')
  BY <1>1, <1>2, DatesGrow DEF Sound
<1>5. Begins(copy', log') /\ Archived(log', archives')
  BY <1>1 DEF Sound
<1> QED BY <1>1, <1>3, <1>4, <1>5 DEF Sound

LEMMA LogIsSound ==
  ASSUME TrailTypes, Sound, Trail!Log
  PROVE  Sound'
<1> DEFINE e == [at |-> now, tells |-> Trail!Work]
<1>1. /\ tx.who = "request" /\ tx' = [tx EXCEPT !.new = Append(tx.new, e)]
      /\ UNCHANGED <<log, archives, copy, now>>
  BY DEF Trail!Log
<1>2. /\ tx \in TxOfTrail /\ tx.new \in Seq(Logged) /\ Trail!Stored \in Seq(Entry)
      /\ now \in Nat /\ 1 <= now
  BY StoredIsLog DEF TrailTypes, TxOfTrail
<1>3. e \in Logged /\ e.at = now
  BY <1>2, WorkIsArchive DEF Logged
<1> HIDE DEF e
<1>4. tx'.who = "request" /\ tx'.flushed = tx.flushed /\ tx'.new = Append(tx.new, e)
  BY <1>1, <1>2 DEF TxOfTrail
<1>5. Trail!Stored' = Trail!Stored
  BY <1>1, <1>4 DEF Trail!Stored
<1>6. Dated(Trail!Stored, Append(tx.new, e), now)
  BY <1>2, <1>3, DatesFollow DEF Sound
<1> QED BY <1>1, <1>4, <1>5, <1>6 DEF Sound

LEMMA ArchiveIsSound ==
  ASSUME TrailTypes, Sound, Trail!WriteArchive
  PROVE  Sound'
<1> DEFINE r == Trail!Range(Trail!Due)
           g == [range |-> r, rows |-> [i \in Trail!Due |-> log[i]]]
<1>1. /\ tx = Trail!Idle /\ Trail!Due # {} /\ tx' = [Trail!Idle EXCEPT !.who = "archive", !.due = r]
      /\ archives' = {f \in archives : f.range # r} \cup {g}
      /\ UNCHANGED <<log, copy, now>>
  BY DEF Trail!WriteArchive
<1>2. log \in Seq(Entry) /\ now \in Nat
  BY DEF TrailTypes
<1>3. /\ tx.who = "nobody" /\ tx.new = <<>> /\ tx.flushed = <<>>
      /\ tx'.who = "archive" /\ tx'.new = <<>> /\ tx'.flushed = <<>> /\ tx'.due = r
  BY <1>1 DEF Trail!Idle
<1>4. Trail!Stored = log /\ Trail!Stored' = log
  <2>1. Trail!Stored = log
    BY <1>3, StoredIsLog
  <2> QED BY <1>1, <1>3, <2>1 DEF Trail!Stored
<1>5. Sealed(log) /\ Dated(log, <<>>, now) /\ Begins(copy, log) /\ Archived(log, archives)
  BY <1>3, <1>4 DEF Sound
<1>6. /\ r.first = Trail!LastArchived + 1 /\ r.first <= r.last /\ r.last <= Len(log)
      /\ Trail!Due = r.first .. r.last
  BY <1>1, <1>2, <1>5, DueFollows
<1>7. \A j \in 1 .. Len(log) : Tells(log, j) => log[j].tells # r
  <2>1. /\ Trail!LastArchived \in Nat
        /\ \A k \in 1 .. Len(log) : Tells(log, k) => log[k].tells.last <= Trail!LastArchived
    BY <1>2, <1>5, RecordsSoFar
  <2>2. r.last \in Nat /\ r.first \in Nat
    BY <1>1, <1>2, DueIsRange DEF Archive
  <2> HIDE DEF r
  <2>3. \A j \in 1 .. Len(log) : Tells(log, j) => log[j].tells.last # r.last
    <3>1. \A j \in 1 .. Len(log) : log[j] \in Entry
      BY <1>2
    <3>2. \A j \in 1 .. Len(log) : log[j].tells.last \in Nat
      BY <3>1 DEF Entry, Archive
    <3> QED BY <1>6, <2>1, <2>2, <3>2
  <2> QED BY <2>3
<1>8. Archived(log, archives')
  <2> HIDE DEF r, g
  <2> QED BY <1>1, <1>2, <1>5, <1>7, FileIsReplaced
<1>9. InFile(archives', r, log)
  <2>1. /\ g \in archives' /\ g.range = r /\ DOMAIN g.rows = Trail!Due
        /\ \A i \in Trail!Due : g.rows[i] = log[i]
    BY <1>1
  <2> HIDE DEF r, g
  <2> QED BY <1>6, <2>1 DEF InFile
<1>10. Trail!LastArchived' = Trail!LastArchived
  BY <1>1 DEF Trail!LastArchived
<1> HIDE DEF r
<1>11. Sealed(Trail!Stored') /\ Dated(Trail!Stored', tx'.new, now')
  BY <1>1, <1>3, <1>4, <1>5
<1>12. Begins(copy', log') /\ Archived(log', archives')
  BY <1>1, <1>5, <1>8
<1>13. /\ tx'.due.first = Trail!LastArchived' + 1
       /\ tx'.due.first <= tx'.due.last /\ tx'.due.last <= Len(log')
       /\ InFile(archives', tx'.due, log')
  BY <1>1, <1>3, <1>6, <1>9, <1>10
<1> QED BY <1>11, <1>12, <1>13 DEF Sound

\* Time goes by, or a backup is taken.
LEMMA TimeIsSound ==
  ASSUME TrailTypes, Sound, Trail!Tick \/ Trail!Backup
  PROVE  Sound'
<1>1. /\ UNCHANGED <<log, tx, archives>> /\ now' \in {now, now + 1} /\ copy' \in {copy, log}
  BY DEF Trail!Tick, Trail!Backup
<1>2. /\ log \in Seq(Entry) /\ now \in Nat /\ Trail!Stored \in Seq(Entry) /\ tx.new \in Seq(Logged)
  BY StoredIsLog DEF TrailTypes, TxOfTrail
<1>3. Trail!Stored' = Trail!Stored /\ Trail!LastArchived' = Trail!LastArchived
  BY <1>1 DEF Trail!Stored, Trail!LastArchived
<1>4. Dated(Trail!Stored, tx.new, now')
  BY <1>1, <1>2, DatesStay DEF Sound
<1>5. Begins(copy', log)
  <2>1. Begins(log, log)
    BY <1>2 DEF Begins
  <2> QED BY <1>1, <2>1 DEF Sound
<1> QED BY <1>1, <1>3, <1>4, <1>5 DEF Sound

LEMMA SoundStep ==
  ASSUME TrailInv, Trail!Next, ~altered'
  PROVE  Sound'
<1>1. TrailTypes /\ TrailTypes'
  BY TrailTypesStep DEF TrailInv
<1>2. ~altered /\ ~Trail!Alter
  <2>1. altered' = altered \/ Trail!Alter
    BY <1>1, LogMoves DEF Trail!Restore
  <2>2. Trail!Alter => altered'
    BY DEF Trail!Alter
  <2> QED BY <2>1, <2>2
<1>3. Sound /\ Sealed(copy)
  BY <1>2 DEF TrailInv, Vouching
<1>4. CASE Trail!BeginRequest \/ Trail!Verify
  <2>1. /\ tx' = [Trail!Idle EXCEPT !.who = "request"] \/ tx' = [Trail!Idle EXCEPT !.who = "verification"]
        /\ UNCHANGED <<log, copy, now, archives>>
    BY <1>4 DEF Trail!BeginRequest, Trail!Verify, Trail!Begin
  <2>2. tx'.flushed = <<>> /\ tx'.new = <<>> /\ tx'.who # "archive"
    BY <2>1 DEF Trail!Idle
  <2> QED BY <1>1, <1>3, <2>1, <2>2, UnwrittenIsSound
<1>5. CASE Trail!Rollback \/ Trail!WriteAnchor
  <2>1. tx' = Trail!Idle /\ UNCHANGED <<log, copy, now, archives>>
    BY <1>5 DEF Trail!Rollback, Trail!WriteAnchor
  <2>2. tx'.flushed = <<>> /\ tx'.new = <<>> /\ tx'.who # "archive"
    BY <2>1 DEF Trail!Idle
  <2> QED BY <1>1, <1>3, <2>1, <2>2, UnwrittenIsSound
<1>6. CASE Trail!EmptyAnchor
  <2>1. /\ tx.who = "verification" /\ tx' = [tx EXCEPT !.who = "anchor"]
        /\ UNCHANGED <<log, copy, now, archives>>
    BY <1>6 DEF Trail!EmptyAnchor
  <2>2. tx \in TxOfTrail /\ tx.flushed = <<>> /\ tx.new = <<>>
    BY <1>1, <2>1 DEF TrailTypes
  <2>3. tx'.flushed = <<>> /\ tx'.new = <<>> /\ tx'.who # "archive"
    BY <2>1, <2>2 DEF TxOfTrail
  <2> QED BY <1>1, <1>3, <2>1, <2>3, UnwrittenIsSound
<1> QED BY <1>1, <1>2, <1>3, <1>4, <1>5, <1>6, FlushIsSound, LogIsSound, CommitIsSound,
           RecordIsSound, RestoreIsSound, ArchiveIsSound, TimeIsSound DEF Trail!Next

LEMMA TrailStep ==
  ASSUME TrailInv, [Trail!Next]_trail
  PROVE  TrailInv'
<1>1. CASE Trail!Next
  BY <1>1, TrailTypesStep, VouchingStep, BrokenStays, SoundStep DEF TrailInv
<1>2. CASE UNCHANGED trail
  BY <1>2 DEF trail, TrailInv, TrailTypes, Vouching, Sound, Trail!Stored, Trail!LastArchived
<1> QED BY <1>1, <1>2

LEMMA TrailBegins == Trail!Init => TrailInv
<1> SUFFICES ASSUME Trail!Init PROVE TrailInv
  OBVIOUS
<1>1. /\ log = <<>> /\ tx = Trail!Idle /\ anchor = Trail!None /\ archives = {} /\ copy = <<>>
      /\ now = 1 /\ verdict = "none" /\ vouched = <<>> /\ altered = FALSE
  BY DEF Trail!Init
<1>2. <<>> \in Seq(Entry) /\ Len(<<>>) = 0 /\ \A i : i \notin 1 .. 0
  OBVIOUS
<1>3. tx \in TxOfTrail /\ tx.flushed = <<>> /\ tx.new = <<>> /\ tx.who = "nobody"
  BY <1>1, WorkIsArchive DEF Trail!Idle
<1>4. TrailTypes
  <2>1. /\ \A i \in 1 .. Len(tx.flushed) : ~Tells(tx.flushed, i)
        /\ \A i \in 1 .. Len(tx.new) : ~Tells(tx.new, i)
    BY <1>2, <1>3
  <2>2. now \in Nat /\ 1 <= now /\ verdict \in {"none", "ok", "broken"}
    BY <1>1
  <2>4. altered \in BOOLEAN
    BY <1>1
  <2>3. log \in Seq(Entry) /\ copy \in Seq(Entry) /\ vouched \in Seq(Entry)
    BY <1>1, <1>2
  <2> QED BY <1>3, <2>1, <2>2, <2>3, <2>4 DEF TrailTypes
<1>5. Vouching
  BY <1>1, <1>2, <1>3 DEF Vouching, Sealed
<1>6. Sound
  <2>1. Trail!Stored = <<>>
    BY <1>1, <1>3, <1>4, StoredIsLog
  <2> QED BY <1>1, <1>2, <1>3, <2>1
          DEF Sound, Begins, Sealed, Dated, Archived, Recorded, InOrder, WithoutGaps
<1> QED BY <1>1, <1>4, <1>5, <1>6 DEF TrailInv

-----------------------------------------------------------------------------

\* The last hash of a chain tells all of it.
LEMMA HashTells ==
  ASSUME NEW s \in Seq(Entry), NEW t \in Seq(Entry), Sealed(s), Sealed(t),
         NEW n \in 1 .. Len(s), n <= Len(t), s[n].hash = t[n].hash
  PROVE  \A i \in 1 .. n : s[i] = t[i]
<1>1. n \in Nat /\ Len(s) \in Nat /\ Len(t) \in Nat /\ n <= Len(s) /\ n <= Len(t)
  OBVIOUS
<1>2. ASSUME NEW i \in 1 .. n, s[i].hash = t[i].hash
      PROVE  s[i] = t[i]
  <2>1. i \in 1 .. Len(s) /\ i \in 1 .. Len(t)
    BY <1>1
  <2>2. s[i] \in Entry /\ t[i] \in Entry
    BY <2>1
  <2>3. /\ s[i].hash = Append(s[i].prev, <<s[i].at, s[i].tells>>)
        /\ t[i].hash = Append(t[i].prev, <<t[i].at, t[i].tells>>)
    BY <2>1 DEF Sealed
  <2>4. s[i].prev \in Seq(Content) /\ t[i].prev \in Seq(Content)
    BY <2>2 DEF Entry
  <2>5. s[i].prev = t[i].prev /\ s[i].at = t[i].at /\ s[i].tells = t[i].tells
    <3> DEFINE p == s[i].prev
               q == t[i].prev
               x == <<s[i].at, s[i].tells>>
               y == <<t[i].at, t[i].tells>>
    <3>1. p \in Seq(Content) /\ q \in Seq(Content) /\ Append(p, x) = Append(q, y)
      BY <1>2, <2>3, <2>4
    <3>2. x[1] = s[i].at /\ x[2] = s[i].tells /\ y[1] = t[i].at /\ y[2] = t[i].tells
      OBVIOUS
    <3> HIDE DEF p, q, x, y
    <3>3. p = q /\ x = y
      <4>1. Len(Append(p, x)) = Len(p) + 1 /\ Len(Append(q, y)) = Len(q) + 1
            /\ Len(p) \in Nat /\ Len(q) \in Nat
        BY <3>1
      <4>2. Len(p) = Len(q)
        BY <3>1, <4>1
      <4>3. Append(p, x)[Len(p) + 1] = x /\ Append(q, y)[Len(q) + 1] = y
        BY <3>1
      <4>4. x = y
        BY <3>1, <4>2, <4>3
      <4>5. \A k \in 1 .. Len(p) : Append(p, x)[k] = p[k]
        BY <3>1
      <4>6. \A k \in 1 .. Len(q) : Append(q, y)[k] = q[k]
        BY <3>1
      <4>7. \A k \in 1 .. Len(p) : p[k] = q[k]
        BY <3>1, <4>2, <4>5, <4>6
      <4>8. p = q
        BY <3>1, <4>2, <4>7
      <4> QED BY <4>4, <4>8
    <3> QED BY <3>2, <3>3 DEF p, q
  <2> DEFINE H == Seq(Content)
             e == s[i]
             f == t[i]
  <2>6. /\ e \in [at : Nat, tells : Archive, prev : H, hash : H]
        /\ f \in [at : Nat, tells : Archive, prev : H, hash : H]
        /\ e.at = f.at /\ e.tells = f.tells /\ e.prev = f.prev /\ e.hash = f.hash
    BY <1>2, <2>2, <2>5 DEF Entry
  <2> HIDE DEF H, e, f
  <2>7. e = f
    BY ONLY <2>6
  <2> QED BY <2>7 DEF e, f
<1> DEFINE T == {i \in 1 .. n : s[i].hash # t[i].hash}
<1>3. T = {}
  <2> SUFFICES ASSUME T # {} PROVE FALSE
    OBVIOUS
  <2>1. T \subseteq 0 .. n
    BY <1>1
  <2>2. PICK m \in T : \A k \in T : k <= m
    <3> HIDE DEF T
    <3> QED BY <1>1, <2>1, GreatestNumber
  <2>3. m \in 1 .. n /\ m # n /\ m + 1 \in 1 .. n /\ m + 1 \notin T
    BY <1>1, <2>2
  <2>4. s[m + 1] = t[m + 1]
    BY <1>2, <2>3
  <2>5. s[m + 1].prev = s[m].hash
    <3>1. m + 1 \in 1 .. Len(s) /\ m + 1 # 1 /\ (m + 1) - 1 = m
      BY <1>1, <2>3
    <3> QED BY <3>1 DEF Sealed
  <2>6. t[m + 1].prev = t[m].hash
    <3>1. m + 1 \in 1 .. Len(t) /\ m + 1 # 1 /\ (m + 1) - 1 = m
      BY <1>1, <2>3
    <3> QED BY <3>1 DEF Sealed
  <2> QED BY <2>2, <2>4, <2>5, <2>6
<1> QED BY <1>2, <1>3

\* What the anchor holds, when something was verified before.
LEMMA AnchorTells ==
  ASSUME TrailInv
  PROVE  Trail!AnchorHolds(log) <=>
           (vouched # <<>> => /\ Len(vouched) <= Len(log)
                              /\ log[Len(vouched)].hash = vouched[Len(vouched)].hash)
<1>1. vouched \in Seq(Entry)
  BY DEF TrailInv, TrailTypes
<1>2. CASE anchor = Trail!None /\ vouched = <<>>
  BY <1>2 DEF Trail!AnchorHolds
<1>3. CASE /\ vouched # <<>>
           /\ anchor = [count |-> Len(vouched), head |-> vouched[Len(vouched)].hash]
  <2>1. anchor # Trail!None
    BY <1>3 DEF Trail!None
  <2>2. anchor.count = Len(vouched) /\ anchor.head = vouched[Len(vouched)].hash
    BY <1>3
  <2> QED BY <1>3, <2>1, <2>2 DEF Trail!AnchorHolds
<1> QED BY <1>2, <1>3 DEF TrailInv, Vouching

LEMMA WhatVerifies ==
  ASSUME TrailInv
  PROVE  Trail!verify_rows(log) <=> Sealed(log) /\ Trail!IsPrefix(vouched, log)
<1>1. /\ log \in Seq(Entry) /\ vouched \in Seq(Entry) /\ Sealed(vouched)
      /\ Len(log) \in Nat /\ Len(vouched) \in Nat
  BY DEF TrailInv, TrailTypes, Vouching
<1>2. Trail!IsPrefix(vouched, log) <=> Begins(vouched, log)
  BY <1>1, Beginning
<1>3. Trail!verify_rows(log) <=> Sealed(log) /\ Trail!AnchorHolds(log)
  BY <1>1, Sealing DEF Trail!verify_rows
<1>4. CASE vouched = <<>>
  <2>1. Begins(vouched, log)
    BY <1>1, <1>4 DEF Begins
  <2> QED BY <1>2, <1>3, <1>4, <2>1, AnchorTells
<1>5. CASE vouched # <<>>
  <2> DEFINE n == Len(vouched)
  <2>1. n \in 1 .. Len(vouched) /\ n = Len(vouched)
    BY <1>1, <1>5
  <2>2. Trail!AnchorHolds(log) <=> n <= Len(log) /\ log[n].hash = vouched[n].hash
    BY <1>5, AnchorTells
  <2> HIDE DEF n
  <2>3. ASSUME Sealed(log), n <= Len(log), log[n].hash = vouched[n].hash
        PROVE  Begins(vouched, log)
    <3>1. \A i \in 1 .. n : vouched[i] = log[i]
      BY <1>1, <2>1, <2>3, HashTells
    <3> QED BY <2>1, <2>3, <3>1 DEF Begins
  <2>4. ASSUME Begins(vouched, log)
        PROVE  n <= Len(log) /\ log[n].hash = vouched[n].hash
    BY <2>1, <2>4 DEF Begins
  <2> QED BY <1>2, <1>3, <2>2, <2>3, <2>4
<1> QED BY <1>4, <1>5

\* What is recorded as archived is in one record and in a file.
LEMMA ArchivesHold ==
  ASSUME TrailInv
  PROVE  Trail!ArchivedOnce
<1> SUFFICES ASSUME ~altered, NEW i \in 1 .. Trail!LastArchived
             PROVE  /\ Cardinality({j \in 1 .. Len(log) : log[j].tells # Trail!Work /\
                                      i \in log[j].tells.first .. log[j].tells.last}) = 1
                    /\ \E f \in archives : i \in DOMAIN f.rows /\ f.rows[i] = log[i]
  BY DEF Trail!ArchivedOnce, Trail!Cardinality, Cardinality
<1>1. log \in Seq(Entry) /\ Archived(log, archives)
  BY DEF TrailInv, TrailTypes, Sound
<1>2. /\ Trail!LastArchived \in Nat
      /\ \A m \in 1 .. Trail!LastArchived : \E k \in 1 .. Len(log) :
           Tells(log, k) /\ log[k].tells.first <= m /\ m <= log[k].tells.last
  BY <1>1, RecordsSoFar
<1>3. PICK k \in 1 .. Len(log) :
        Tells(log, k) /\ log[k].tells.first <= i /\ i <= log[k].tells.last
  BY <1>2
<1>4. \A j \in 1 .. Len(log) : log[j].tells.first \in Nat /\ log[j].tells.last \in Nat
  <2>1. \A j \in 1 .. Len(log) : log[j] \in Entry
    BY <1>1
  <2> QED BY <2>1 DEF Entry, Archive
<1>5. i \in Nat /\ i \in log[k].tells.first .. log[k].tells.last
  BY <1>2, <1>3, <1>4
<1> DEFINE C == {j \in 1 .. Len(log) : log[j].tells # Trail!Work /\
                   i \in log[j].tells.first .. log[j].tells.last}
<1>6. C = {k}
  <2>1. k \in C
    BY <1>3, <1>5 DEF Tells
  <2>2. ASSUME NEW j \in C PROVE j = k
    <3>1. j \in 1 .. Len(log) /\ Tells(log, j) /\ log[j].tells.first <= i /\ i <= log[j].tells.last
      BY <1>4, <2>2 DEF Tells
    <3>2. ~(j < k)
      <4>1. j < k => log[j].tells.last < log[k].tells.first
        BY <1>1, <1>3, <3>1 DEF Archived, InOrder
      <4> QED BY <1>3, <1>4, <1>5, <3>1, <4>1
    <3>3. ~(k < j)
      <4>1. k < j => log[k].tells.last < log[j].tells.first
        BY <1>1, <1>3, <3>1 DEF Archived, InOrder
      <4> QED BY <1>3, <1>4, <1>5, <3>1, <4>1
    <3> QED BY <3>1, <3>2, <3>3
  <2> QED BY <2>1, <2>2
<1>7. Cardinality(C) = 1
  <2> HIDE DEF C
  <2> QED BY <1>6, FS_Singleton
<1>8. \E f \in archives : i \in DOMAIN f.rows /\ f.rows[i] = log[i]
  <2>1. InFile(archives, log[k].tells, log)
    BY <1>1, <1>3 DEF Archived, Recorded
  <2> QED BY <1>5, <2>1 DEF InFile
<1> QED BY <1>7, <1>8

\* AlteredIsFound: an entry that was changed, or removed before the end, is found by every
\* later verification; a log nobody altered never raises an alarm, except after a restore that
\* took away what the anchor knows of; a good verification vouches for the whole log of the one
\* before; and every entry recorded as archived is told by one record and is in a file, for
\* logs of every length, however requests flush, roll back and die (app/audit_chain.py).
THEOREM OutsideAlteredIsFound == OutsideSpec => AlteredIsFound
<1>1. OutsideInit => TrailInv
  BY TrailBegins DEF OutsideInit
<1>2. [OutsideNext]_outside => [Trail!Next]_trail
  BY DEF OutsideNext, Only, outside
<1>3. TrailInv /\ [Trail!Next]_trail => TrailInv'
  BY TrailStep
<1>4. TrailInv => Trail!ArchivedOnce
  BY ArchivesHold
<1>5. TrailInv /\ [Trail!Next]_trail =>
        /\ [Trail!Verify /\ altered => verdict' = "broken"]_trail
        /\ [Trail!Verify /\ verdict' = "broken" => altered \/ ~Trail!IsPrefix(vouched, log)]_trail
        /\ [Trail!Verify /\ verdict' = "ok" => Trail!IsPrefix(vouched, log)]_trail
  <2> SUFFICES ASSUME TrailInv, Trail!Verify
               PROVE  /\ altered => verdict' = "broken"
                      /\ verdict' = "broken" => altered \/ ~Trail!IsPrefix(vouched, log)
                      /\ verdict' = "ok" => Trail!IsPrefix(vouched, log)
    OBVIOUS
  <2>1. verdict' = IF Trail!verify_rows(log) THEN "ok" ELSE "broken"
    BY DEF Trail!Verify
  <2>2. Trail!verify_rows(log) <=> Sealed(log) /\ Trail!IsPrefix(vouched, log)
    BY WhatVerifies
  <2>3. (altered => ~Sealed(log)) /\ (~altered => Sealed(log))
    BY UnalteredIsSealed DEF TrailInv
  <2> QED BY <2>1, <2>2, <2>3
<1> QED BY <1>1, <1>2, <1>3, <1>4, <1>5, PTL
   DEF OutsideSpec, AlteredIsFound, Trail!AlteredIsFound, Trail!NoFalseAlarm,
       Trail!VerifiedIsKept, Trail!vars, trail

Fitting(rows) ==
  \A i \in 1 .. Len(rows) : rows[i].at \in 0 .. MaxTime /\ rows[i].tells \in Trail!Ranges

\* What the bounds of the log mean for everything that holds entries.
TrailBounds ==
  /\ Fitting(log) /\ Fitting(tx.flushed) /\ Fitting(tx.new) /\ Fitting(copy) /\ Fitting(vouched)
  /\ now <= MaxTime
  /\ Len(log) + Len(tx.flushed) + Len(tx.new) <= MaxEntries
  /\ Len(copy) <= MaxEntries /\ Len(vouched) <= MaxEntries
  /\ \A f \in archives : f.range \in Trail!Ranges
  /\ tx.who = "archive" => Len(log) < MaxEntries /\ tx.due \in Trail!Ranges

LEMMA FittingJoined ==
  ASSUME NEW S, NEW a \in Seq(S), NEW b \in Seq(S), Fitting(a), Fitting(b)
  PROVE  Fitting(a \o b)
<1>1. /\ Len(a) \in Nat /\ Len(b) \in Nat /\ Len(a \o b) = Len(a) + Len(b)
      /\ \A i \in 1 .. Len(a) : (a \o b)[i] = a[i]
      /\ \A k \in 1 .. Len(b) : (a \o b)[Len(a) + k] = b[k]
  OBVIOUS
<1> DEFINE all == a \o b
<1> HIDE DEF all
<1>2. ASSUME NEW i \in 1 .. Len(all)
      PROVE  all[i].at \in 0 .. MaxTime /\ all[i].tells \in Trail!Ranges
  <2>1. Len(all) = Len(a) + Len(b)
    BY <1>1 DEF all
  <2>2. i \in 1 .. Len(a) \/ i - Len(a) \in 1 .. Len(b)
    BY <1>1, <2>1
  <2>3. CASE i \in 1 .. Len(a)
    <3>1. all[i] = a[i]
      BY <1>1, <2>3 DEF all
    <3> QED BY <2>3, <3>1 DEF Fitting
  <2>4. CASE i - Len(a) \in 1 .. Len(b)
    <3> DEFINE k == i - Len(a)
    <3>1. i = Len(a) + k /\ k \in 1 .. Len(b)
      BY <1>1, <2>4
    <3> HIDE DEF k
    <3>2. all[i] = b[k]
      BY <1>1, <3>1 DEF all
    <3> QED BY <3>1, <3>2 DEF Fitting
  <2> QED BY <2>2, <2>3, <2>4
<1> QED BY <1>2 DEF Fitting, all

LEMMA FittingChained ==
  ASSUME NEW rows \in Seq(Entry), NEW new \in Seq(Logged), Fitting(new)
  PROVE  /\ Trail!Chained(rows, new) \in Seq(Entry) /\ Fitting(Trail!Chained(rows, new))
         /\ Len(Trail!Chained(rows, new)) = Len(new)
<1> DEFINE more == Trail!Chained(rows, new)
<1>1. /\ more \in Seq(Entry) /\ Len(more) = Len(new)
      /\ \A i \in 1 .. Len(new) : more[i].at = new[i].at /\ more[i].tells = new[i].tells
  BY Chaining
<1> HIDE DEF more
<1>2. Fitting(more)
  BY <1>1 DEF Fitting
<1> QED BY <1>1, <1>2 DEF more

LEMMA WorkFits ==
  /\ MaxEntries \in Nat /\ MaxTime \in Nat \ {0}
  /\ Trail!Work \in Trail!Ranges /\ Fitting(<<>>)
<1>1. MaxEntries \in Nat /\ MaxTime \in Nat \ {0}
  BY TrailAssumption DEF Trail!RetentionAssumption
<1>2. Trail!Work \in Trail!Ranges
  BY <1>1 DEF Trail!Work, Trail!Ranges
<1>3. Fitting(<<>>)
  BY DEF Fitting
<1> QED BY <1>1, <1>2, <1>3

\* When the transaction ends and a log that fits is left.
LEMMA IdleFits ==
  ASSUME TrailBounds, tx' = Trail!Idle, log' \in Seq(Entry), Fitting(log'), Len(log') <= MaxEntries,
         UNCHANGED <<archives, copy, now, vouched>>
  PROVE  TrailBounds'
<1>1. tx'.flushed = <<>> /\ tx'.new = <<>> /\ tx'.who = "nobody"
  BY DEF Trail!Idle
<1>2. Len(log') + Len(tx'.flushed) + Len(tx'.new) <= MaxEntries
  BY <1>1
<1> QED BY <1>1, <1>2, WorkFits DEF TrailBounds, Fitting

LEMMA LogFits ==
  ASSUME TrailTypes, TrailBounds, Trail!Log
  PROVE  TrailBounds'
<1> DEFINE e == [at |-> now, tells |-> Trail!Work]
           n == tx.new
<1>1. tx' = [tx EXCEPT !.new = Append(n, e)] /\ tx.who = "request"
  BY DEF Trail!Log
<1>2. e \in Logged /\ e.at \in 0 .. MaxTime /\ e.tells \in Trail!Ranges
  BY WorkFits, WorkIsArchive DEF TrailTypes, TrailBounds, Logged
<1>3. n \in Seq(Logged) /\ tx \in TxOfTrail /\ Fitting(n)
  BY DEF TrailTypes, TxOfTrail, TrailBounds
<1>4. Len(Trail!Stored) + Len(n) < MaxEntries
  BY DEF Trail!Log
<1>5. Len(Trail!Stored) = Len(log) + Len(tx.flushed)
  BY StoredIsLog
<1> HIDE DEF e, n
<1>6. /\ tx'.new = Append(n, e) /\ tx'.flushed = tx.flushed /\ tx'.who = "request"
  BY ONLY <1>1, <1>3 DEF TxOfTrail
<1>7. Fitting(Append(n, e)) /\ Len(Append(n, e)) = Len(n) + 1 /\ Len(n) \in Nat
  BY <1>2, <1>3 DEF Fitting
<1>8. Len(log) \in Nat /\ Len(tx.flushed) \in Nat
  BY DEF TrailTypes, TxOfTrail
<1>9. Len(log) + Len(tx.flushed) + Len(Append(n, e)) <= MaxEntries
  <2> DEFINE f == Len(tx.flushed)
             m == Len(n)
             s == Len(Trail!Stored)
             a == Len(Append(n, e))
  <2>1. /\ s + m < MaxEntries /\ s = Len(log) + f /\ a = m + 1
        /\ m \in Nat /\ f \in Nat /\ Len(log) \in Nat /\ MaxEntries \in Nat
    BY <1>4, <1>5, <1>7, <1>8, WorkFits
  <2> HIDE DEF f, m, s, a
  <2>2. Len(log) + f + a <= MaxEntries
    BY <2>1
  <2> QED BY <2>2 DEF f, a
<1>10. UNCHANGED <<log, archives, copy, now, vouched>>
  BY DEF Trail!Log
<1> QED BY <1>6, <1>7, <1>9, <1>10 DEF TrailBounds, Fitting

LEMMA FlushFits ==
  ASSUME TrailTypes, TrailBounds, Trail!Flush
  PROVE  TrailBounds'
<1> DEFINE S == Trail!Stored
           more == Trail!Chained(S, tx.new)
           f == tx.flushed
<1>1. tx' = [tx EXCEPT !.flushed = f \o more, !.new = <<>>]
  BY DEF Trail!Flush
<1>2. /\ S \in Seq(Entry) /\ tx.new \in Seq(Logged) /\ f \in Seq(Entry) /\ tx \in TxOfTrail
      /\ Fitting(tx.new) /\ Fitting(f)
  BY StoredIsLog DEF TrailTypes, TxOfTrail, TrailBounds
<1> HIDE DEF S
<1>3. more \in Seq(Entry) /\ Fitting(more) /\ Len(more) = Len(tx.new)
  BY <1>2, FittingChained
<1> HIDE DEF more, f
<1>4. tx'.flushed = f \o more /\ tx'.new = <<>> /\ tx'.who = tx.who
  BY ONLY <1>1, <1>2 DEF TxOfTrail
<1>5. Fitting(f \o more) /\ Len(f \o more) = Len(f) + Len(tx.new)
  <2>1. Fitting(f \o more)
    BY ONLY <1>2, <1>3, FittingJoined
  <2>2. Len(f \o more) = Len(f) + Len(more)
    BY ONLY <1>2, <1>3
  <2> QED BY <1>3, <2>1, <2>2
<1>6. tx.who = "request" /\ UNCHANGED <<log, archives, copy, now, vouched>>
  BY FlushKeepsTypes
<1>7. Len(log) + Len(f) + Len(tx.new) <= MaxEntries
  BY DEF TrailBounds, f
<1>8. Len(log) \in Nat /\ Len(f) \in Nat /\ Len(tx.new) \in Nat
  BY <1>2 DEF TrailTypes
<1>9. Len(log') + Len(tx'.flushed) + Len(tx'.new) <= MaxEntries
  <2>1. Len(log) + (Len(f) + Len(tx.new)) <= MaxEntries
    <3> DEFINE a == Len(log)
               b == Len(f)
               c == Len(tx.new)
    <3>1. a + b + c <= MaxEntries /\ a \in Nat /\ b \in Nat /\ c \in Nat /\ MaxEntries \in Nat
      BY <1>7, <1>8, WorkFits
    <3> HIDE DEF a, b, c
    <3>2. a + (b + c) <= MaxEntries
      BY ONLY <3>1
    <3> QED BY <3>2 DEF a, b, c
  <2> QED BY <1>4, <1>5, <1>6, <1>8, <2>1
<1> QED BY <1>4, <1>5, <1>6, <1>9, WorkFits DEF TrailBounds, Fitting

LEMMA CommitFits ==
  ASSUME TrailTypes, TrailBounds, Trail!Commit
  PROVE  TrailBounds'
<1> DEFINE S == Trail!Stored
           more == Trail!Chained(S, tx.new)
<1>1. log' = S \o more /\ tx' = Trail!Idle /\ UNCHANGED <<archives, copy, now, vouched>>
  BY DEF Trail!Commit
<1>2. /\ S \in Seq(Entry) /\ S = log \o tx.flushed /\ Len(S) = Len(log) + Len(tx.flushed)
  BY StoredIsLog DEF Trail!Stored
<1>3. /\ log \in Seq(Entry) /\ tx.flushed \in Seq(Entry) /\ tx.new \in Seq(Logged)
      /\ Fitting(log) /\ Fitting(tx.flushed) /\ Fitting(tx.new)
      /\ Len(log) + Len(tx.flushed) + Len(tx.new) <= MaxEntries
  BY DEF TrailTypes, TxOfTrail, TrailBounds
<1> HIDE DEF S
<1>4. Fitting(S)
  <2>1. Fitting(log \o tx.flushed)
    BY ONLY <1>3, FittingJoined
  <2> QED BY <1>2, <2>1
<1>5. more \in Seq(Entry) /\ Fitting(more) /\ Len(more) = Len(tx.new)
  BY <1>2, <1>3, FittingChained
<1> HIDE DEF more
<1>6. Fitting(S \o more)
  BY ONLY <1>2, <1>4, <1>5, FittingJoined
<1>7. S \o more \in Seq(Entry) /\ Len(S \o more) = Len(S) + Len(more)
  BY ONLY <1>2, <1>5, Concatenated
<1>8. log' \in Seq(Entry) /\ Len(log') <= MaxEntries
  BY <1>1, <1>2, <1>3, <1>5, <1>7
<1>9. Fitting(log')
  BY <1>1, <1>6
<1> QED BY <1>1, <1>8, <1>9, IdleFits

LEMMA RecordFits ==
  ASSUME TrailTypes, TrailBounds, Trail!RecordArchive
  PROVE  TrailBounds'
<1> DEFINE new == <<[at |-> now, tells |-> tx.due]>>
           more == Trail!Chained(log, new)
<1>1. /\ log' = log \o more /\ tx' = Trail!Idle /\ tx.who = "archive"
      /\ UNCHANGED <<archives, copy, now, vouched>>
  BY DEF Trail!RecordArchive
<1>2. /\ log \in Seq(Entry) /\ tx.due \in Archive /\ now \in 0 .. MaxTime /\ Fitting(log)
      /\ tx.due \in Trail!Ranges /\ Len(log) < MaxEntries
  BY <1>1, WorkFits DEF TrailTypes, TxOfTrail, TrailBounds
<1>3. new \in Seq(Logged) /\ Len(new) = 1 /\ Fitting(new)
  <2>1. [at |-> now, tells |-> tx.due] \in Logged
    BY <1>2 DEF Logged, TrailTypes
  <2>2. Len(new) = 1 /\ new[1].at = now /\ new[1].tells = tx.due
    OBVIOUS
  <2> QED BY <1>2, <2>1, <2>2 DEF Fitting
<1> HIDE DEF new
<1>4. more \in Seq(Entry) /\ Fitting(more)
  BY <1>2, <1>3, FittingChained
<1> HIDE DEF more
<1>5. Fitting(log \o more)
  BY ONLY <1>2, <1>4, FittingJoined
<1>6. log' \in Seq(Entry) /\ Len(log') <= MaxEntries
  <2>1. log' \in Seq(Entry) /\ Len(log') = Len(log) + 1
    BY RecordKeepsTypes DEF TrailTypes
  <2> QED BY <1>2, <2>1, WorkFits
<1> QED BY <1>1, <1>5, <1>6, IdleFits DEF Fitting

\* The range of what is due fits, since it is a range of entries.
LEMMA ArchiveFits ==
  ASSUME TrailTypes, TrailBounds, Trail!WriteArchive
  PROVE  TrailBounds'
<1> DEFINE r == Trail!Range(Trail!Due)
           rows == [i \in Trail!Due |-> log[i]]
<1>1. /\ tx' = [Trail!Idle EXCEPT !.who = "archive", !.due = r] /\ Trail!Due # {}
      /\ Len(log) < MaxEntries
      /\ archives' = {f \in archives : f.range # r} \cup {[range |-> r, rows |-> rows]}
      /\ UNCHANGED <<log, copy, vouched, now>>
  BY DEF Trail!WriteArchive
<1>2. log \in Seq(Entry) /\ Len(log) \in Nat
  BY DEF TrailTypes
<1>3. /\ r = [first |-> r.first, last |-> r.last]
      /\ r.first \in Trail!Due /\ r.last \in Trail!Due
  BY <1>1, <1>2, DueIsRange
<1>4. Trail!Due \subseteq 0 .. MaxEntries
  BY <1>1, <1>2, WorkFits DEF Trail!Due
<1> HIDE DEF r, rows
<1>5. r \in Trail!Ranges
  BY <1>3, <1>4 DEF Trail!Ranges
<1>6. tx'.flushed = <<>> /\ tx'.new = <<>> /\ tx'.due = r
  BY <1>1 DEF Trail!Idle
<1>7. Len(log') + Len(tx'.flushed) + Len(tx'.new) <= MaxEntries
  <2>1. Len(log') = Len(log) /\ Len(tx'.flushed) = 0 /\ Len(tx'.new) = 0
    BY <1>1, <1>6
  <2>2. MaxEntries \in Nat
    BY WorkFits
  <2> DEFINE a == Len(log)
  <2>3. a <= MaxEntries
    BY <1>1, <1>2, <2>2
  <2> QED BY <2>1, <2>3
<1>8. \A f \in archives' : f.range \in Trail!Ranges
  BY <1>1, <1>5 DEF TrailBounds
<1>9. Fitting(tx'.flushed) /\ Fitting(tx'.new)
  BY <1>6, WorkFits
<1>10. /\ Fitting(log') /\ Fitting(copy') /\ Fitting(vouched') /\ now' <= MaxTime
       /\ Len(copy') <= MaxEntries /\ Len(vouched') <= MaxEntries
  BY <1>1 DEF TrailBounds, Fitting
<1>11. Len(log') < MaxEntries
  BY <1>1
<1> QED BY <1>5, <1>6, <1>7, <1>8, <1>9, <1>10, <1>11 DEF TrailBounds, Fitting

LEMMA AlterFits ==
  ASSUME TrailTypes, TrailBounds, Trail!Alter
  PROVE  TrailBounds'
<1>1. /\ log \in Seq(Entry) /\ Fitting(log) /\ Len(log) \in Nat
      /\ tx = Trail!Idle /\ UNCHANGED <<tx, copy, now, archives, vouched>>
  BY DEF TrailTypes, TrailBounds, Trail!Alter
<1>2. Len(log) <= MaxEntries
  BY <1>1 DEF TrailBounds, Trail!Idle
<1>3. PICK i \in 1 .. Len(log) :
        \/ i < Len(log) /\ log' = SubSeq(log, 1, i - 1) \o SubSeq(log, i + 1, Len(log))
        \/ log' = [log EXCEPT ![i].at = 0]
  BY DEF Trail!Alter
<1>4. log' \in Seq(Entry)
  BY AlterKeepsTypes DEF TrailTypes
<1>5. CASE i < Len(log) /\ log' = SubSeq(log, 1, i - 1) \o SubSeq(log, i + 1, Len(log))
  <2> DEFINE a == SubSeq(log, 1, i - 1)
             b == SubSeq(log, i + 1, Len(log))
  <2>1. /\ a \in Seq(Entry) /\ Len(a) = i - 1 /\ \A k \in 1 .. Len(a) : a[k] = log[k]
        /\ b \in Seq(Entry) /\ Len(b) = Len(log) - i /\ \A k \in 1 .. Len(b) : b[k] = log[k + i]
    BY <1>1
  <2>2. Fitting(a) /\ Fitting(b)
    BY <1>1, <2>1 DEF Fitting
  <2> HIDE DEF a, b
  <2>3. Fitting(a \o b)
    BY ONLY <2>1, <2>2, FittingJoined
  <2>4. Len(a \o b) = Len(a) + Len(b)
    BY <2>1, Concatenated
  <2>5. log' = a \o b
    BY <1>5 DEF a, b
  <2>6. Fitting(log')
    BY <2>3, <2>5
  <2>7. Len(log') <= MaxEntries
    BY <1>1, <1>2, <2>1, <2>4, <2>5, WorkFits
  <2> QED BY <1>1, <1>4, <2>6, <2>7, IdleFits
<1>6. CASE log' = [log EXCEPT ![i].at = 0]
  <2>1. Len(log') = Len(log) /\ \A k \in 1 .. Len(log) : k # i => log'[k] = log[k]
    BY <1>1, <1>6
  <2>2. log'[i].at = 0 /\ log'[i].tells = log[i].tells
    <3>1. log[i] \in Entry /\ log'[i] = [log[i] EXCEPT !.at = 0]
      BY <1>1, <1>6
    <3> QED BY <3>1 DEF Entry
  <2>3. 0 \in 0 .. MaxTime
    BY WorkFits
  <2>4. ASSUME NEW k \in 1 .. Len(log')
        PROVE  log'[k].at \in 0 .. MaxTime /\ log'[k].tells \in Trail!Ranges
    BY <1>1, <2>1, <2>2, <2>3 DEF Fitting
  <2>5. Fitting(log')
    BY <2>4 DEF Fitting
  <2> QED BY <1>1, <1>2, <1>4, <2>1, <2>5, IdleFits
<1> QED BY <1>3, <1>5, <1>6

LEMMA TrailBoundsStep ==
  ASSUME TrailTypes, TrailBounds, Trail!Next
  PROVE  TrailBounds'
<1>1. /\ log \in Seq(Entry) /\ Len(log) \in Nat /\ Len(copy) \in Nat
      /\ tx \in TxOfTrail /\ Len(tx.flushed) \in Nat /\ Len(tx.new) \in Nat
  BY DEF TrailTypes, TxOfTrail
<1>2. Len(log) <= MaxEntries
  <2> DEFINE a == Len(log)
             b == Len(tx.flushed)
             c == Len(tx.new)
  <2>1. a + b + c <= MaxEntries /\ a \in Nat /\ b \in Nat /\ c \in Nat /\ MaxEntries \in Nat
    BY <1>1, WorkFits DEF TrailBounds
  <2> HIDE DEF a, b, c
  <2>2. a <= MaxEntries
    BY ONLY <2>1
  <2> QED BY <2>2 DEF a
<1>3. CASE Trail!BeginRequest \/ Trail!Verify
  <2>1. /\ tx' = [Trail!Idle EXCEPT !.who = "request"] \/ tx' = [Trail!Idle EXCEPT !.who = "verification"]
        /\ UNCHANGED <<log, copy, vouched, now, archives>>
    BY <1>3 DEF Trail!BeginRequest, Trail!Verify, Trail!Begin
  <2>2. tx'.flushed = <<>> /\ tx'.new = <<>> /\ tx'.who # "archive"
    BY <2>1 DEF Trail!Idle
  <2> QED BY <1>1, <1>2, <2>1, <2>2, WorkFits DEF TrailBounds, Fitting
<1>4. CASE Trail!Rollback
  <2>1. tx' = Trail!Idle /\ UNCHANGED <<log, copy, vouched, now, archives>>
    BY <1>4 DEF Trail!Rollback
  <2> QED BY <1>1, <1>2, <2>1, IdleFits DEF TrailBounds
<1>5. CASE Trail!EmptyAnchor
  <2>1. /\ tx' = [tx EXCEPT !.who = "anchor"] /\ vouched' = <<>>
        /\ UNCHANGED <<log, copy, now, archives>>
    BY <1>5 DEF Trail!EmptyAnchor
  <2>2. tx'.flushed = tx.flushed /\ tx'.new = tx.new /\ tx'.who = "anchor"
    BY ONLY <1>1, <2>1 DEF TxOfTrail
  <2>3. Fitting(vouched') /\ Len(vouched') <= MaxEntries
    BY <2>1, WorkFits DEF Fitting
  <2>4. /\ Len(log') + Len(tx'.flushed) + Len(tx'.new) <= MaxEntries
        /\ Fitting(tx'.flushed) /\ Fitting(tx'.new)
    BY <2>1, <2>2 DEF TrailBounds, Fitting
  <2> QED BY <2>1, <2>2, <2>3, <2>4 DEF TrailBounds, Fitting
<1>6. CASE Trail!WriteAnchor
  <2>1. tx' = Trail!Idle /\ vouched' = log /\ UNCHANGED <<log, copy, now, archives>>
    BY <1>6 DEF Trail!WriteAnchor
  <2>2. tx'.flushed = <<>> /\ tx'.new = <<>> /\ tx'.who # "archive"
    BY <2>1 DEF Trail!Idle
  <2> QED BY <1>1, <1>2, <2>1, <2>2, WorkFits DEF TrailBounds, Fitting
<1>7. CASE Trail!Tick
  <2>1. now' <= MaxTime /\ UNCHANGED <<log, tx, copy, vouched, archives>>
    BY <1>7, WorkFits DEF Trail!Tick, TrailTypes
  <2> QED BY <2>1 DEF TrailBounds, Fitting
<1>8. CASE Trail!Backup
  <2>1. copy' = log /\ UNCHANGED <<log, tx, now, vouched, archives>>
    BY <1>8 DEF Trail!Backup
  <2> QED BY <1>2, <2>1 DEF TrailBounds, Fitting
<1>9. CASE Trail!Restore
  <2>1. /\ log' = copy /\ vouched' \in {<<>>, vouched} /\ tx = Trail!Idle
        /\ UNCHANGED <<tx, copy, now, archives>>
    BY <1>9 DEF Trail!Restore
  <2>2. tx'.flushed = <<>> /\ tx'.new = <<>> /\ tx'.who # "archive"
    BY <2>1 DEF Trail!Idle
  <2>3. Fitting(vouched') /\ Len(vouched') <= MaxEntries
    <3>1. Fitting(vouched) /\ Len(vouched) <= MaxEntries
      BY DEF TrailBounds
    <3> QED BY <2>1, <3>1, WorkFits DEF Fitting
  <2>4. Fitting(log')
    BY <2>1 DEF TrailBounds, Fitting
  <2>5. Len(log') + Len(tx'.flushed) + Len(tx'.new) <= MaxEntries
    BY <1>1, <2>1, <2>2 DEF TrailBounds
  <2> QED BY <2>1, <2>2, <2>3, <2>4, <2>5, WorkFits DEF TrailBounds, Fitting
<1> QED BY <1>3, <1>4, <1>5, <1>6, <1>7, <1>8, <1>9, LogFits, FlushFits, CommitFits, RecordFits,
           ArchiveFits, AlterFits DEF Trail!Next

LEMMA TrailIsTyped == OutsideSpec => []Trail!AuditTypeOK
<1>1. OutsideInit => TrailInv /\ TrailBounds
  <2> SUFFICES ASSUME Trail!Init PROVE TrailBounds
    BY TrailBegins DEF OutsideInit
  <2>1. /\ log = <<>> /\ tx = Trail!Idle /\ archives = {} /\ copy = <<>> /\ now = 1 /\ vouched = <<>>
    BY DEF Trail!Init
  <2>2. tx.flushed = <<>> /\ tx.new = <<>> /\ tx.who = "nobody"
    BY <2>1 DEF Trail!Idle
  <2> QED BY <2>1, <2>2, WorkFits DEF TrailBounds
<1>2. [OutsideNext]_outside => [Trail!Next]_trail
  BY DEF OutsideNext, Only, outside
<1>3. TrailInv /\ TrailBounds /\ [Trail!Next]_trail => TrailInv' /\ TrailBounds'
  <2>1. TrailInv /\ TrailBounds /\ Trail!Next => TrailBounds'
    BY TrailBoundsStep DEF TrailInv
  <2>2. TrailBounds /\ UNCHANGED trail => TrailBounds'
    BY DEF trail, TrailBounds, Fitting
  <2> QED BY <2>1, <2>2, TrailStep
<1>4. TrailInv /\ TrailBounds => Trail!AuditTypeOK
  <2> SUFFICES ASSUME TrailInv, TrailBounds PROVE Trail!AuditTypeOK
    OBVIOUS
  <2>1. \A rows \in {log, tx.flushed, tx.new, copy, vouched} :
          \A i \in 1 .. Len(rows) : rows[i].at \in 0 .. MaxTime /\ rows[i].tells \in Trail!Ranges
    BY DEF TrailBounds, Fitting
  <2>2. anchor # Trail!None => anchor.count \in 1 .. MaxEntries
    <3>1. anchor # Trail!None => vouched # <<>> /\ anchor.count = Len(vouched)
      BY DEF TrailInv, Vouching
    <3>2. vouched \in Seq(Entry) /\ Len(vouched) <= MaxEntries
      BY DEF TrailInv, TrailTypes, TrailBounds
    <3> QED BY <3>1, <3>2, WorkFits
  <2>3. now \in 1 .. MaxTime
    BY WorkFits DEF TrailInv, TrailTypes, TrailBounds
  <2> QED BY <2>1, <2>2, <2>3 DEF Trail!AuditTypeOK, TrailInv, TrailTypes, TrailBounds, TxOfTrail
<1> QED BY <1>1, <1>2, <1>3, <1>4, PTL DEF OutsideSpec

-----------------------------------------------------------------------------
(* The trees of causes.  Every chain of different codes that starts in a   *)
(* root is a branch, if it fits; the ends of these chains are all that is  *)
(* reached; and the longest that ends in a circle meets itself, or its     *)
(* last code suppresses itself.                                            *)

\* The chains of different codes that start in a root, with no more codes than a tree has levels.
Chain(t, n) ==
  /\ n \in 1 .. MAX_DEPTH /\ t \in [1 .. n -> Programs]
  /\ t[1] \in Connecting!Roots
  /\ \A i \in 1 .. n - 1 : t[i] \in suppressed_by[t[i + 1]]
  /\ \A i, j \in 1 .. n : t[i] = t[j] => i = j

LEMMA Trees ==
  ASSUME NEW n \in Nat \ {0}, NEW t \in [1 .. n -> Programs]
  PROVE  /\ t \in Seq(Programs) /\ Len(t) = n /\ Connecting!Last(t) = t[n]
         /\ Connecting!ToSet(t) = {t[i] : i \in 1 .. n}
         /\ Connecting!ToSet(Connecting!Front(t)) = {t[i] : i \in 1 .. n - 1}
<1>1. t \in Seq(Programs) /\ Len(t) = n
  OBVIOUS
<1>2. DOMAIN Connecting!Front(t) = 1 .. n - 1 /\ \A i \in 1 .. n - 1 : Connecting!Front(t)[i] = t[i]
  BY <1>1 DEF Connecting!Front
<1>3. Connecting!ToSet(Connecting!Front(t)) = {t[i] : i \in 1 .. n - 1}
  BY <1>2 DEF Connecting!ToSet
<1> QED BY <1>1, <1>3 DEF Connecting!ToSet, Connecting!Last

LEMMA ChildrenAre ==
  ASSUME NEW c, NEW d
  PROVE  d \in Connecting!children(c) <=> d \in Programs /\ c \in suppressed_by[d]
BY DEF Connecting!children

LEMMA Branching ==
  ASSUME NEW n \in Nat \ {0}, NEW t \in [1 .. n -> Programs]
  PROVE  t \in Connecting!Branches <=>
           /\ n <= MAX_DEPTH + 1 /\ t[1] \in Connecting!Roots
           /\ \A i \in 1 .. n - 1 : t[i] \in suppressed_by[t[i + 1]]
           /\ \A i \in 1 .. n - 1 : \A j \in 1 .. i - 1 : t[j] # t[i + 1]
<1>1. MAX_DEPTH \in Nat \ {0}
  BY ConnectingAssumption DEF ConnectingAssumption, Connecting!ConnectionsAssumption
<1>2. t \in Seq(Programs) /\ Len(t) = n
  BY Trees
<1>3. t \in UNION {[1 .. m -> Programs] : m \in 1 .. MAX_DEPTH + 1} <=> n <= MAX_DEPTH + 1
  <2>1. ASSUME NEW m \in 1 .. MAX_DEPTH + 1, t \in [1 .. m -> Programs] PROVE m = n
    <3>1. m \in Nat /\ 1 .. m = 1 .. n
      BY <1>1, <2>1
    <3> QED BY <3>1
  <2> QED BY <1>1, <2>1
<1>4. ASSUME NEW i \in 1 .. n - 1
      PROVE  /\ t[i + 1] \in Connecting!children(t[i]) <=> t[i] \in suppressed_by[t[i + 1]]
             /\ Connecting!Grows(SubSeq(t, 1, i), t[i + 1]) <=> \A j \in 1 .. i - 1 : t[j] # t[i + 1]
  <2>1. t[i + 1] \in Programs
    OBVIOUS
  <2>2. Len(SubSeq(t, 1, i)) = i /\ \A j \in 1 .. i : SubSeq(t, 1, i)[j] = t[j]
    BY <1>2
  <2> QED BY <2>1, <2>2, ChildrenAre DEF Connecting!Grows
<1> QED BY <1>2, <1>3, <1>4 DEF Connecting!Branches

LEMMA BranchIsFunction ==
  ASSUME NEW t \in Connecting!Branches
  PROVE  \E n \in Nat \ {0} : t \in [1 .. n -> Programs]
<1>1. MAX_DEPTH \in Nat \ {0}
  BY ConnectingAssumption DEF ConnectingAssumption, Connecting!ConnectionsAssumption
<1>2. PICK n \in 1 .. MAX_DEPTH + 1 : t \in [1 .. n -> Programs]
  BY DEF Connecting!Branches
<1> QED BY <1>1, <1>2

LEMMA BranchesHold == Connecting!BranchesAreChains
<1> SUFFICES ASSUME NEW t \in Connecting!Branches
             PROVE  /\ Len(t) <= MAX_DEPTH + 1
                    /\ \A i \in 1 .. Len(t) - 1 : t[i] \in suppressed_by[t[i + 1]]
                    /\ \A i, j \in 1 .. Len(t) : (i < j /\ t[i] = t[j]) => j = i + 1
  BY DEF Connecting!BranchesAreChains, Connecting!IsChain
<1>1. PICK n \in Nat \ {0} : t \in [1 .. n -> Programs]
  BY BranchIsFunction
<1>2. Len(t) = n
  BY <1>1, Trees
<1>3. /\ n <= MAX_DEPTH + 1
      /\ \A i \in 1 .. n - 1 : t[i] \in suppressed_by[t[i + 1]]
      /\ \A i \in 1 .. n - 1 : \A j \in 1 .. i - 1 : t[j] # t[i + 1]
  BY <1>1, Branching
<1>4. ASSUME NEW i \in 1 .. n, NEW j \in 1 .. n, i < j, t[i] = t[j]
      PROVE  j = i + 1
  <2>1. CASE i <= j - 2
    <3>1. j - 1 \in 1 .. n - 1 /\ i \in 1 .. (j - 1) - 1 /\ (j - 1) + 1 = j
      BY <2>1
    <3> QED BY <1>3, <1>4, <3>1
  <2> QED BY <1>1, <1>4, <2>1
<1> QED BY <1>2, <1>3, <1>4

\* A chain is a branch, and so is what it starts with.
LEMMA ChainIsBranch ==
  ASSUME NEW n, NEW t, Chain(t, n)
  PROVE  t \in Connecting!Branches
<1>1. MAX_DEPTH \in Nat \ {0}
  BY ConnectingAssumption DEF ConnectingAssumption, Connecting!ConnectionsAssumption
<1>2. n \in Nat \ {0} /\ n <= MAX_DEPTH + 1 /\ t \in [1 .. n -> Programs]
  BY <1>1 DEF Chain
<1>3. \A i \in 1 .. n - 1 : \A j \in 1 .. i - 1 : t[j] # t[i + 1]
  BY <1>2 DEF Chain
<1> QED BY <1>2, <1>3, Branching DEF Chain

LEMMA ChainStarts ==
  ASSUME NEW n, NEW t, Chain(t, n), NEW m \in 1 .. n
  PROVE  Chain([i \in 1 .. m |-> t[i]], m)
<1>1. MAX_DEPTH \in Nat \ {0} /\ n \in 1 .. MAX_DEPTH
  BY ConnectingAssumption DEF ConnectingAssumption, Connecting!ConnectionsAssumption, Chain
<1> QED BY <1>1 DEF Chain

\* A chain goes on with any code that it does not hold, as long as chains fit.
LEMMA ChainGoesOn ==
  ASSUME NEW n, NEW t, Chain(t, n), Connecting!ChainsFit, NEW y \in Programs,
         t[n] \in suppressed_by[y], \A i \in 1 .. n : t[i] # y
  PROVE  Chain([i \in 1 .. n + 1 |-> IF i = n + 1 THEN y ELSE t[i]], n + 1)
<1> DEFINE u == [i \in 1 .. n + 1 |-> IF i = n + 1 THEN y ELSE t[i]]
<1>1. MAX_DEPTH \in Nat \ {0} /\ n \in Nat \ {0} /\ n <= MAX_DEPTH
  BY ConnectingAssumption DEF ConnectingAssumption, Connecting!ConnectionsAssumption, Chain
<1>2. /\ t \in [1 .. n -> Programs] /\ t[1] \in Connecting!Roots
      /\ \A i \in 1 .. n - 1 : t[i] \in suppressed_by[t[i + 1]]
      /\ \A i, j \in 1 .. n : t[i] = t[j] => i = j
  BY DEF Chain
<1>3. u \in [1 .. n + 1 -> Programs] /\ u[n + 1] = y /\ \A i \in 1 .. n : u[i] = t[i]
  BY <1>1, <1>2
<1> HIDE DEF u
<1>4. \A i \in 1 .. n : u[i] \in suppressed_by[u[i + 1]]
  <2> SUFFICES ASSUME NEW i \in 1 .. n PROVE u[i] \in suppressed_by[u[i + 1]]
    OBVIOUS
  <2>1. CASE i = n
    BY <1>1, <1>3, <2>1
  <2>2. CASE i # n
    <3>1. i \in 1 .. n - 1 /\ i + 1 \in 1 .. n
      BY <1>1, <2>2
    <3> QED BY <1>2, <1>3, <3>1
  <2> QED BY <2>1, <2>2
<1>5. \A i, j \in 1 .. n + 1 : u[i] = u[j] => i = j
  <2>1. \A i \in 1 .. n + 1 : i \in 1 .. n \/ i = n + 1
    BY <1>1
  <2> QED BY <1>2, <1>3, <2>1
<1>6. n + 1 <= MAX_DEPTH
  <2> SUFFICES ASSUME n = MAX_DEPTH PROVE FALSE
    BY <1>1
  <2>1. u \in [1 .. MAX_DEPTH + 1 -> Programs]
    BY <1>3
  <2>2. Len(u) = n + 1
    BY <1>1, <1>3, Trees
  <2>3. Connecting!IsChain(u)
    BY <1>1, <1>4, <2>2 DEF Connecting!IsChain
  <2>4. Connecting!IsInjective(u)
    BY <1>3, <1>5 DEF Connecting!IsInjective
  <2> QED BY <2>1, <2>3, <2>4 DEF Connecting!ChainsFit
<1>7. u[1] \in Connecting!Roots
  BY <1>1, <1>2, <1>3
<1>8. Chain(u, n + 1)
  BY <1>1, <1>3, <1>4, <1>5, <1>6, <1>7 DEF Chain
<1> QED BY <1>8 DEF u

ChainTo(x) == \E n \in 1 .. MAX_DEPTH : \E t \in [1 .. n -> Programs] : Chain(t, n) /\ t[n] = x

\* To every code that is reached leads a chain.
LEMMA ReachedByChain ==
  ASSUME Connecting!ChainsFit, NEW x \in Connecting!Reached
  PROVE  ChainTo(x)
<1>1. MAX_DEPTH \in Nat \ {0}
  BY ConnectingAssumption DEF ConnectingAssumption, Connecting!ConnectionsAssumption
<1>2. PICK b \in Connecting!Branches : x \in Connecting!ToSet(b)
  BY DEF Connecting!Reached
<1>3. PICK m \in Nat \ {0} : b \in [1 .. m -> Programs]
  BY BranchIsFunction
<1>4. PICK k \in 1 .. m : x = b[k]
  BY <1>2, <1>3, Trees
<1>5. /\ b[1] \in Connecting!Roots
      /\ \A i \in 1 .. m - 1 : b[i] \in suppressed_by[b[i + 1]]
  BY <1>3, Branching
<1>6. ChainTo(b[1])
  <2> DEFINE t == [i \in 1 .. 1 |-> b[1]]
  <2>1. b[1] \in Programs
    BY <1>3
  <2>2. t \in [1 .. 1 -> Programs] /\ t[1] = b[1] /\ 1 \in 1 .. MAX_DEPTH
    BY <1>1, <2>1
  <2> HIDE DEF t
  <2>3. Chain(t, 1)
    BY <1>5, <2>2 DEF Chain
  <2> QED BY <2>2, <2>3 DEF ChainTo
<1>7. ASSUME NEW i \in 1 .. m - 1, ChainTo(b[i]) PROVE ChainTo(b[i + 1])
  <2> DEFINE y == b[i + 1]
  <2>1. y \in Programs /\ b[i] \in suppressed_by[y]
    BY <1>3, <1>5
  <2>2. PICK n \in 1 .. MAX_DEPTH : \E t \in [1 .. n -> Programs] : Chain(t, n) /\ t[n] = b[i]
    BY <1>7 DEF ChainTo
  <2>3. PICK t \in [1 .. n -> Programs] : Chain(t, n) /\ t[n] = b[i]
    BY <2>2
  <2> HIDE DEF y
  <2>4. CASE \E j \in 1 .. n : t[j] = y
    <3>1. PICK j \in 1 .. n : t[j] = y
      BY <2>4
    <3> DEFINE u == [k_1 \in 1 .. j |-> t[k_1]]
    <3>2. Chain(u, j)
      BY <2>3, ChainStarts
    <3>3. j \in 1 .. MAX_DEPTH /\ u \in [1 .. j -> Programs] /\ u[j] = y
      BY <1>1, <3>1
    <3> HIDE DEF u
    <3> QED BY <3>2, <3>3 DEF ChainTo, y
  <2>5. CASE \A j \in 1 .. n : t[j] # y
    <3> DEFINE u == [j \in 1 .. n + 1 |-> IF j = n + 1 THEN y ELSE t[j]]
    <3>1. t[n] \in suppressed_by[y]
      BY <2>1, <2>3
    <3>2. Chain(u, n + 1)
      BY <2>1, <2>3, <2>5, <3>1, ChainGoesOn
    <3>3. u[n + 1] = y
      BY <1>1
    <3> HIDE DEF u
    <3>4. n + 1 \in 1 .. MAX_DEPTH /\ u \in [1 .. n + 1 -> Programs]
      BY <3>2 DEF Chain
    <3> QED BY <3>2, <3>3, <3>4 DEF ChainTo, y
  <2> QED BY <2>4, <2>5
<1> DEFINE T == {i \in 1 .. m : ~ChainTo(b[i])}
<1>8. T = {}
  <2> SUFFICES ASSUME T # {} PROVE FALSE
    OBVIOUS
  <2>1. T \subseteq Nat
    OBVIOUS
  <2>2. PICK i \in T : \A j \in T : i <= j
    <3> HIDE DEF T
    <3> QED BY <2>1, LeastNumber
  <2>3. i # 1 /\ i \in 1 .. m
    BY <1>6, <2>2
  <2>4. i - 1 \in 1 .. m - 1 /\ i - 1 \notin T /\ i - 1 \in 1 .. m /\ (i - 1) + 1 = i
    BY <2>2, <2>3
  <2>5. ChainTo(b[i - 1])
    BY <2>4
  <2> HIDE DEF T
  <2>6. ChainTo(b[i])
    BY <1>7, <2>4, <2>5
  <2> QED BY <2>2, <2>6 DEF T
<1> QED BY <1>4, <1>8

-----------------------------------------------------------------------------
(* Circles.                                                                *)

LEMMA AboveIsClosed ==
  ASSUME NEW c \in Programs
  PROVE  /\ Connecting!Above(c) \subseteq Programs
         /\ Connecting!Causes(c) \subseteq Connecting!Above(c)
         /\ \A x \in Connecting!Above(c) : Connecting!Causes(x) \subseteq Connecting!Above(c)
         /\ \A S \in SUBSET Programs :
              /\ Connecting!Causes(c) \subseteq S
              /\ \A x \in S : Connecting!Causes(x) \subseteq S
              => Connecting!Above(c) \subseteq S
<1>1. \A x : Connecting!Causes(x) \subseteq Programs
  BY DEF Connecting!Causes
<1> QED BY <1>1 DEF Connecting!Above

LEMMA AboveAgain ==
  ASSUME NEW c \in Programs, NEW d \in Connecting!Above(c)
  PROVE  Connecting!Above(d) \subseteq Connecting!Above(c)
<1>1. d \in Programs /\ Connecting!Above(c) \in SUBSET Programs
  BY AboveIsClosed
<1>2. /\ Connecting!Causes(d) \subseteq Connecting!Above(c)
      /\ \A x \in Connecting!Above(c) : Connecting!Causes(x) \subseteq Connecting!Above(c)
  BY AboveIsClosed
<1> QED BY <1>1, <1>2, AboveIsClosed

\* A code on a circle is a cause of one on the same circle.
LEMMA CircleGoesOn ==
  ASSUME NEW c \in Programs, NEW x \in Connecting!Circle(c)
  PROVE  \E y \in Connecting!Circle(c) : x \in suppressed_by[y]
<1>1. x \in Programs /\ x \in Connecting!Above(c) /\ c \in Connecting!Above(x)
  BY DEF Connecting!Circle
<1>2. x \in Connecting!Above(x)
  BY <1>1, AboveAgain
<1> DEFINE A == Connecting!Above(x)
           S == A \ {x}
<1>3. PICK y \in A \union {x} : x \in Connecting!Causes(y)
  <2> SUFFICES ASSUME \A y \in A \union {x} : x \notin Connecting!Causes(y) PROVE FALSE
    OBVIOUS
  <2>1. A \subseteq Programs /\ Connecting!Causes(x) \subseteq A
        /\ \A z \in A : Connecting!Causes(z) \subseteq A
    BY <1>1, AboveIsClosed
  <2>2. Connecting!Causes(x) \subseteq S /\ \A z \in S : Connecting!Causes(z) \subseteq S
    BY <2>1
  <2>3. S \in SUBSET Programs
    BY <2>1
  <2> HIDE DEF S
  <2>4. A \subseteq S
    BY <1>1, <2>2, <2>3, AboveIsClosed
  <2> QED BY <1>2, <2>4 DEF S
<1>4. y \in A /\ y \in Programs
  BY <1>1, <1>2, <1>3, AboveIsClosed
<1>5. x \in Connecting!Above(y)
  BY <1>3, <1>4, AboveIsClosed
<1>6. y \in Connecting!Above(c) /\ c \in Connecting!Above(y)
  BY <1>1, <1>4, <1>5, AboveAgain
<1>7. y \in Connecting!Circle(c)
  BY <1>4, <1>6 DEF Connecting!Circle
<1>8. x \in suppressed_by[y]
  BY <1>3 DEF Connecting!Causes
<1> QED BY <1>7, <1>8

\* A circle that no tree reaches is a finding.
LEMMA UnreachedIsNamed ==
  ASSUME NEW c \in Connecting!OnCircle, c \notin Connecting!Reached
  PROVE  c \in Connecting!InLoops(Connecting!Reached)
<1>1. c \in Programs /\ c \in Connecting!Above(c)
  BY DEF Connecting!OnCircle
<1>2. Connecting!Causes(c) # {}
  <2> SUFFICES ASSUME Connecting!Causes(c) = {} PROVE FALSE
    OBVIOUS
  <2>1. {} \in SUBSET Programs /\ Connecting!Causes(c) \subseteq {}
        /\ \A x \in {} : Connecting!Causes(x) \subseteq {}
    OBVIOUS
  <2>2. Connecting!Above(c) \subseteq {}
    BY ONLY <1>1, <2>1, AboveIsClosed
  <2> QED BY <1>1, <2>2
<1>3. PICK d \in Programs : d \in suppressed_by[c]
  BY <1>2 DEF Connecting!Causes
<1>4. c \in Connecting!children(d) /\ c \in Connecting!suppressed_ids
  BY <1>1, <1>3, ChildrenAre DEF Connecting!suppressed_ids
<1> QED BY <1>3, <1>4 DEF Connecting!InLoops

\* The longest chain that ends in a circle marks it.
LEMMA ReachedIsMarked ==
  ASSUME Connecting!ChainsFit, NEW c \in Connecting!OnCircle, c \in Connecting!Reached
  PROVE  Connecting!Circle(c) \cap Connecting!MarkedLoops # {}
<1> DEFINE K == Connecting!Circle(c)
           T == {n \in 1 .. MAX_DEPTH : \E t \in [1 .. n -> Programs] : Chain(t, n) /\ t[n] \in K}
<1>1. MAX_DEPTH \in Nat \ {0}
  BY ConnectingAssumption DEF ConnectingAssumption, Connecting!ConnectionsAssumption
<1>2. c \in Programs /\ c \in K
  BY DEF Connecting!OnCircle, Connecting!Circle
<1>3. ASSUME NEW x \in K PROVE \E y \in K : x \in suppressed_by[y]
  BY <1>2, <1>3, CircleGoesOn
<1>4. K \subseteq Programs
  BY DEF Connecting!Circle
<1> HIDE DEF K
<1>5. T # {} /\ T \subseteq 0 .. MAX_DEPTH
  <2>1. PICK n \in 1 .. MAX_DEPTH : \E t \in [1 .. n -> Programs] : Chain(t, n) /\ t[n] = c
    BY ReachedByChain DEF ChainTo
  <2>2. n \in T
    BY <1>2, <2>1
  <2> QED BY <1>1, <2>2
<1>6. PICK n \in T : \A m \in T : m <= n
  <2> HIDE DEF T
  <2>1. MAX_DEPTH \in Nat
    BY <1>1
  <2> QED BY <1>5, <2>1, GreatestNumber
<1>7. PICK t \in [1 .. n -> Programs] : Chain(t, n) /\ t[n] \in K
  BY <1>6
<1>8. n \in 1 .. MAX_DEPTH /\ n \in Nat \ {0}
  BY <1>1, <1>6
<1>9. PICK y \in K : t[n] \in suppressed_by[y]
  BY <1>3, <1>7
<1>10. y \in Programs /\ y \in Connecting!children(t[n])
  BY <1>4, <1>9, ChildrenAre
<1>11. PICK j \in 1 .. n : t[j] = y
  <2> SUFFICES ASSUME \A j \in 1 .. n : t[j] # y PROVE FALSE
    OBVIOUS
  <2> DEFINE u == [i \in 1 .. n + 1 |-> IF i = n + 1 THEN y ELSE t[i]]
  <2>1. Chain(u, n + 1)
    BY <1>7, <1>9, <1>10, ChainGoesOn
  <2>2. u[n + 1] = y
    BY <1>8
  <2> HIDE DEF u
  <2>3. n + 1 \in 1 .. MAX_DEPTH /\ u \in [1 .. n + 1 -> Programs]
    BY <2>1 DEF Chain
  <2>4. n + 1 \in T
    BY <1>9, <2>1, <2>2, <2>3
  <2>5. n + 1 <= n
    BY <1>6, <2>4
  <2> QED BY <1>8, <2>5
<1> HIDE DEF T
<1>12. CASE j \in 1 .. n - 1
  <2>1. t \in Connecting!Branches
    BY <1>7, ChainIsBranch
  <2>2. /\ Connecting!Last(t) = t[n]
        /\ Connecting!ToSet(Connecting!Front(t)) = {t[i] : i \in 1 .. n - 1}
    BY <1>7, <1>8, Trees
  <2>3. y \in Connecting!ToSet(Connecting!Front(t)) /\ y \in Connecting!children(Connecting!Last(t))
    BY <1>10, <1>11, <1>12, <2>2
  <2>4. t[n] \in Connecting!MarkedLoops
    BY <2>1, <2>2, <2>3 DEF Connecting!MarkedLoops
  <2> QED BY <1>7, <2>4 DEF K
<1>13. CASE j = n
  <2> DEFINE u == [i \in 1 .. n + 1 |-> IF i = n + 1 THEN y ELSE t[i]]
  <2>1. u \in [1 .. n + 1 -> Programs] /\ u[n + 1] = y /\ \A i \in 1 .. n : u[i] = t[i]
    BY <1>7, <1>8, <1>10
  <2> HIDE DEF u
  <2>2. n + 1 \in Nat \ {0} /\ n + 1 <= MAX_DEPTH + 1 /\ (n + 1) - 1 = n
    BY <1>1, <1>8
  <2>3. /\ t[1] \in Connecting!Roots
        /\ \A i \in 1 .. n - 1 : t[i] \in suppressed_by[t[i + 1]]
        /\ \A i, k \in 1 .. n : t[i] = t[k] => i = k
    BY <1>7 DEF Chain
  <2>4. u[1] \in Connecting!Roots
    BY <1>8, <2>1, <2>3
  <2>5. ASSUME NEW i \in 1 .. n
        PROVE  /\ u[i] \in suppressed_by[u[i + 1]]
               /\ \A k \in 1 .. i - 1 : u[k] # u[i + 1]
    <3>1. CASE i = n
      <4>1. \A k \in 1 .. n - 1 : t[k] # t[n]
        BY <1>8, <2>3
      <4>2. \A k \in 1 .. n - 1 : u[k] # y
        BY <1>8, <1>11, <1>13, <2>1, <4>1
      <4> QED BY <1>9, <2>1, <3>1, <4>2
    <3>2. CASE i # n
      <4>1. i \in 1 .. n - 1 /\ i + 1 \in 1 .. n
        BY <1>8, <3>2
      <4>2. \A k \in 1 .. i - 1 : k \in 1 .. n /\ k # i + 1
        BY <1>8
      <4> QED BY <2>1, <2>3, <4>1, <4>2
    <3> QED BY <3>1, <3>2
  <2>6. u \in Connecting!Branches
    BY <2>1, <2>2, <2>4, <2>5, Branching
  <2>7. /\ Connecting!Last(u) = y
        /\ Connecting!ToSet(Connecting!Front(u)) = {u[i] : i \in 1 .. n}
    BY <2>1, <2>2, Trees
  <2>8. y = t[n]
    BY <1>11, <1>13
  <2>9. y \in Connecting!ToSet(Connecting!Front(u)) /\ y \in Connecting!children(Connecting!Last(u))
    BY <1>8, <1>10, <2>1, <2>7, <2>8
  <2>10. y \in Connecting!MarkedLoops
    BY <2>6, <2>7, <2>9 DEF Connecting!MarkedLoops
  <2> QED BY <1>9, <2>10 DEF K
<1>14. j \in 1 .. n - 1 \/ j = n
  BY <1>8, <1>11
<1> QED BY <1>12, <1>13, <1>14

\* LoopsAreNamed: however the programs of a catalogue of any size suppress each other, the trees
\* show chains of causes in which only a code that suppresses itself comes twice, and every
\* circle of suppressions is marked in a tree or is a finding, as long as no chain of different
\* codes is longer than a tree is deep (connection_service.hierarchy).
THEOREM OutsideLoopsAreNamed == OutsideSpec => []LoopsAreNamed
<1>1. Connecting!LoopsAreNamed
  <2> SUFFICES ASSUME Connecting!ChainsFit, NEW c \in Connecting!OnCircle
               PROVE  Connecting!Circle(c) \cap
                        (Connecting!MarkedLoops \union Connecting!InLoops(Connecting!Reached)) # {}
    BY DEF Connecting!LoopsAreNamed
  <2>1. CASE c \in Connecting!Reached
    BY <2>1, ReachedIsMarked
  <2>2. CASE c \notin Connecting!Reached
    <3>1. c \in Connecting!Circle(c)
      BY DEF Connecting!OnCircle, Connecting!Circle
    <3> QED BY <2>2, <3>1, UnreachedIsNamed
  <2> QED BY <2>1, <2>2
<1>2. LoopsAreNamed
  BY <1>1, BranchesHold DEF LoopsAreNamed
<1> QED BY <1>2, PTL

LEMMA ConnectionsAreTyped == OutsideSpec => []Connecting!ConnectionsTypeOK
<1> USE DEF Connecting!ConnectionsTypeOK
<1>1. OutsideInit => Connecting!ConnectionsTypeOK
  BY DEF OutsideInit, Connecting!Init
<1>2. Connecting!ConnectionsTypeOK /\ [OutsideNext]_outside => Connecting!ConnectionsTypeOK'
  <2>1. [OutsideNext]_outside => [Connecting!Next]_connecting
    BY DEF OutsideNext, Only, outside
  <2>2. ASSUME Connecting!ConnectionsTypeOK, Connecting!Next
        PROVE  Connecting!ConnectionsTypeOK'
    BY <2>2 DEF Connecting!Next, Connecting!Import
  <2> QED BY <2>1, <2>2 DEF connecting
<1> QED BY <1>1, <1>2, PTL DEF OutsideSpec

-----------------------------------------------------------------------------
(* The gates.  The tables are compared row by row: what a page or the API  *)
(* admits to an operation is one of its rows, and no row of a table it is  *)
(* compared with admits less.                                              *)

\* f lists op, for exactly these roles.
Lists(f, op, roles) == op \in DOMAIN f /\ f[op] = roles

\* Where f has a row for op, it lets these roles do it.
Within(f, op, roles) == op \in DOMAIN f => roles \subseteq f[op]

\* What an entry of two tables is: one of either.
LEMMA JoinedLists ==
  ASSUME NEW f, NEW g, NEW op, NEW roles, Lists(f ++ g, op, roles)
  PROVE  Lists(f, op, roles) \/ Lists(g, op, roles)
<1>1. f ++ g = Joined(f, g)
  BY DEF ++
<1> QED BY <1>1 DEF Lists, Joined

\* Roles within two tables are within both of them together.
LEMMA JoinedWithin ==
  ASSUME NEW f, NEW g, NEW op, NEW roles, Within(f, op, roles), Within(g, op, roles)
  PROVE  Within(f ++ g, op, roles)
<1>1. f ++ g = Joined(f, g)
  BY DEF ++
<1> QED BY <1>1 DEF Within, Joined

\* An operation of either of two tables is one of both together.
LEMMA JoinedDomain ==
  ASSUME NEW f, NEW g, NEW op, op \in DOMAIN f \/ op \in DOMAIN g
  PROVE  op \in DOMAIN (f ++ g)
<1>1. f ++ g = Joined(f, g)
  BY DEF ++
<1> QED BY <1>1 DEF Joined

\* The operations of one row.
LEMMA GrantDomain ==
  ASSUME NEW ops, NEW R, NEW op \in ops
  PROVE  op \in DOMAIN Grant(ops, R)
BY DEF Grant

\* The entries of one row.
LEMMA GrantLists ==
  ASSUME NEW ops, NEW R, NEW op, NEW roles
  PROVE  Lists(Grant(ops, R), op, roles) <=> op \in ops /\ roles = R
BY DEF Lists, Grant

\* What is within one row.
LEMMA GrantWithin ==
  ASSUME NEW ops, NEW R, NEW op, NEW roles, op \in ops => roles \subseteq R
  PROVE  Within(Grant(ops, R), op, roles)
BY DEF Within, Grant

\* What the pages admit to what.
PageRow(op, roles) ==
  \/ /\ op \in {"my_change_requests", "get_change_request", "resolve_field_comment",
                "download_attachment", "draw_sample", "set_sample_verdict",
                "reject_sample_defects", "legacy_mapping", "legacy_mapping_export"}
     /\ roles = Working
  \/ /\ op \in {"review_queue"}
     /\ roles = {"REVIEWER", "ADMINISTRATOR"}
  \/ /\ op \in {"approval_queue", "chief_engineer_decide"}
     /\ roles = {"CHIEF_ENGINEER"}
  \/ /\ op \in {"reviewer_signoff"}
     /\ roles = {"REVIEWER"}
  \/ /\ op \in {"submit", "create_domain_signoff_request", "withdraw", "withdraw_many",
                "add_cr_to_change_set", "remove_cr_from_change_set", "add_attachment",
                "delete_attachment", "change_set_bulk_edit", "change_set_bulk_submit",
                "change_set_domain_signoffs", "create_status_code", "update_revision",
                "create_revision", "create_platform_variant",
                "create_deprecation_request", "create_import", "import_template",
                "get_import", "get_import_errors", "import_reconciliation",
                "preview_st_import", "create_st_import", "create_mc_draft_from_hub"}
     /\ roles = Authors
  \/ /\ op \in {"admin_signoff", "assign_reviewer", "close_change_set",
                "stalled_change_requests", "auto_assign_reviewer",
                "create_checklist_item", "update_checklist_item", "get_settings",
                "update_settings", "create_sandbox", "set_planned_dates",
                "archive_status_code", "reinstate_status_code",
                "delete_sandbox_status_code", "delete_user", "withdrawn_codes",
                "withdrawn_codes_delete", "create_user", "force_reset_password",
                "lookup_admin", "create_lookup_value", "create_functional_system_group",
                "create_functional_subgroup", "update_lookup_value", "mapping_seed",
                "hub_bulk_deprecation", "list_api_tokens", "create_api_token",
                "revoke_api_token", "create_webhook", "update_webhook", "backup_status",
                "audit_verify", "export_profiles", "create_export_profile",
                "update_export_profile", "set_release_target_versions", "create_release",
                "set_release_items", "delete_release", "publish_release",
                "export_full_database"}
     /\ roles = Administrator
  \/ /\ op \in {"add_comment", "decide_change_set", "create_delegation",
                "revoke_delegation", "add_field_comment", "search_audit_log",
                "catalogue_health"}
     /\ roles = Reviewing
  \/ /\ op \in {"create_domain_signoff"}
     /\ roles = {"ENGINEER"}
  \/ /\ op \in {"list_notifications", "read_all_notifications", "help_page",
                "list_status_codes", "create_saved_search", "delete_saved_search",
                "get_status_code", "verify_export", "release_shaped_export",
                "create_package", "package_download", "release_notes",
                "release_offline_bundle", "software_version_matrix", "save_translation",
                "carry_over_translations", "approve_translation", "list_releases",
                "get_release", "dashboard", "export_center", "terminology_index",
                "terminology_term_new", "terminology_term_update", "terminology_save",
                "terminology_approve", "terminology_reject", "terminology_approve_all",
                "terminology_check", "terminology_export", "translations_overview",
                "translation_save", "translation_complete", "translation_upload",
                "translation_assign", "translation_unassign", "translation_decide",
                "translation_override_remove"}
     /\ roles = Roles
  \/ /\ op \in {"list_change_sets", "get_change_set", "change_set_readiness",
                "catalogue_connections", "mapping_list", "mapping_export", "mapping_get",
                "mapping_change_create", "mapping_change_from_workbook",
                "mapping_change_list", "mapping_change_get", "mapping_change_withdraw",
                "hub_mapping_report"}
     /\ roles = Oversight
  \/ /\ op \in {"create_change_set"}
     /\ roles = Authors \union {"CHIEF_ENGINEER"}
  \/ /\ op \in {"list_users", "get_user", "update_user"}
     /\ roles = UserList
  \/ /\ op \in {"mapping_change_decide"}
     /\ roles = Approvers
  \/ /\ op \in {"success_metrics", "occurrence_report", "create_occurrence_import"}
     /\ roles = Insight

\* What the API admits to what.
ApiRow(op, roles) ==
  \/ /\ op \in {"list_change_requests", "get_change_request", "list_domain_signoffs",
                "list_change_sets", "get_change_set", "change_set_readiness",
                "list_samples", "get_bulk_sample", "change_set_dossier", "where_used",
                "code_connections", "catalogue_connections", "mapping_list",
                "mapping_export", "mapping_get", "mapping_change_list",
                "mapping_change_get", "mapping_change_create", "mapping_change_withdraw",
                "mapping_change_from_workbook", "hub_mapping_report", "release_readiness"}
     /\ roles = Oversight
  \/ /\ op \in {"submit", "withdraw", "withdraw_many", "create_domain_signoff_request",
                "add_attachment", "delete_attachment", "add_cr_to_change_set",
                "remove_cr_from_change_set", "change_set_bulk_edit",
                "change_set_bulk_submit", "change_set_domain_signoffs",
                "create_status_code", "create_sandbox", "create_deprecation_request",
                "next_available_identifier", "similar_status_codes",
                "create_platform_variant", "create_revision", "update_revision",
                "list_imports", "create_import", "import_template",
                "import_reconciliation", "import_reconciliation_with_master_list",
                "get_import", "get_import_errors", "preview_st_import",
                "create_st_import", "create_mc_draft_from_hub", "save_translation",
                "carry_over_translations"}
     /\ roles = Authors
  \/ /\ op \in {"reviewer_signoff"}
     /\ roles = {"REVIEWER"}
  \/ /\ op \in {"admin_signoff", "assign_reviewer", "create_checklist_item",
                "update_checklist_item", "stalled_change_requests", "reviewer_workload",
                "auto_assign_reviewer", "close_change_set", "get_settings",
                "update_settings", "archive_status_code", "reinstate_status_code",
                "delete_sandbox_status_code", "set_planned_dates", "create_user",
                "delete_user", "force_reset_password", "create_lookup_value",
                "update_lookup_value", "create_functional_system_group",
                "create_functional_subgroup", "mapping_seed", "backup_status",
                "audit_verify", "list_api_tokens", "create_api_token", "revoke_api_token",
                "list_webhooks", "create_webhook", "update_webhook", "webhook_deliveries",
                "hub_bulk_deprecation", "create_release", "list_candidates",
                "set_release_items", "delete_release", "publish_release",
                "export_full_database", "create_export_profile", "update_export_profile",
                "set_release_target_versions"}
     /\ roles = Administrator
  \/ /\ op \in {"chief_engineer_decide"}
     /\ roles = {"CHIEF_ENGINEER"}
  \/ /\ op \in {"add_comment", "add_field_comment", "decide_change_set",
                "create_delegation", "revoke_delegation", "catalogue_health",
                "search_audit_log"}
     /\ roles = Reviewing
  \/ /\ op \in {"create_domain_signoff", "list_my_domain_signoff_requests"}
     /\ roles = {"ENGINEER"}
  \/ /\ op \in {"list_field_comments", "resolve_field_comment", "list_checklist_items",
                "cr_review_checklist", "list_attachments", "download_attachment",
                "change_request_sla", "list_delegations", "draw_sample",
                "set_sample_verdict", "reject_sample_defects",
                "status_code_import_source", "legacy_mapping", "legacy_mapping_export",
                "release_export_history", "export_manifest", "translation_worklist"}
     /\ roles = Working
  \/ /\ op \in {"create_change_set"}
     /\ roles = Authors \union {"CHIEF_ENGINEER"}
  \/ /\ op \in {"list_notifications", "read_all_notifications", "read_notification",
                "list_status_codes", "get_status_code", "platform_family",
                "list_revisions", "diff_revisions", "change_own_password", "list_lookup",
                "list_saved_searches", "create_saved_search", "delete_saved_search",
                "change_feed", "list_releases", "get_release", "release_baseline",
                "create_package", "list_packages", "package_status", "package_download",
                "export_release", "export_released", "list_export_profiles",
                "list_audiences", "release_notes", "release_offline_bundle",
                "verify_export", "software_version_matrix", "software_version_changes",
                "list_translations"}
     /\ roles = Roles
  \/ /\ op \in {"list_users", "get_user", "update_user", "user_usage",
                "export_working_set"}
     /\ roles = UserList
  \/ /\ op \in {"mapping_change_decide"}
     /\ roles = Approvers
  \/ /\ op \in {"success_metrics", "list_occurrence_imports", "create_occurrence_import",
                "occurrence_report"}
     /\ roles = Insight
  \/ /\ op \in {"approve_translation"}
     /\ roles = {"ADMINISTRATOR", "REVIEWER"}

\* What three services let everybody's page of the translations do.
Translating == {"save_translation", "carry_over_translations", "approve_translation"}

TranslationRow(op, roles) ==
  \/ op \in {"save_translation", "carry_over_translations"} /\ roles = Authors
  \/ op = "approve_translation" /\ roles = {"ADMINISTRATOR", "REVIEWER"}

\* Every entry of a page is one of the rows.
LEMMA PageRows ==
  ASSUME NEW op, NEW roles, Lists(Ui, op, roles)
  PROVE  PageRow(op, roles)
<1>1. ASSUME Lists(UiChangeRequests, op, roles) PROVE PageRow(op, roles)
  BY <1>1, JoinedLists, GrantLists DEF UiChangeRequests, PageRow
<1>2. ASSUME Lists(UiDecisions, op, roles) PROVE PageRow(op, roles)
  BY <1>2, JoinedLists, GrantLists DEF UiDecisions, PageRow
<1>3. ASSUME Lists(UiChangeSets, op, roles) PROVE PageRow(op, roles)
  BY <1>3, JoinedLists, GrantLists DEF UiChangeSets, PageRow
<1>4. ASSUME Lists(UiGovernance, op, roles) PROVE PageRow(op, roles)
  BY <1>4, JoinedLists, GrantLists DEF UiGovernance, PageRow
<1>5. ASSUME Lists(UiReviews, op, roles) PROVE PageRow(op, roles)
  BY <1>5, JoinedLists, GrantLists DEF UiReviews, PageRow
<1>6. ASSUME Lists(UiBulk, op, roles) PROVE PageRow(op, roles)
  BY <1>6, JoinedLists, GrantLists DEF UiBulk, PageRow
<1>7. ASSUME Lists(UiCatalogue, op, roles) PROVE PageRow(op, roles)
  BY <1>7, JoinedLists, GrantLists DEF UiCatalogue, PageRow
<1>8. ASSUME Lists(UiOneStatusCode, op, roles) PROVE PageRow(op, roles)
  BY <1>8, JoinedLists, GrantLists DEF UiOneStatusCode, PageRow
<1>9. ASSUME Lists(UiAdministration, op, roles) PROVE PageRow(op, roles)
  BY <1>9, JoinedLists, GrantLists DEF UiAdministration, PageRow
<1>10. ASSUME Lists(UiLookups, op, roles) PROVE PageRow(op, roles)
  BY <1>10, JoinedLists, GrantLists DEF UiLookups, PageRow
<1>11. ASSUME Lists(UiMapping, op, roles) PROVE PageRow(op, roles)
  BY <1>11, JoinedLists, GrantLists DEF UiMapping, PageRow
<1>12. ASSUME Lists(UiMappingChanges, op, roles) PROVE PageRow(op, roles)
  BY <1>12, JoinedLists, GrantLists DEF UiMappingChanges, PageRow
<1>13. ASSUME Lists(UiImports, op, roles) PROVE PageRow(op, roles)
  BY <1>13, JoinedLists, GrantLists DEF UiImports, PageRow
<1>14. ASSUME Lists(UiLegacyMapping, op, roles) PROVE PageRow(op, roles)
  BY <1>14, JoinedLists, GrantLists DEF UiLegacyMapping, PageRow
<1>15. ASSUME Lists(UiInsight, op, roles) PROVE PageRow(op, roles)
  BY <1>15, JoinedLists, GrantLists DEF UiInsight, PageRow
<1>16. ASSUME Lists(UiOperations, op, roles) PROVE PageRow(op, roles)
  BY <1>16, JoinedLists, GrantLists DEF UiOperations, PageRow
<1>17. ASSUME Lists(UiPublication, op, roles) PROVE PageRow(op, roles)
  BY <1>17, JoinedLists, GrantLists DEF UiPublication, PageRow
<1>18. ASSUME Lists(UiReleaseFiles, op, roles) PROVE PageRow(op, roles)
  BY <1>18, JoinedLists, GrantLists DEF UiReleaseFiles, PageRow
<1>19. ASSUME Lists(UiTranslations, op, roles) PROVE PageRow(op, roles)
  BY <1>19, JoinedLists, GrantLists DEF UiTranslations, PageRow
<1>20. ASSUME Lists(UiReleases, op, roles) PROVE PageRow(op, roles)
  BY <1>20, JoinedLists, GrantLists DEF UiReleases, PageRow
<1>21. ASSUME Lists(UiExports, op, roles) PROVE PageRow(op, roles)
  BY <1>21, JoinedLists, GrantLists DEF UiExports, PageRow
<1>22. ASSUME Lists(UiTerminology, op, roles) PROVE PageRow(op, roles)
  BY <1>22, JoinedLists, GrantLists DEF UiTerminology, PageRow
<1>23. ASSUME Lists(UiTranslationReview, op, roles) PROVE PageRow(op, roles)
  BY <1>23, JoinedLists, GrantLists DEF UiTranslationReview, PageRow
<1>24. ASSUME Lists(UiChangeRequests ++ UiDecisions ++ UiChangeSets ++ UiGovernance ++
                    UiReviews ++ UiBulk ++ UiCatalogue ++ UiOneStatusCode ++
                    UiAdministration ++ UiLookups ++ UiMapping ++ UiMappingChanges, op,
                    roles)
       PROVE  PageRow(op, roles)
  BY <1>24, <1>1, <1>2, <1>3, <1>4, <1>5, <1>6, <1>7, <1>8, <1>9, <1>10, <1>11, <1>12,
     JoinedLists
<1> QED BY <1>13, <1>14, <1>15, <1>16, <1>17, <1>18, <1>19, <1>20, <1>21, <1>22, <1>23, <1>24,
           JoinedLists DEF Ui

\* Every entry of the API is one of the rows.
LEMMA ApiRows ==
  ASSUME NEW op, NEW roles, Lists(Api, op, roles)
  PROVE  ApiRow(op, roles)
<1>1. ASSUME Lists(ApiChangeRequests, op, roles) PROVE ApiRow(op, roles)
  BY <1>1, JoinedLists, GrantLists DEF ApiChangeRequests, ApiRow
<1>2. ASSUME Lists(ApiDomainSignoffs, op, roles) PROVE ApiRow(op, roles)
  BY <1>2, JoinedLists, GrantLists DEF ApiDomainSignoffs, ApiRow
<1>3. ASSUME Lists(ApiReviews, op, roles) PROVE ApiRow(op, roles)
  BY <1>3, JoinedLists, GrantLists DEF ApiReviews, ApiRow
<1>4. ASSUME Lists(ApiChangeSets, op, roles) PROVE ApiRow(op, roles)
  BY <1>4, JoinedLists, GrantLists DEF ApiChangeSets, ApiRow
<1>5. ASSUME Lists(ApiPeople, op, roles) PROVE ApiRow(op, roles)
  BY <1>5, JoinedLists, GrantLists DEF ApiPeople, ApiRow
<1>6. ASSUME Lists(ApiBulk, op, roles) PROVE ApiRow(op, roles)
  BY <1>6, JoinedLists, GrantLists DEF ApiBulk, ApiRow
<1>7. ASSUME Lists(ApiStatusCodes, op, roles) PROVE ApiRow(op, roles)
  BY <1>7, JoinedLists, GrantLists DEF ApiStatusCodes, ApiRow
<1>8. ASSUME Lists(ApiOneStatusCode, op, roles) PROVE ApiRow(op, roles)
  BY <1>8, JoinedLists, GrantLists DEF ApiOneStatusCode, ApiRow
<1>9. ASSUME Lists(ApiUsers, op, roles) PROVE ApiRow(op, roles)
  BY <1>9, JoinedLists, GrantLists DEF ApiUsers, ApiRow
<1>10. ASSUME Lists(ApiLookups, op, roles) PROVE ApiRow(op, roles)
  BY <1>10, JoinedLists, GrantLists DEF ApiLookups, ApiRow
<1>11. ASSUME Lists(ApiMapping, op, roles) PROVE ApiRow(op, roles)
  BY <1>11, JoinedLists, GrantLists DEF ApiMapping, ApiRow
<1>12. ASSUME Lists(ApiImports, op, roles) PROVE ApiRow(op, roles)
  BY <1>12, JoinedLists, GrantLists DEF ApiImports, ApiRow
<1>13. ASSUME Lists(ApiProgramImports, op, roles) PROVE ApiRow(op, roles)
  BY <1>13, JoinedLists, GrantLists DEF ApiProgramImports, ApiRow
<1>14. ASSUME Lists(ApiReports, op, roles) PROVE ApiRow(op, roles)
  BY <1>14, JoinedLists, GrantLists DEF ApiReports, ApiRow
<1>15. ASSUME Lists(ApiIntegrations, op, roles) PROVE ApiRow(op, roles)
  BY <1>15, JoinedLists, GrantLists DEF ApiIntegrations, ApiRow
<1>16. ASSUME Lists(ApiReleases, op, roles) PROVE ApiRow(op, roles)
  BY <1>16, JoinedLists, GrantLists DEF ApiReleases, ApiRow
<1>17. ASSUME Lists(ApiPackages, op, roles) PROVE ApiRow(op, roles)
  BY <1>17, JoinedLists, GrantLists DEF ApiPackages, ApiRow
<1>18. ASSUME Lists(ApiExports, op, roles) PROVE ApiRow(op, roles)
  BY <1>18, JoinedLists, GrantLists DEF ApiExports, ApiRow
<1>19. ASSUME Lists(ApiPublication, op, roles) PROVE ApiRow(op, roles)
  BY <1>19, JoinedLists, GrantLists DEF ApiPublication, ApiRow
<1>20. ASSUME Lists(ApiTranslations, op, roles) PROVE ApiRow(op, roles)
  BY <1>20, JoinedLists, GrantLists DEF ApiTranslations, ApiRow
<1>21. ASSUME Lists(Grant({"search_audit_log"}, Reviewing), op, roles) PROVE ApiRow(op, roles)
  BY <1>21, GrantLists DEF ApiRow
<1> QED BY <1>1, <1>2, <1>3, <1>4, <1>5, <1>6, <1>7, <1>8, <1>9, <1>10, <1>11, <1>12, <1>13,
           <1>14, <1>15, <1>16, <1>17, <1>18, <1>19, <1>20, <1>21, JoinedLists DEF Api

\* What a page admits, or the service behind it, the API admits.
LEMMA PagesInApi ==
  ASSUME NEW op, NEW roles,
         \/ PageRow(op, roles) /\ op \notin Translating
         \/ TranslationRow(op, roles)
  PROVE  Within(Api, op, roles)
<1>1. Within(ApiChangeRequests, op, roles)
  BY JoinedWithin, GrantWithin DEF ApiChangeRequests, PageRow, Translating, TranslationRow,
     Administrator, Authors, Reviewing, Working, Oversight, UserList, Insight, Approvers
<1>2. Within(ApiDomainSignoffs, op, roles)
  BY JoinedWithin, GrantWithin DEF ApiDomainSignoffs, PageRow, Translating, TranslationRow,
     Administrator, Authors, Reviewing, Working, Oversight, UserList, Insight, Approvers
<1>3. Within(ApiReviews, op, roles)
  BY JoinedWithin, GrantWithin DEF ApiReviews, PageRow, Translating, TranslationRow,
     Administrator, Authors, Reviewing, Working, Oversight, UserList, Insight, Approvers
<1>4. Within(ApiChangeSets, op, roles)
  BY JoinedWithin, GrantWithin DEF ApiChangeSets, PageRow, Translating, TranslationRow,
     Administrator, Authors, Reviewing, Working, Oversight, UserList, Insight, Approvers
<1>5. Within(ApiPeople, op, roles)
  BY JoinedWithin, GrantWithin DEF ApiPeople, PageRow, Translating, TranslationRow,
     Administrator, Authors, Reviewing, Working, Oversight, UserList, Insight, Approvers
<1>6. Within(ApiBulk, op, roles)
  BY JoinedWithin, GrantWithin DEF ApiBulk, PageRow, Translating, TranslationRow,
     Administrator, Authors, Reviewing, Working, Oversight, UserList, Insight, Approvers
<1>7. Within(ApiStatusCodes, op, roles)
  BY JoinedWithin, GrantWithin DEF ApiStatusCodes, PageRow, Translating, TranslationRow,
     Administrator, Authors, Reviewing, Working, Oversight, UserList, Insight, Approvers
<1>8. Within(ApiOneStatusCode, op, roles)
  BY JoinedWithin, GrantWithin DEF ApiOneStatusCode, PageRow, Translating, TranslationRow,
     Administrator, Authors, Reviewing, Working, Oversight, UserList, Insight, Approvers
<1>9. Within(ApiUsers, op, roles)
  BY JoinedWithin, GrantWithin DEF ApiUsers, PageRow, Translating, TranslationRow,
     Administrator, Authors, Reviewing, Working, Oversight, UserList, Insight, Approvers
<1>10. Within(ApiLookups, op, roles)
  BY JoinedWithin, GrantWithin DEF ApiLookups, PageRow, Translating, TranslationRow,
     Administrator, Authors, Reviewing, Working, Oversight, UserList, Insight, Approvers
<1>11. Within(ApiMapping, op, roles)
  BY JoinedWithin, GrantWithin DEF ApiMapping, PageRow, Translating, TranslationRow,
     Administrator, Authors, Reviewing, Working, Oversight, UserList, Insight, Approvers
<1>12. Within(ApiImports, op, roles)
  BY JoinedWithin, GrantWithin DEF ApiImports, PageRow, Translating, TranslationRow,
     Administrator, Authors, Reviewing, Working, Oversight, UserList, Insight, Approvers
<1>13. Within(ApiProgramImports, op, roles)
  BY JoinedWithin, GrantWithin DEF ApiProgramImports, PageRow, Translating, TranslationRow,
     Administrator, Authors, Reviewing, Working, Oversight, UserList, Insight, Approvers
<1>14. Within(ApiReports, op, roles)
  BY JoinedWithin, GrantWithin DEF ApiReports, PageRow, Translating, TranslationRow,
     Administrator, Authors, Reviewing, Working, Oversight, UserList, Insight, Approvers
<1>15. Within(ApiIntegrations, op, roles)
  BY JoinedWithin, GrantWithin DEF ApiIntegrations, PageRow, Translating, TranslationRow,
     Administrator, Authors, Reviewing, Working, Oversight, UserList, Insight, Approvers
<1>16. Within(ApiReleases, op, roles)
  BY JoinedWithin, GrantWithin DEF ApiReleases, PageRow, Translating, TranslationRow,
     Administrator, Authors, Reviewing, Working, Oversight, UserList, Insight, Approvers
<1>17. Within(ApiPackages, op, roles)
  BY JoinedWithin, GrantWithin DEF ApiPackages, PageRow, Translating, TranslationRow,
     Administrator, Authors, Reviewing, Working, Oversight, UserList, Insight, Approvers
<1>18. Within(ApiExports, op, roles)
  BY JoinedWithin, GrantWithin DEF ApiExports, PageRow, Translating, TranslationRow,
     Administrator, Authors, Reviewing, Working, Oversight, UserList, Insight, Approvers
<1>19. Within(ApiPublication, op, roles)
  BY JoinedWithin, GrantWithin DEF ApiPublication, PageRow, Translating, TranslationRow,
     Administrator, Authors, Reviewing, Working, Oversight, UserList, Insight, Approvers
<1>20. Within(ApiTranslations, op, roles)
  BY JoinedWithin, GrantWithin DEF ApiTranslations, PageRow, Translating, TranslationRow,
     Administrator, Authors, Reviewing, Working, Oversight, UserList, Insight, Approvers
<1>21. Within(Grant({"search_audit_log"}, Reviewing), op, roles)
  BY GrantWithin DEF PageRow, Translating, TranslationRow, Administrator, Authors, Reviewing,
     Working, Oversight, UserList, Insight, Approvers
<1> QED BY <1>1, <1>2, <1>3, <1>4, <1>5, <1>6, <1>7, <1>8, <1>9, <1>10, <1>11, <1>12, <1>13,
           <1>14, <1>15, <1>16, <1>17, <1>18, <1>19, <1>20, <1>21, JoinedWithin DEF Api

\* Whom a page picks, the service behind it serves.
LEMMA PagesInChecks ==
  ASSUME NEW op, NEW roles, PageRow(op, roles), roles # Roles
  PROVE  Within(Checks, op, roles)
<1>1. Within(ChecksOnRequests, op, roles)
  BY JoinedWithin, GrantWithin DEF ChecksOnRequests, PageRow, Administrator, Authors,
     Reviewing, Working, Oversight, UserList, Insight, Approvers
<1>2. Within(ChecksOnCodes, op, roles)
  BY JoinedWithin, GrantWithin DEF ChecksOnCodes, PageRow, Administrator, Authors, Reviewing,
     Working, Oversight, UserList, Insight, Approvers
<1>3. Within(ChecksOnPublication, op, roles)
  BY JoinedWithin, GrantWithin DEF ChecksOnPublication, PageRow, Administrator, Authors,
     Reviewing, Working, Oversight, UserList, Insight, Approvers
<1>4. Within(ChecksOnPeople, op, roles)
  BY JoinedWithin, GrantWithin DEF ChecksOnPeople, PageRow, Administrator, Authors, Reviewing,
     Working, Oversight, UserList, Insight, Approvers
<1>5. Within(ChecksOnIntegrations, op, roles)
  BY JoinedWithin, GrantWithin DEF ChecksOnIntegrations, PageRow, Administrator, Authors,
     Reviewing, Working, Oversight, UserList, Insight, Approvers
<1>6. Within(ChecksOnTerms, op, roles)
  BY JoinedWithin, GrantWithin DEF ChecksOnTerms, PageRow, Administrator, Authors, Reviewing,
     Working, Oversight, UserList, Insight, Approvers
<1> QED BY <1>1, <1>2, <1>3, <1>4, <1>5, <1>6, JoinedWithin DEF Checks

\* Whom the API picks, the service behind it serves.
LEMMA ApiInChecks ==
  ASSUME NEW op, NEW roles, ApiRow(op, roles), op # "create_sandbox"
  PROVE  Within(Checks, op, roles)
<1>1. Within(ChecksOnRequests, op, roles)
  BY JoinedWithin, GrantWithin DEF ChecksOnRequests, ApiRow, Administrator, Authors,
     Reviewing, Working, Oversight, UserList, Insight, Approvers
<1>2. Within(ChecksOnCodes, op, roles)
  BY JoinedWithin, GrantWithin DEF ChecksOnCodes, ApiRow, Administrator, Authors, Reviewing,
     Working, Oversight, UserList, Insight, Approvers
<1>3. Within(ChecksOnPublication, op, roles)
  BY JoinedWithin, GrantWithin DEF ChecksOnPublication, ApiRow, Administrator, Authors,
     Reviewing, Working, Oversight, UserList, Insight, Approvers
<1>4. Within(ChecksOnPeople, op, roles)
  BY JoinedWithin, GrantWithin DEF ChecksOnPeople, ApiRow, Administrator, Authors, Reviewing,
     Working, Oversight, UserList, Insight, Approvers
<1>5. Within(ChecksOnIntegrations, op, roles)
  BY JoinedWithin, GrantWithin DEF ChecksOnIntegrations, ApiRow, Administrator, Authors,
     Reviewing, Working, Oversight, UserList, Insight, Approvers
<1>6. Within(ChecksOnTerms, op, roles)
  BY JoinedWithin, GrantWithin DEF ChecksOnTerms, ApiRow, Administrator, Authors, Reviewing,
     Working, Oversight, UserList, Insight, Approvers
<1> QED BY <1>1, <1>2, <1>3, <1>4, <1>5, <1>6, JoinedWithin DEF Checks

\* The services of the translations are open to the rows above.
LEMMA TranslationsAreChecked ==
  ASSUME NEW op \in Translating
  PROVE  op \in DOMAIN Checks /\ TranslationRow(op, Checks[op])
<1> DEFINE Claim(roles) == TranslationRow(op, roles)
<1>1. op \in DOMAIN ChecksOnPublication
  BY JoinedDomain, GrantDomain DEF ChecksOnPublication, Translating
<1>2. op \in DOMAIN Checks
  BY <1>1, JoinedDomain DEF Checks
<1>3. ASSUME NEW roles, Lists(Checks, op, roles) PROVE Claim(roles)
  <2>1. Lists(ChecksOnRequests, op, roles) => Claim(roles)
    BY JoinedLists, GrantLists DEF ChecksOnRequests, Translating, TranslationRow
  <2>2. Lists(ChecksOnCodes, op, roles) => Claim(roles)
    BY JoinedLists, GrantLists DEF ChecksOnCodes, Translating, TranslationRow
  <2>3. Lists(ChecksOnPublication, op, roles) => Claim(roles)
    BY JoinedLists, GrantLists DEF ChecksOnPublication, Translating, TranslationRow
  <2>4. Lists(ChecksOnPeople, op, roles) => Claim(roles)
    BY JoinedLists, GrantLists DEF ChecksOnPeople, Translating, TranslationRow
  <2>5. Lists(ChecksOnIntegrations, op, roles) => Claim(roles)
    BY JoinedLists, GrantLists DEF ChecksOnIntegrations, Translating, TranslationRow
  <2>6. Lists(ChecksOnTerms, op, roles) => Claim(roles)
    BY JoinedLists, GrantLists DEF ChecksOnTerms, Translating, TranslationRow
  <2> QED BY <1>3, <2>1, <2>2, <2>3, <2>4, <2>5, <2>6, JoinedLists DEF Checks
<1> QED BY <1>2, <1>3 DEF Lists

\* CoverDecidesOnly: who may do what his own role does not open may do it under
\* require_role_or_delegate.
LEMMA CoversDecide == CoverDecidesOnly
BY DEF CoverDecidesOnly, May, Admitted, OrDelegate

\* PagesAdmitNoMore: a page admits who the API admits; the page of the translations admits
\* everybody, and the service behind it serves those the API admits.
LEMMA PagesAreNoWayAround == PagesAdmitNoMore
<1> SUFFICES ASSUME NEW u \in Users, NEW op \in DOMAIN Api \intersect DOMAIN Ui,
                    May(u, "ui", op)
             PROVE  May(u, "api", op)
  BY DEF PagesAdmitNoMore
<1>1. SignedIn(u) /\ Served(u, op)
  BY DEF May, Admitted
<1>2. CASE op \in Translating
  <2>1. op \in DOMAIN Checks /\ op \notin OrDelegate
    BY <1>2, TranslationsAreChecked DEF Translating, OrDelegate
  <2>2. account[u].role \in Checks[op]
    BY <1>1, <2>1 DEF Served
  <2>3. Checks[op] \subseteq Api[op]
    BY <1>2, TranslationsAreChecked, PagesInApi DEF Within
  <2> QED BY <1>1, <2>2, <2>3 DEF May, Admitted, Gate
<1>3. CASE op \notin Translating
  <2>1. Ui[op] \subseteq Api[op]
    BY <1>3, PageRows, PagesInApi DEF Lists, Within
  <2>2. \/ account[u].role \in Ui[op]
        \/ op \in OrDelegate /\ \E r \in Ui[op] : DelegatorsFor(u, r) # {}
    BY DEF May, Admitted, Gate
  <2> QED BY <1>1, <2>1, <2>2 DEF May, Admitted, Gate
<1> QED BY <1>2, <1>3

\* AdmittedAreServed: whom the row of a route picks the check of its service picks too.
LEMMA PickedAreServed == AdmittedAreServed
<1> SUFFICES ASSUME NEW u \in Users, NEW door \in Doors,
                    NEW op \in DOMAIN Gate(door) \ {"create_sandbox"},
                    Gate(door)[op] # Roles, Admitted(u, door, op), op \in DOMAIN Checks
             PROVE  \/ account[u].role \in Checks[op]
                    \/ op \in OrDelegate /\ \E r \in Checks[op] : DelegatorsFor(u, r) # {}
  BY DEF AdmittedAreServed, Served
<1>1. Gate(door)[op] \subseteq Checks[op]
  <2>1. CASE door = "api"
    <3>1. ApiRow(op, Api[op])
      BY <2>1, ApiRows DEF Gate, Lists
    <3> QED BY <2>1, <3>1, ApiInChecks DEF Gate, Within
  <2>2. CASE door = "ui"
    <3>1. PageRow(op, Ui[op])
      BY <2>2, PageRows DEF Gate, Lists
    <3> QED BY <2>2, <3>1, PagesInChecks DEF Gate, Within
  <2> QED BY <2>1, <2>2 DEF Doors
<1> QED BY <1>1 DEF Admitted

\* RolesAreKept: whoever has which role and covers for whom, with any number of people, a
\* cover opens decisions only, a page is no way around the API, and whom a route picks by
\* role the service behind it serves (auth/decorators.py, api/v1, ui/routes.py, services).
THEOREM OutsideRolesAreKept == OutsideSpec => []RolesAreKept
<1>1. RolesAreKept
  BY CoversDecide, PagesAreNoWayAround, PickedAreServed DEF RolesAreKept
<1> QED BY <1>1, PTL

\* Accounts and delegations keep their types, whoever changes them.
LEMMA PeopleAreTyped ==
  ASSUME AccountsTypeOK, People
  PROVE  AccountsTypeOK'
<1>0. Candidates \in [Users -> SUBSET Roles]
  BY AccountsAssumption DEF AccountsAssumption
<1>1. ASSUME NEW u \in Users, NEW a \in Account, account' = [account EXCEPT ![u] = a],
             UNCHANGED delegations
      PROVE  AccountsTypeOK'
  BY <1>1 DEF AccountsTypeOK
<1>2. ASSUME delegations' \subseteq Delegation, UNCHANGED account
      PROVE  AccountsTypeOK'
  BY <1>2 DEF AccountsTypeOK
<1>3. ASSUME NEW actor \in Users, NEW u \in Users, NEW role \in Roles, CreateUser(actor, u, role, FALSE)
      PROVE  AccountsTypeOK'
  <2>1. [state |-> "ACTIVE", role |-> role, controls |-> FALSE] \in Account
    BY DEF Account
  <2> QED BY <1>1, <1>3, <2>1 DEF CreateUser
<1>4. ASSUME NEW actor \in Users, NEW u \in Users, NEW role \in Roles,
             NEW state \in {"ACTIVE", "INACTIVE"}, UpdateUser(actor, u, role, FALSE, state)
      PROVE  AccountsTypeOK'
  <2>1. [state |-> state, role |-> role, controls |-> FALSE] \in Account
    BY DEF Account
  <2> QED BY <1>1, <1>4, <2>1 DEF UpdateUser
<1>5. ASSUME NEW actor \in Users, NEW u \in Users, DeleteUser(actor, u)
      PROVE  AccountsTypeOK'
  <2>1. /\ account' = [account EXCEPT ![u].state = "DELETED", ![u].controls = FALSE]
        /\ UNCHANGED delegations
    BY <1>5 DEF DeleteUser
  <2>2. account[u] \in Account /\ account \in [Users -> Account]
    BY DEF AccountsTypeOK
  <2>3. [account[u] EXCEPT !.state = "DELETED", !.controls = FALSE] \in Account
    BY ONLY <2>2 DEF Account
  <2>4. account' = [account EXCEPT ![u] = [account[u] EXCEPT !.state = "DELETED", !.controls = FALSE]]
    BY <2>1, <2>2
  <2> QED BY <1>1, <2>1, <2>3, <2>4
<1>6. ASSUME NEW actor \in Users, NEW from \in Users, NEW to \in Users,
             CreateDelegation(actor, from, to, TRUE)
      PROVE  AccountsTypeOK'
  <2>1. [delegator |-> from, delegate |-> to, role |-> account[from].role, begun |-> TRUE]
          \in Delegation
    BY <1>6 DEF CreateDelegation, Delegation
  <2> QED BY <1>2, <1>6, <2>1 DEF CreateDelegation, AccountsTypeOK
<1>7. ASSUME NEW d, delegations' = delegations \ {d}, UNCHANGED account
      PROVE  AccountsTypeOK'
  BY <1>7 DEF AccountsTypeOK
<1>8. ASSUME NEW actor \in Users, NEW d \in delegations, RevokeDelegation(actor, d)
      PROVE  AccountsTypeOK'
  BY <1>7, <1>8 DEF RevokeDelegation
<1>9. ASSUME NEW d \in delegations, DelegationEnds(d)
      PROVE  AccountsTypeOK'
  BY <1>7, <1>9 DEF DelegationEnds
<1> QED BY <1>3, <1>4, <1>5, <1>6, <1>8, <1>9 DEF People

\* A token keeps its type.
LEMMA TokensAreTyped ==
  ASSUME token \in Token \union {NoToken}, Next
  PROVE  token' \in Token \union {NoToken}
<1>0. MaxTokenAge \in Nat \ {0}
  BY DoorsAssumption DEF DoorsAssumption, AccessAssumption
<1>1. CASE People
  BY <1>1 DEF People
<1>2. ASSUME NEW u \in Users, NEW scopes \in SUBSET Scopes \ {{}}, create_api_token(u, scopes)
      PROVE  token' \in Token
  BY <1>0, <1>2 DEF create_api_token, Token
<1>3. ASSUME NEW u \in Users, revoke_api_token(u)
      PROVE  token' \in Token
  <2>1. token \in Token /\ token' = [token EXCEPT !.revoked = TRUE]
    BY <1>3 DEF revoke_api_token
  <2> QED BY ONLY <2>1 DEF Token
<1>4. CASE DayPasses
  <2>1. /\ token \in Token /\ token.left > 0
        /\ token' = [token EXCEPT !.left = @ - 1]
    BY <1>4 DEF DayPasses
  <2>2. token.left \in 0 .. MaxTokenAge
    BY <2>1 DEF Token
  <2>3. token.left - 1 \in 0 .. MaxTokenAge
    BY ONLY <1>0, <2>1, <2>2
  <2>4. token' \in Token
    BY ONLY <2>1, <2>3 DEF Token
  <2> QED BY <2>4
<1> QED BY <1>1, <1>2, <1>3, <1>4 DEF Next

LEMMA AccessIsTyped == OutsideSpec => []AccessTypeOK
<1>1. OutsideInit => AccessTypeOK
  BY AccountsAssumption
  DEF AccountsAssumption, OutsideInit, Init, AccountsInit, AccessTypeOK, AccountsTypeOK
<1>2. AccessTypeOK /\ [OutsideNext]_outside => AccessTypeOK'
  <2> SUFFICES ASSUME AccessTypeOK, [OutsideNext]_outside PROVE AccessTypeOK'
    OBVIOUS
  <2>1. CASE UNCHANGED access
    BY <2>1 DEF access, AccessTypeOK, AccountsTypeOK
  <2>2. CASE Next
    <3>1. AccountsTypeOK'
      <4>1. CASE People
        BY <4>1, PeopleAreTyped DEF AccessTypeOK
      <4>2. CASE UNCHANGED accountVars
        BY <4>2 DEF accountVars, AccessTypeOK, AccountsTypeOK
      <4> QED BY <2>2, <4>1, <4>2 DEF Next, create_api_token, revoke_api_token, DayPasses
    <3> QED BY <2>2, <3>1, TokensAreTyped DEF AccessTypeOK
  <2>3. CASE UNCHANGED outside
    BY <2>1, <2>3 DEF outside
  <2> QED BY <2>1, <2>2, <2>3 DEF OutsideNext, Only
<1> QED BY <1>1, <1>2, PTL DEF OutsideSpec

-----------------------------------------------------------------------------
(* The doors.  Whatever clause of the tables catches an error first, what  *)
(* the caller is told is one of the answers there are.                     *)

\* What a clause may answer; two of these are translated further.
Given == {"translated", "decided", "401", "403", "404", "409", "422", "423", "429"}

Gives(clause) == clause.answer \in Given

Answering(table) ==
  \A op \in DOMAIN table : \A i \in DOMAIN table[op] : i \in Nat /\ Gives(table[op][i])

LEMMA BothAnswer ==
  \A f, g : Answering(f) /\ Answering(g) => Answering(Calls!++(f, g))
<1> SUFFICES ASSUME NEW f, NEW g, Answering(f), Answering(g)
             PROVE  Answering(Calls!++(f, g))
  OBVIOUS
<1>1. Calls!++(f, g) = Calls!Joined(f, g)
  BY DEF Calls!++
<1> QED BY <1>1 DEF Answering, Calls!Joined

LEMMA OnGives ==
  \A c : \A a \in Given : Gives(Calls!On(c, a))
BY DEF Gives, Calls!On

LEMMA EachAnswers ==
  ASSUME NEW ops, NEW n \in Nat, NEW clauses, DOMAIN clauses = 1 .. n,
         \A i \in 1 .. n : Gives(clauses[i])
  PROVE  Answering(Calls!Each(ops, clauses))
BY DEF Answering, Calls!Each

LEMMA NoneAnswers ==
  \A ops :
    Answering(Calls!Each(ops, <<>>))
<1> SUFFICES ASSUME NEW ops
             PROVE  Answering(Calls!Each(ops, <<>>))
  OBVIOUS
<1> DEFINE s == <<>>
<1>1. DOMAIN s = 1 .. 0
  OBVIOUS
<1> HIDE DEF s
<1>2. \A i \in 1 .. 0 : Gives(s[i])
  BY <1>1
<1>3. Answering(Calls!Each(ops, s))
  BY <1>1, <1>2, EachAnswers
<1> QED BY <1>3 DEF s

LEMMA OneAnswers ==
  \A ops, x1 :
    Gives(x1)
      => Answering(Calls!Each(ops, <<x1>>))
<1> SUFFICES ASSUME NEW ops, NEW x1, Gives(x1)
             PROVE  Answering(Calls!Each(ops, <<x1>>))
  OBVIOUS
<1> DEFINE s == <<x1>>
<1>1. DOMAIN s = 1 .. 1 /\ s[1] = x1
  OBVIOUS
<1> HIDE DEF s
<1>2. \A i \in 1 .. 1 : Gives(s[i])
  BY <1>1
<1>3. Answering(Calls!Each(ops, s))
  BY <1>1, <1>2, EachAnswers
<1> QED BY <1>3 DEF s

LEMMA TwoAnswers ==
  \A ops, x1, x2 :
    Gives(x1) /\ Gives(x2)
      => Answering(Calls!Each(ops, <<x1, x2>>))
<1> SUFFICES ASSUME NEW ops, NEW x1, NEW x2, Gives(x1), Gives(x2)
             PROVE  Answering(Calls!Each(ops, <<x1, x2>>))
  OBVIOUS
<1> DEFINE s == <<x1, x2>>
<1>1. DOMAIN s = 1 .. 2 /\ s[1] = x1 /\ s[2] = x2
  OBVIOUS
<1> HIDE DEF s
<1>2. \A i \in 1 .. 2 : Gives(s[i])
  BY <1>1
<1>3. Answering(Calls!Each(ops, s))
  BY <1>1, <1>2, EachAnswers
<1> QED BY <1>3 DEF s

LEMMA ThreeAnswers ==
  \A ops, x1, x2, x3 :
    Gives(x1) /\ Gives(x2) /\ Gives(x3)
      => Answering(Calls!Each(ops, <<x1, x2, x3>>))
<1> SUFFICES ASSUME NEW ops, NEW x1, NEW x2, NEW x3, Gives(x1), Gives(x2), Gives(x3)
             PROVE  Answering(Calls!Each(ops, <<x1, x2, x3>>))
  OBVIOUS
<1> DEFINE s == <<x1, x2, x3>>
<1>1. DOMAIN s = 1 .. 3 /\ s[1] = x1 /\ s[2] = x2 /\ s[3] = x3
  OBVIOUS
<1> HIDE DEF s
<1>2. \A i \in 1 .. 3 : Gives(s[i])
  BY <1>1
<1>3. Answering(Calls!Each(ops, s))
  BY <1>1, <1>2, EachAnswers
<1> QED BY <1>3 DEF s

LEMMA FourAnswers ==
  \A ops, x1, x2, x3, x4 :
    Gives(x1) /\ Gives(x2) /\ Gives(x3) /\ Gives(x4)
      => Answering(Calls!Each(ops, <<x1, x2, x3, x4>>))
<1> SUFFICES ASSUME NEW ops, NEW x1, NEW x2, NEW x3, NEW x4, Gives(x1), Gives(x2), Gives(x3), Gives(x4)
             PROVE  Answering(Calls!Each(ops, <<x1, x2, x3, x4>>))
  OBVIOUS
<1> DEFINE s == <<x1, x2, x3, x4>>
<1>1. DOMAIN s = 1 .. 4 /\ s[1] = x1 /\ s[2] = x2 /\ s[3] = x3 /\ s[4] = x4
  OBVIOUS
<1> HIDE DEF s
<1>2. \A i \in 1 .. 4 : Gives(s[i])
  BY <1>1
<1>3. Answering(Calls!Each(ops, s))
  BY <1>1, <1>2, EachAnswers
<1> QED BY <1>3 DEF s

LEMMA SixAnswers ==
  \A ops, x1, x2, x3, x4, x5, x6 :
    Gives(x1) /\ Gives(x2) /\ Gives(x3) /\ Gives(x4) /\ Gives(x5) /\ Gives(x6)
      => Answering(Calls!Each(ops, <<x1, x2, x3, x4, x5, x6>>))
<1> SUFFICES ASSUME NEW ops, NEW x1, NEW x2, NEW x3, NEW x4, NEW x5, NEW x6, Gives(x1), Gives(x2), Gives(x3), Gives(x4), Gives(x5), Gives(x6)
             PROVE  Answering(Calls!Each(ops, <<x1, x2, x3, x4, x5, x6>>))
  OBVIOUS
<1> DEFINE s == <<x1, x2, x3, x4, x5, x6>>
<1>1. DOMAIN s = 1 .. 6 /\ s[1] = x1 /\ s[2] = x2 /\ s[3] = x3 /\ s[4] = x4 /\ s[5] = x5 /\ s[6] = x6
  OBVIOUS
<1> HIDE DEF s
<1>2. \A i \in 1 .. 6 : Gives(s[i])
  BY <1>1
<1>3. Answering(Calls!Each(ops, s))
  BY <1>1, <1>2, EachAnswers
<1> QED BY <1>3 DEF s

LEMMA PlainAnswers ==
  \A ops : Answering(Calls!Plain(ops))
BY OnGives, OneAnswers DEF Given, Calls!Plain

LEMMA ApiOnRequestsAnswer == Answering(Calls!ApiOnRequests)
BY BothAnswer, OnGives, FourAnswers, TwoAnswers, ThreeAnswers
   DEF Given, Calls!Deciding, Calls!ApiOnRequests

LEMMA ApiOnSignoffsAnswer == Answering(Calls!ApiOnSignoffs)
BY OnGives, TwoAnswers DEF Given, Calls!ApiOnSignoffs

LEMMA ApiInReviewAnswer == Answering(Calls!ApiInReview)
BY PlainAnswers DEF Calls!ApiInReview

LEMMA ApiOnSetsAnswer == Answering(Calls!ApiOnSets)
BY BothAnswer, OnGives, TwoAnswers, PlainAnswers DEF Given, Calls!ApiOnSets

LEMMA ApiOnDelegationsAnswer == Answering(Calls!ApiOnDelegations)
BY PlainAnswers DEF Calls!ApiOnDelegations

LEMMA ApiInBulkAnswer == Answering(Calls!ApiInBulk)
BY PlainAnswers DEF Calls!ApiInBulk

LEMMA ApiOnCodesAnswer == Answering(Calls!ApiOnCodes)
BY BothAnswer, OnGives, ThreeAnswers DEF Given, Calls!ApiOnCodes

LEMMA ApiOnOneCodeAnswer == Answering(Calls!ApiOnOneCode)
BY BothAnswer, OnGives, TwoAnswers, FourAnswers, ThreeAnswers DEF Given, Calls!ApiOnOneCode

LEMMA ApiOnDraftsAnswer == Answering(Calls!ApiOnDrafts)
BY OnGives, SixAnswers DEF Given, Calls!ApiOnDrafts

LEMMA ApiOnPeopleAnswer == Answering(Calls!ApiOnPeople)
BY BothAnswer, OnGives, TwoAnswers, ThreeAnswers, OneAnswers DEF Given, Calls!ApiOnPeople

LEMMA ApiOnSignInAnswer == Answering(Calls!ApiOnSignIn)
BY BothAnswer, OnGives, ThreeAnswers DEF Given, Calls!ApiOnSignIn

LEMMA ApiOnLookupsAnswer == Answering(Calls!ApiOnLookups)
BY BothAnswer, OnGives, TwoAnswers DEF Given, Calls!ApiOnLookups

LEMMA ApiOnMappingAnswer == Answering(Calls!ApiOnMapping)
BY PlainAnswers DEF Calls!ApiOnMapping

LEMMA ApiOnImportsAnswer == Answering(Calls!ApiOnImports)
BY PlainAnswers DEF Calls!ApiOnImports

LEMMA ApiOnProgramImportsAnswer == Answering(Calls!ApiOnProgramImports)
BY PlainAnswers DEF Calls!ApiOnProgramImports

LEMMA ApiInOperationsAnswer == Answering(Calls!ApiInOperations)
BY BothAnswer, PlainAnswers, OnGives, TwoAnswers DEF Given, Calls!ApiInOperations

LEMMA ApiOnReleasesAnswer == Answering(Calls!ApiOnReleases)
BY BothAnswer, NoneAnswers, OnGives, ThreeAnswers, TwoAnswers, FourAnswers
   DEF Given, Calls!ApiOnReleases

LEMMA ApiOnPackagesAnswer == Answering(Calls!ApiOnPackages)
BY PlainAnswers DEF Calls!ApiOnPackages

LEMMA ApiOnExportsAnswer == Answering(Calls!ApiOnExports)
BY BothAnswer, PlainAnswers, OnGives, OneAnswers DEF Given, Calls!ApiOnExports

LEMMA ApiOnPublicationAnswer == Answering(Calls!ApiOnPublication)
BY PlainAnswers DEF Calls!ApiOnPublication

LEMMA ApiOnTranslationsAnswer == Answering(Calls!ApiOnTranslations)
BY PlainAnswers DEF Calls!ApiOnTranslations

LEMMA ApiAnswers == Answering(Calls!Api)
BY BothAnswer, ApiOnRequestsAnswer, ApiOnSignoffsAnswer, ApiInReviewAnswer, ApiOnSetsAnswer,
   ApiOnDelegationsAnswer, ApiInBulkAnswer, ApiOnCodesAnswer, ApiOnOneCodeAnswer,
   ApiOnDraftsAnswer, ApiOnPeopleAnswer, ApiOnSignInAnswer, ApiOnLookupsAnswer,
   ApiOnMappingAnswer, ApiOnImportsAnswer, ApiOnProgramImportsAnswer, ApiInOperationsAnswer,
   ApiOnReleasesAnswer, ApiOnPackagesAnswer, ApiOnExportsAnswer, ApiOnPublicationAnswer,
   ApiOnTranslationsAnswer
   DEF Calls!Api

\* What a caller is told.
Told == {"none", "ok", "message", "401", "403", "404", "409", "422", "423", "429", "500"}

LEMMA TranslationsAreTold ==
  ASSUME NEW e
  PROVE  /\ Calls!Translated(e) \in Told /\ Calls!Decided(e) \in Told
         /\ Calls!LastResort(e) \in Told
BY DEF Calls!Translated, Calls!Decided, Calls!LastResort, Told

\* The first clause that catches an error is one of the table.
LEMMA ApiTells ==
  ASSUME NEW op \in DOMAIN Calls!Api, NEW e
  PROVE  Calls!ApiAnswer(op, e) \in Told
<1> DEFINE C == Calls!Catching(op, e)
           first == CHOOSE i \in C : \A j \in C : i <= j
           answer == Calls!Api[op][first].answer
<1>1. CASE C = {}
  BY <1>1, TranslationsAreTold DEF Calls!ApiAnswer
<1>2. CASE C # {}
  <2>1. C \subseteq Nat /\ C \subseteq DOMAIN Calls!Api[op]
    BY ApiAnswers DEF Answering, Calls!Catching
  <2>2. first \in C
    <3> HIDE DEF C
    <3>1. \E i \in C : \A j \in C : i <= j
      BY ONLY <1>2, <2>1, LeastNumber
    <3> QED BY <3>1
  <2>3. answer \in Given
    <3>1. first \in DOMAIN Calls!Api[op]
      BY <2>1, <2>2
    <3> HIDE DEF first
    <3> QED BY <3>1, ApiAnswers DEF Answering, Gives
  <2>4. Calls!ApiAnswer(op, e) = CASE answer = "translated" -> Calls!Translated(e)
                                   [] answer = "decided" -> Calls!Decided(e)
                                   [] OTHER -> answer
    BY <1>2 DEF Calls!ApiAnswer
  <2> HIDE DEF answer
  <2>5. CASE answer = "translated"
    BY <2>4, <2>5, TranslationsAreTold
  <2>6. CASE answer = "decided"
    BY <2>4, <2>6, TranslationsAreTold
  <2>7. CASE answer # "translated" /\ answer # "decided"
    BY <2>3, <2>4, <2>7 DEF Given, Told
  <2> QED BY <2>5, <2>6, <2>7
<1> QED BY <1>1, <1>2

LEMMA PageTells ==
  ASSUME NEW op, NEW e
  PROVE  Calls!PageAnswer(op, e) \in Told
BY TranslationsAreTold DEF Calls!PageAnswer, Told

Call ==
  [door : {"api", "ui"}, op : DOMAIN Calls!Api \union DOMAIN Calls!Ui,
   stage : {"serving", "half", "done", "failed", "answered"},
   error : Calls!Errors \union {NoError}, answer : Told]

\* Between its two commits only the creation of a Release waits, and it has its label.
CallsInv ==
  /\ label \in {"free", "used", "left"}
  /\ call # NoCall =>
       /\ call \in Call
       /\ call.door = "api" => call.op \in DOMAIN Calls!Api
       /\ call.stage = "half" => label = "used"
       /\ call.stage = "failed" => call.error # NoError

LEMMA CommitIsTyped ==
  ASSUME CallsInv, Calls!Commit
  PROVE  CallsInv'
<1>1. /\ call \in Call /\ call # NoCall
      /\ call.door = "api" => call.op \in DOMAIN Calls!Api
      /\ label \in {"free", "used", "left"}
  BY DEF CallsInv, Calls!Commit
<1> DEFINE stage == IF Calls!RaisedLate(call.op) = {} THEN "done" ELSE "half"
<1>2. /\ call' = [call EXCEPT !.stage = stage]
      /\ label' \in CASE call.op = "create_release" -> {"used"}
                      [] call.op = "delete_release" -> {label, "free"}
                      [] OTHER -> {label}
  BY DEF Calls!Commit
<1>3. stage \in {"done", "half"} /\ (stage = "half" => call.op = "create_release")
  BY DEF Calls!RaisedLate
<1>4. label' \in {"free", "used", "left"} /\ (stage = "half" => label' = "used")
  <2> HIDE DEF stage
  <2>1. CASE call.op = "create_release"
    BY <1>2, <2>1
  <2>2. CASE call.op = "delete_release"
    BY <1>1, <1>2, <1>3, <2>2
  <2>3. CASE call.op # "create_release" /\ call.op # "delete_release"
    BY <1>1, <1>2, <1>3, <2>3
  <2> QED BY <2>1, <2>2, <2>3
<1> HIDE DEF stage
<1>5. call' \in Call /\ call'.door = call.door /\ call'.op = call.op /\ call'.stage = stage
  BY ONLY <1>1, <1>2, <1>3 DEF Call
<1>6. stage # "failed"
  BY <1>3
<1> QED BY <1>1, <1>4, <1>5, <1>6 DEF CallsInv

LEMMA CallsStep ==
  ASSUME CallsInv, Calls!Next
  PROVE  CallsInv'
<1> DEFINE Ongoing == /\ call \in Call /\ call # NoCall
                      /\ call.door = "api" => call.op \in DOMAIN Calls!Api
                      /\ label \in {"free", "used", "left"}
<1>1. ASSUME NEW door \in {"api", "ui"}, NEW op \in Calls!Operations(door), Calls!Begin(door, op)
      PROVE  CallsInv'
  <2> DEFINE new == [door |-> door, op |-> op, stage |-> "serving", error |-> NoError,
                     answer |-> "none"]
  <2>1. call' = new /\ label' = label
    BY <1>1 DEF Calls!Begin
  <2>2. /\ op \in DOMAIN Calls!Api \union DOMAIN Calls!Ui
        /\ door = "api" => op \in DOMAIN Calls!Api
    BY <1>1 DEF Calls!Operations
  <2>3. new \in Call
    BY <2>2 DEF Call, Told
  <2> QED BY <2>1, <2>2, <2>3 DEF CallsInv
<1>2. ASSUME NEW e \in Calls!Errors, Calls!Fail(e)
      PROVE  CallsInv'
  <2>1. Ongoing /\ call' = [call EXCEPT !.stage = "failed", !.error = e] /\ label' = label
    BY <1>2 DEF CallsInv, Calls!Fail
  <2>2. e # NoError
    BY CallsAssumption DEF Calls!NoErrorAssumption
  <2>3. /\ call' \in Call /\ call'.door = call.door /\ call'.op = call.op
        /\ call'.stage = "failed" /\ call'.error = e
    <3>1. call \in Call /\ e \in Calls!Errors
      BY <2>1
    <3> QED BY ONLY <2>1, <3>1 DEF Call
  <2> QED BY <2>1, <2>2, <2>3 DEF CallsInv
<1>3. ASSUME NEW e \in Calls!Errors, Calls!FailLate(e)
      PROVE  CallsInv'
  <2>1. Ongoing /\ call' = [call EXCEPT !.stage = "failed", !.error = e] /\ label' = "left"
    BY <1>3 DEF CallsInv, Calls!FailLate
  <2>2. e # NoError
    BY CallsAssumption DEF Calls!NoErrorAssumption
  <2>3. /\ call' \in Call /\ call'.door = call.door /\ call'.op = call.op
        /\ call'.stage = "failed" /\ call'.error = e
    <3>1. call \in Call /\ e \in Calls!Errors
      BY <2>1
    <3> QED BY ONLY <2>1, <3>1 DEF Call
  <2> QED BY <2>1, <2>2, <2>3 DEF CallsInv
<1>4. CASE Calls!Finish
  <2>1. Ongoing /\ call' = [call EXCEPT !.stage = "done"] /\ label' = label
    BY <1>4 DEF CallsInv, Calls!Finish
  <2>2. call' \in Call /\ call'.door = call.door /\ call'.op = call.op /\ call'.stage = "done"
    <3>1. call \in Call
      BY <2>1
    <3> QED BY ONLY <2>1, <3>1 DEF Call
  <2> QED BY <2>1, <2>2 DEF CallsInv
<1>5. CASE Calls!Answer
  <2> DEFINE answer == IF call.error = NoError THEN "ok"
                       ELSE IF call.door = "api" THEN Calls!ApiAnswer(call.op, call.error)
                       ELSE Calls!PageAnswer(call.op, call.error)
  <2>1. Ongoing /\ call' = [call EXCEPT !.stage = "answered", !.answer = answer] /\ label' = label
    BY <1>5 DEF CallsInv, Calls!Answer
  <2>2. answer \in Told
    <3>1. CASE call.error = NoError
      BY <3>1 DEF Told
    <3>2. CASE call.error # NoError /\ call.door = "api"
      <4>1. call.op \in DOMAIN Calls!Api
        BY <2>1, <3>2
      <4> QED BY <3>2, <4>1, ApiTells
    <3>3. CASE call.error # NoError /\ call.door # "api"
      BY <3>3, PageTells
    <3> QED BY <3>1, <3>2, <3>3
  <2> HIDE DEF answer
  <2>3. /\ call' \in Call /\ call'.door = call.door /\ call'.op = call.op
        /\ call'.stage = "answered"
    <3>1. call \in Call
      BY <2>1
    <3> QED BY ONLY <2>1, <2>2, <3>1 DEF Call
  <2> QED BY <2>1, <2>3 DEF CallsInv
<1>6. CASE Calls!Close
  BY <1>6 DEF CallsInv, Calls!Close
<1> QED BY <1>1, <1>2, <1>3, <1>4, <1>5, <1>6, CommitIsTyped DEF Calls!Next

LEMMA AnswersAreTyped == OutsideSpec => []Calls!AnswersTypeOK
<1>1. OutsideInit => CallsInv
  BY DEF OutsideInit, Calls!Init, CallsInv
<1>2. [OutsideNext]_outside => [Calls!Next]_calls
  BY DEF OutsideNext, Only, outside
<1>3. CallsInv /\ [Calls!Next]_calls => CallsInv'
  <2>1. CallsInv /\ UNCHANGED calls => CallsInv'
    BY DEF calls, CallsInv
  <2> QED BY <2>1, CallsStep
<1>4. CallsInv => Calls!AnswersTypeOK
  BY DEF CallsInv, Calls!AnswersTypeOK, Call, Told
<1> QED BY <1>1, <1>2, <1>3, <1>4, PTL DEF OutsideSpec

-----------------------------------------------------------------------------
(* All of them.                                                            *)

\* Every variable of the part that moves has its type, for every value of the bounds: no
\* log, feed, day, count or lock exceeds what the constants allow, a backup is named by a
\* day on which it was made, a request that writes holds the lock, and the API and the
\* pages tell their callers nothing but the answers there are.
THEOREM OutsideTypesHold == OutsideSpec => []OutsideTypeOK
<1> DEFINE Placed == scene \in {"signing in", "access", "calls", "publishing", "exporting",
                                "connecting", "trail", "saving", "transacting"}
<1>1. OutsideInit => Placed
  BY ScenesAssumption DEF OutsideInit
<1>2. Placed /\ [OutsideNext]_outside => Placed'
  BY DEF OutsideNext, Only, outside
<1>3. ASSUME Placed, SigningIn!SignInTypeOK, AccessTypeOK, Calls!AnswersTypeOK,
             Publishing!PublicationTypeOK, Exporting!ExportsTypeOK,
             Connecting!ConnectionsTypeOK, Trail!AuditTypeOK, Saving!BackupTypeOK,
             Transacting!TransactionsTypeOK
      PROVE  OutsideTypeOK
  BY <1>3 DEF OutsideTypeOK
<1> HIDE DEF Placed
<1> QED BY <1>1, <1>2, <1>3, SignInIsTyped, AccessIsTyped, AnswersAreTyped,
           PublicationIsTyped, ExportsAreTyped, ConnectionsAreTyped, TrailIsTyped,
           BackupsAreTyped, TransactionsAreTyped, PTL DEF OutsideSpec
=============================================================================
