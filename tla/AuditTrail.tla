------------------------------ MODULE AuditTrail ------------------------------
(***************************************************************************)
(* The audit log as a hash chain (app/audit_chain.py, app/audit_hash.py):  *)
(* entries written by requests and given their hashes when the session is  *)
(* flushed, verifications with their anchor file, and the archive job.     *)
(* A hash is modelled by what it is computed from, the contents of the     *)
(* entry and of everything before it, so that two hashes are equal exactly *)
(* if these are.                                                           *)
(*                                                                         *)
(* Every writer holds SQLite's write lock from its first statement to its  *)
(* end (app/__init__.py:33), so there is one transaction at a time; a      *)
(* process may die at any point of it.  The database may be put back to an *)
(* earlier copy, and rows may be altered by somebody outside the           *)
(* application, which is what verifications are there to find.             *)
(***************************************************************************)
EXTENDS Naturals, Sequences, FiniteSets

CONSTANTS
  MaxEntries,  \* bound: entries of the log
  MaxTime,     \* bound: the clock
  Retention    \* entries older than this are archived

\* What the constants are; assumed by the module that gives them values.
RetentionAssumption ==
  Retention \in Nat /\ MaxEntries \in Nat /\ MaxTime \in Nat \ {0}

Genesis == <<>>
None == [count |-> 0]
Work == [first |-> 0, last |-> 0]    \* what an ordinary entry tells of an archive: nothing

VARIABLES
  log,      \* the committed entries, in the order of their ids
  tx,       \* the transaction that holds the write lock: who, flushed, new, due
  anchor,   \* the anchor file: [count, head], or None if missing or unreadable
  files,    \* the archive files: the range of ids in the name, and the rows
  copy,     \* a backup of the log
  now,
  verdict,  \* what the last verification reported
  vouched,  \* history: the log as the verification that wrote the anchor saw it
  altered   \* history: an entry was removed from the middle or changed
vars == <<log, tx, anchor, files, copy, now, verdict, vouched, altered>>

Idle == [who |-> "nobody", flushed |-> <<>>, new |-> <<>>, due |-> Work]
compute_hash(at, tells, prev) == Append(prev, <<at, tells>>)
HeadOf(rows) == IF rows = <<>> THEN Genesis ELSE rows[Len(rows)].hash

\* A defect to test NoFalseAlarm with: every entry of a flush follows the last stored one.
ChainedDefect(rows, new) ==
  [i \in 1..Len(new) |->
     [at |-> new[i].at, tells |-> new[i].tells, prev |-> HeadOf(rows),
      hash |-> compute_hash(new[i].at, new[i].tells, HeadOf(rows))]]

(* The hook before a flush: new entries in the order they were logged, continuing from the *)
(* last stored one.  What the i-th of them is hashed from is all that was before, then the  *)
(* new ones up to it.                                                                       *)
Chained(rows, new) ==
  LET hash(i) == HeadOf(rows) \o [k \in 1..i |-> <<new[k].at, new[k].tells>>]
  IN [i \in 1..Len(new) |-> [at |-> new[i].at, tells |-> new[i].tells,
                             prev |-> hash(i - 1), hash |-> hash(i)]]

Stored == log \o tx.flushed

\* A defect to test AlteredIsFound with: only the links are compared, not the contents.
LinksHoldDefect(rows) ==
  \A i \in 1..Len(rows) : rows[i].prev = HeadOf(SubSeq(rows, 1, i - 1))

LinksHold(rows) ==
  \A i \in 1..Len(rows) :
    /\ rows[i].prev = HeadOf(SubSeq(rows, 1, i - 1))
    /\ rows[i].hash = compute_hash(rows[i].at, rows[i].tells, rows[i].prev)

\* A defect to test VerifiedIsKept with: only the number of entries is compared.
AnchorHoldsDefect(rows) == Len(rows) >= anchor.count

AnchorHolds(rows) ==
  anchor # None =>
    /\ Len(rows) >= anchor.count
    /\ rows[anchor.count].hash = anchor.head

verify_rows(rows) == LinksHold(rows) /\ AnchorHolds(rows)

Init ==
  /\ log = <<>> /\ tx = Idle /\ anchor = None /\ files = {} /\ copy = <<>> /\ now = 1
  /\ verdict = "none" /\ vouched = <<>> /\ altered = FALSE

----------------------------------------------------------------------------
(* Requests. *)

Begin(who) == tx = Idle /\ tx' = [Idle EXCEPT !.who = who]

BeginRequest ==
  /\ Begin("request")
  /\ UNCHANGED <<log, anchor, files, copy, now, verdict, vouched, altered>>

Log ==
  /\ tx.who = "request"
  /\ Len(Stored) + Len(tx.new) < MaxEntries
  /\ tx' = [tx EXCEPT !.new = Append(@, [at |-> now, tells |-> Work])]
  /\ UNCHANGED <<log, anchor, files, copy, now, verdict, vouched, altered>>

Flush ==
  /\ tx.new # <<>>
  /\ tx' = [tx EXCEPT !.flushed = @ \o Chained(Stored, tx.new), !.new = <<>>]
  /\ UNCHANGED <<log, anchor, files, copy, now, verdict, vouched, altered>>

Commit ==
  /\ tx.who = "request"
  /\ log' = Stored \o Chained(Stored, tx.new)
  /\ tx' = Idle
  /\ UNCHANGED <<anchor, files, copy, now, verdict, vouched, altered>>

(* A rollback, or the process dies: what it wrote to files stays. *)
Rollback ==
  /\ tx # Idle
  /\ tx' = Idle
  /\ UNCHANGED <<log, anchor, files, copy, now, verdict, vouched, altered>>

----------------------------------------------------------------------------
(* A verification: the walk reads the committed rows and the anchor, then a good result *)
(* replaces the anchor file, which is empty for a moment. *)

Verify ==
  /\ Begin("verification")
  /\ verdict' = IF verify_rows(log) THEN "ok" ELSE "broken"
  /\ UNCHANGED <<log, anchor, files, copy, now, vouched, altered>>

\* A defect to test AuditTypeOK with: an empty log is anchored as well.
EmptyAnchorDefect ==
  /\ tx.who = "verification" /\ verdict = "ok"
  /\ tx' = [tx EXCEPT !.who = "anchor"]
  /\ anchor' = None
  /\ vouched' = <<>>
  /\ UNCHANGED <<log, files, copy, now, verdict, altered>>

EmptyAnchor ==
  /\ tx.who = "verification" /\ verdict = "ok" /\ log # <<>>
  /\ tx' = [tx EXCEPT !.who = "anchor"]
  /\ anchor' = None
  /\ vouched' = <<>>
  /\ UNCHANGED <<log, files, copy, now, verdict, altered>>

WriteAnchor ==
  /\ tx.who = "anchor"
  /\ anchor' = [count |-> Len(log), head |-> HeadOf(log)]
  /\ vouched' = log
  /\ tx' = Idle
  /\ UNCHANGED <<log, files, copy, now, verdict, altered>>

----------------------------------------------------------------------------
(* The archive job. *)

LastArchived ==
  LET told == {i \in 1..Len(log) : log[i].tells # Work} IN
  IF told = {} THEN 0 ELSE log[CHOOSE i \in told : \A j \in told : j <= i].tells.last

\* A defect to test ArchivedOnce with: the job always starts with the first entry.
DueDefect == {i \in 1..Len(log) : log[i].at + Retention < now}

Due == {i \in 1..Len(log) : i > LastArchived /\ log[i].at + Retention < now}

\* The range of the entries that are due.
Range(ids) == [first |-> CHOOSE i \in ids : \A j \in ids : i <= j,
               last |-> CHOOSE i \in ids : \A j \in ids : j <= i]

WriteArchive ==
  /\ tx = Idle
  /\ Due # {}
  /\ Len(log) < MaxEntries
  /\ LET r == Range(Due) IN
     /\ tx' = [Idle EXCEPT !.who = "archive", !.due = r]
     /\ files' = {f \in files : f.range # r} \cup {[range |-> r, rows |-> [i \in Due |-> log[i]]]}
  /\ UNCHANGED <<log, anchor, copy, now, verdict, vouched, altered>>

RecordArchive ==
  /\ tx.who = "archive"
  /\ log' = log \o Chained(log, <<[at |-> now, tells |-> tx.due]>>)
  /\ tx' = Idle
  /\ UNCHANGED <<anchor, files, copy, now, verdict, vouched, altered>>

----------------------------------------------------------------------------
(* The world outside: time, backups and restores (with the anchor deleted, step 6 of the *)
(* restore runbook, or left), rows lost or altered. *)

Tick ==
  /\ now < MaxTime
  /\ now' = now + 1
  /\ UNCHANGED <<log, tx, anchor, files, copy, verdict, vouched, altered>>

Backup ==
  /\ ~altered
  /\ copy' = log
  /\ UNCHANGED <<log, tx, anchor, files, now, verdict, vouched, altered>>

Restore ==
  /\ tx = Idle /\ ~altered
  /\ log' = copy
  /\ \/ anchor' = None /\ vouched' = <<>>
     \/ UNCHANGED <<anchor, vouched>>
  /\ UNCHANGED <<tx, files, copy, now, verdict, altered>>

(* An entry before the last one is removed, or one is changed. *)
Alter ==
  /\ tx = Idle /\ ~altered
  /\ \E i \in 1..Len(log) :
       \/ i < Len(log) /\ log' = SubSeq(log, 1, i - 1) \o SubSeq(log, i + 1, Len(log))
       \/ log' = [log EXCEPT ![i].at = 0]
  /\ altered' = TRUE
  /\ UNCHANGED <<tx, anchor, files, copy, now, verdict, vouched>>

Next ==
  \/ BeginRequest \/ Log \/ Flush \/ Commit \/ Rollback
  \/ Verify \/ EmptyAnchor \/ WriteAnchor
  \/ WriteArchive \/ RecordArchive
  \/ Tick \/ Backup \/ Restore \/ Alter

Spec == Init /\ [][Next]_vars

----------------------------------------------------------------------------
Ranges == [first : 0..MaxEntries, last : 0..MaxEntries]
IsPrefix(s, t) == Len(s) <= Len(t) /\ SubSeq(t, 1, Len(s)) = s

(* Every variable has its type. *)
AuditTypeOK ==
  /\ \A rows \in {log, tx.flushed, tx.new, copy, vouched} :
       \A i \in 1..Len(rows) : rows[i].at \in 0..MaxTime /\ rows[i].tells \in Ranges
  /\ tx.who \in {"nobody", "request", "verification", "anchor", "archive"}
  /\ anchor # None => anchor.count \in 1..MaxEntries
  /\ \A f \in files : f.range \in Ranges
  /\ now \in 1..MaxTime /\ verdict \in {"none", "ok", "broken"} /\ altered \in BOOLEAN

(* A verification that ends well with an anchor to compare with vouches for the whole log of *)
(* the verification before: nothing of it was removed or changed, also not at its end and    *)
(* not when the log has grown again (FR-151, AUD-075).                                       *)
VerifiedIsKept ==
  [][Verify /\ verdict' = "ok" => IsPrefix(vouched, log)]_vars

(* A log nobody altered verifies, however its entries were flushed, rolled back and archived, *)
(* unless a restore has taken away entries the anchor knows of.                               *)
NoFalseAlarm ==
  [][Verify /\ verdict' = "broken" => altered \/ ~IsPrefix(vouched, log)]_vars

(* An entry changed, or removed before the end, is found by every later verification, also *)
(* without an anchor and whatever was logged after it.                                      *)
AlteredIsFound ==
  [][Verify /\ altered => verdict' = "broken"]_vars

(* What the log records as archived is archived once, without gaps, in a file that holds it, *)
(* however often the job is run or dies (AUD-073).                                            *)
ArchivedOnce ==
  ~altered =>
    \A i \in 1..LastArchived :
      /\ Cardinality({j \in 1..Len(log) : log[j].tells # Work /\
                        i \in log[j].tells.first..log[j].tells.last}) = 1
      /\ \E f \in files : i \in DOMAIN f.rows /\ f.rows[i] = log[i]

(* "A read-only walk: do not hold the write lock while hashing a large table"                *)
(* (app/audit_chain.py:159).  Violated: outside a GET request every transaction begins with   *)
(* the lock, the one of the walk as well.                                                     *)
WalkLeavesTheLock ==
  verdict # "none" => tx.who # "verification"

(* Every archive file is described by an entry of the log (AUD-073: "a gzip JSON-lines file    *)
(* with a .sha256 file, plus an AUDIT_ARCHIVE entry naming the file").  Violated by a process  *)
(* that dies between the file and its entry.                                                   *)
FilesAreRecorded ==
  tx = Idle => \A f \in files : \E j \in 1..Len(log) : log[j].tells = f.range
=============================================================================
