----------------------------- MODULE Transactions -----------------------------
(***************************************************************************)
(* How requests share the database (app/__init__.py, app/db_modes.py): the *)
(* ground the other modules stand on when they take a whole request for    *)
(* one step.  A request that may write takes SQLite's write lock with its  *)
(* first statement and waits for it; a GET request reads a snapshot and    *)
(* takes no lock - except that a request with an API token records the use *)
(* of the token in the middle of its reading                               *)
(* (integration_service.ApiTokenService.authenticate).                     *)
(*                                                                         *)
(* The database is one number; a write stores the number it has read plus  *)
(* one.  A reading transaction that goes on to write is refused by SQLite  *)
(* at once if anybody holds the lock or has committed since it began.      *)
(***************************************************************************)
EXTENDS Naturals, FiniteSets

CONSTANTS
  Requests,
  Kinds,      \* the kinds of requests that arrive: "write", "read", "token"
  MaxStored,  \* bound: commits
  Patience    \* may a request give up waiting (PRAGMA busy_timeout)?

NoHolder == "nobody"
\* What the constants are; assumed by the module that gives them values.
KindsAssumption ==
  /\ Kinds \subseteq {"write", "read", "token"}
  /\ NoHolder \notin Requests
  /\ MaxStored \in Nat

VARIABLES
  stored,  \* the committed value
  lock,    \* who holds the write lock
  req      \* request -> kind, progress, the value of its transaction, the values it has shown
vars == <<stored, lock, req>>

Idle == [kind |-> "read", at |-> "idle", value |-> 0, shown |-> {}]

Init ==
  /\ stored = 0
  /\ lock = NoHolder
  /\ req = [r \in Requests |-> Idle]

At(r, places) == req[r].at \in places

(* GET, HEAD and OPTIONS, unless the endpoint is marked as writing. *)
is_read_only_request(kind) == kind \in {"read", "token"}

Arrive(r) ==
  /\ At(r, {"idle"})
  /\ \E kind \in Kinds :
       req' = [req EXCEPT ![r] = [kind |-> kind, at |-> "arrived", value |-> 0, shown |-> {}]]
  /\ UNCHANGED <<stored, lock>>

(* The first statement of a transaction: BEGIN, and the snapshot with the first read. *)
BeginDeferred(r) ==
  /\ At(r, {"arrived", "recorded"})
  /\ is_read_only_request(req[r].kind)
  /\ req' = [req EXCEPT ![r].at = IF At(r, {"recorded"}) THEN "authenticated" ELSE "reading",
                        ![r].value = stored, ![r].shown = {}]
  /\ UNCHANGED <<stored, lock>>

\* A defect to test NothingIsLost with: a write begins like a read and locks when it writes.
BeginImmediateDefect(r) ==
  /\ At(r, {"arrived"})
  /\ ~is_read_only_request(req[r].kind)
  /\ lock' = r
  /\ req' = [req EXCEPT ![r].at = "writing", ![r].value = stored]
  /\ UNCHANGED stored

\* A defect to test WritersGetThrough with: without write-ahead log a writer waits for the readers.
BeginImmediateAloneDefect(r) ==
  /\ At(r, {"arrived"})
  /\ ~is_read_only_request(req[r].kind)
  /\ lock = NoHolder /\ \A other \in Requests : ~At(other, {"reading", "authenticated"})
  /\ lock' = r
  /\ req' = [req EXCEPT ![r].at = "writing", ![r].value = stored]
  /\ UNCHANGED stored

(* BEGIN IMMEDIATE, once the lock is free. *)
BeginImmediate(r) ==
  /\ At(r, {"arrived"})
  /\ ~is_read_only_request(req[r].kind)
  /\ lock = NoHolder
  /\ lock' = r
  /\ req' = [req EXCEPT ![r].at = "writing", ![r].value = stored]
  /\ UNCHANGED stored

(* busy_timeout: "writers queue instead of failing fast". *)
GiveUp(r) ==
  /\ Patience
  /\ At(r, {"arrived"})
  /\ ~is_read_only_request(req[r].kind)
  /\ lock # NoHolder
  /\ req' = [req EXCEPT ![r].at = "failed"]
  /\ UNCHANGED <<stored, lock>>

\* A defect to test ReadsAgree with: without a transaction a read sees what was committed since the transaction began.
ReadDefect(r) ==
  /\ At(r, {"reading", "authenticated"})
  /\ req' = [req EXCEPT ![r].shown = @ \cup {stored}]
  /\ UNCHANGED <<stored, lock>>

Read(r) ==
  /\ At(r, {"reading", "authenticated"})
  /\ req' = [req EXCEPT ![r].shown = @ \cup {req[r].value}]
  /\ UNCHANGED <<stored, lock>>

(* authenticate writes last_used_at when the last use is more than a minute old. *)
RecordUse(r) ==
  /\ At(r, {"reading"}) /\ req[r].kind = "token"
  /\ IF lock = NoHolder /\ req[r].value = stored
     THEN req' = [req EXCEPT ![r].at = "writing"] /\ lock' = r
     ELSE req' = [req EXCEPT ![r].at = "refused"] /\ UNCHANGED lock
  /\ UNCHANGED stored

\* A defect to test TransactionsTypeOK with: an error leaves the transaction open.
RollbackDefect(r) ==
  /\ At(r, {"writing"})
  /\ req' = [req EXCEPT ![r].at = "failed"]
  /\ UNCHANGED <<stored, lock>>

Rollback(r) ==
  /\ At(r, {"writing"})
  /\ lock' = NoHolder
  /\ req' = [req EXCEPT ![r].at = "failed"]
  /\ UNCHANGED stored

Commit(r) ==
  /\ At(r, {"writing"})
  /\ stored < MaxStored
  /\ stored' = req[r].value + 1
  /\ lock' = NoHolder
  /\ req' = [req EXCEPT ![r].at = IF req[r].kind = "token" THEN "recorded" ELSE "done"]

(* A reading request is answered; the session is removed. *)
Answer(r) ==
  /\ At(r, {"reading", "authenticated"}) /\ is_read_only_request(req[r].kind)
  /\ req' = [req EXCEPT ![r].at = "done"]
  /\ UNCHANGED <<stored, lock>>

Leave(r) ==
  /\ At(r, {"done", "failed", "refused"})
  /\ req' = [req EXCEPT ![r] = Idle]
  /\ UNCHANGED <<stored, lock>>

Finish(r) == Commit(r) \/ Rollback(r)
Next ==
  \E r \in Requests :
    \/ Arrive(r) \/ BeginDeferred(r) \/ BeginImmediate(r) \/ GiveUp(r)
    \/ Read(r) \/ RecordUse(r) \/ Finish(r) \/ Answer(r) \/ Leave(r)

Spec == Init /\ [][Next]_vars

(* A request that holds the lock ends; the lock is tried again and again while waiting, so *)
(* that a waiter does not miss it for ever.                                                 *)
FairSpec ==
  Spec /\ \A r \in Requests : WF_vars(Finish(r)) /\ SF_vars(BeginImmediate(r))

----------------------------------------------------------------------------
(* Every variable has its type, and who writes holds the lock. *)
TransactionsTypeOK ==
  /\ stored \in 0..MaxStored
  /\ lock \in Requests \cup {NoHolder}
  /\ \A r \in Requests :
       /\ lock = r => At(r, {"writing"})
       /\ req[r].at \in {"idle", "arrived", "reading", "writing", "recorded", "authenticated",
                         "done", "failed", "refused"}
       /\ req[r].value \in 0..MaxStored
       /\ req[r].shown \subseteq 0..MaxStored

(* No commit overwrites another one: each builds on the one before.  This is what makes   *)
(* the numbering of codes and the comparison of row versions hold between requests.       *)
NothingIsLost ==
  [][/\ stored' # stored => stored' = stored + 1
     /\ \A r \in Requests :
          req[r].at = "writing" /\ req'[r].at \in {"recorded", "done"} => stored' = stored + 1]_vars

(* A page is drawn from one state of the database, whoever writes meanwhile; the          *)
(* transaction that records the use of a token is the only break, and it comes first.     *)
ReadsAgree == \A r \in Requests : Cardinality(req[r].shown) <= 1

Waiting(r) == At(r, {"arrived"}) /\ req[r].kind = "write"

(* A request that waits for the write lock gets it. *)
WritersGetThrough == \A r \in Requests : Waiting(r) ~> At(r, {"writing"})

(* Disagreement: no request is prone to the failure of a reader that becomes a writer.     *)
NobodyIsRefused == \A r \in Requests : ~At(r, {"refused"})
==========================================================================
