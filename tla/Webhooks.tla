------------------------------- MODULE Webhooks -------------------------------
(***************************************************************************)
(* What happens after a publication (release_service.publish,              *)
(* integration_service.WebhookService): the subscribers are told one after *)
(* the other, in the same request but after the commit, each delivery in a *)
(* transaction of its own that is open while the target is called.  An     *)
(* administrator registers, pauses and resumes subscribers meanwhile, a    *)
(* target may answer anything, and the process may die.                    *)
(***************************************************************************)
EXTENDS Naturals, Sequences, FiniteSets, SequencesExt

CONSTANTS
  Hooks,
  Releases,
  Answers,    \* what a target does: "ok", "refused" (HTTP error or no connection), "garbled"
  MaxAdmin    \* bound: changes by administrators

NoHolder == "nobody"

\* What the constants are; assumed by the module that gives them values.
HooksAssumption ==
  IsFiniteSet(Hooks) /\ NoHolder \notin Releases /\ MaxAdmin \in Nat

VARIABLES
  active,      \* registered webhook -> is_active
  dispatcher,  \* Release -> published?, the request's progress and the hooks still to tell
  called,      \* the calls the targets have seen: Release, hook, how often
  deliveries,  \* the committed delivery records, in order
  lock,        \* the request that holds the write lock
  admin        \* changes made by administrators
vars == <<active, dispatcher, called, deliveries, lock, admin>>

Init ==
  /\ active = <<>>
  /\ dispatcher = [r \in Releases |-> [at |-> "building", todo |-> <<>>, answer |-> "none"]]
  /\ called = [r \in Releases |-> [h \in Hooks |-> 0]]
  /\ deliveries = <<>>
  /\ lock = NoHolder
  /\ admin = 0

At(r, place) == dispatcher[r].at = place

(* A transaction of an administrator: it needs the write lock. *)
Administrate ==
  /\ lock = NoHolder /\ admin < MaxAdmin
  /\ admin' = admin + 1
  /\ UNCHANGED <<dispatcher, called, deliveries, lock>>

create(h) ==
  /\ h \notin DOMAIN active
  /\ active' = [k \in DOMAIN active \cup {h} |-> k = h \/ (k \in DOMAIN active /\ active[k])]
  /\ Administrate

set_active(h) ==
  /\ h \in DOMAIN active
  /\ \E value \in BOOLEAN : active' = [active EXCEPT ![h] = value]
  /\ Administrate

(* The transaction of the publication. *)
publish(r) ==
  /\ At(r, "building") /\ lock = NoHolder
  /\ dispatcher' = [dispatcher EXCEPT ![r].at = "published"]
  /\ UNCHANGED <<active, called, deliveries, lock, admin>>

(* The active subscribers are read in a new transaction, which takes the lock at once. *)
dispatch(r) ==
  /\ At(r, "published") /\ lock = NoHolder
  /\ \E hooks \in SetToSeqs({h \in DOMAIN active : active[h]}) :
       dispatcher' = [dispatcher EXCEPT ![r].at = "next", ![r].todo = hooks]
  /\ lock' = r
  /\ UNCHANGED <<active, called, deliveries, admin>>

(* The row of the next hook is read again: after a delivery this begins a new transaction. *)
NextHook(r) ==
  /\ At(r, "next") /\ lock \in {NoHolder, r}
  /\ IF dispatcher[r].todo = <<>>
     THEN dispatcher' = [dispatcher EXCEPT ![r].at = "done"] /\ lock' = NoHolder
     ELSE dispatcher' = [dispatcher EXCEPT ![r].at = "calling"] /\ lock' = r
  /\ UNCHANGED <<active, called, deliveries, admin>>

(* The target is called with a timeout, once. *)
Call(r) ==
  /\ At(r, "calling")
  /\ called' = [called EXCEPT ![r][Head(dispatcher[r].todo)] = @ + 1]
  /\ \E answer \in Answers :
       dispatcher' = [dispatcher EXCEPT ![r].at = "answered", ![r].answer = answer]
  /\ UNCHANGED <<active, deliveries, lock, admin>>

\* A defect to test ToldOnceAndRecorded with: the outcome is recorded before the hook is done with.
RecordDefect(r) ==
  /\ At(r, "answered") /\ dispatcher[r].answer # "garbled"
  /\ deliveries' = Append(deliveries, [release |-> r, hook |-> Head(dispatcher[r].todo),
                                       ok |-> dispatcher[r].answer = "ok"])
  /\ dispatcher' = [dispatcher EXCEPT ![r].at = "next"]
  /\ lock' = NoHolder
  /\ UNCHANGED <<active, called, admin>>

\* A defect to test SubscribersAreTold with: an error answer ends the round.
RecordOrEndDefect(r) ==
  /\ At(r, "answered") /\ dispatcher[r].answer # "garbled"
  /\ deliveries' = Append(deliveries, [release |-> r, hook |-> Head(dispatcher[r].todo),
                                       ok |-> dispatcher[r].answer = "ok"])
  /\ dispatcher' = [dispatcher EXCEPT ![r].at = IF dispatcher[r].answer = "ok" THEN "next" ELSE "done",
                                      ![r].todo = Tail(@)]
  /\ lock' = NoHolder
  /\ UNCHANGED <<active, called, admin>>

(* HTTP and connection errors are an outcome like any other. *)
Record(r) ==
  /\ At(r, "answered") /\ dispatcher[r].answer # "garbled"
  /\ deliveries' = Append(deliveries, [release |-> r, hook |-> Head(dispatcher[r].todo),
                                       ok |-> dispatcher[r].answer = "ok"])
  /\ dispatcher' = [dispatcher EXCEPT ![r].at = "next", ![r].todo = Tail(@)]
  /\ lock' = NoHolder
  /\ UNCHANGED <<active, called, admin>>

\* A defect to test WebhooksTypeOK with: the transaction stays open after an error.
BreakOffDefect(r) ==
  /\ At(r, "answered") /\ dispatcher[r].answer = "garbled"
  /\ dispatcher' = [dispatcher EXCEPT ![r].at = "broken"]
  /\ UNCHANGED <<active, called, deliveries, lock, admin>>

(* Any other error (an answer that is not HTTP) ends the round and is rolled back. *)
BreakOff(r) ==
  /\ At(r, "answered") /\ dispatcher[r].answer = "garbled"
  /\ dispatcher' = [dispatcher EXCEPT ![r].at = "broken"]
  /\ lock' = NoHolder
  /\ UNCHANGED <<active, called, deliveries, admin>>

(* The process dies in the middle; nothing takes up the round again. *)
Die(r) ==
  /\ dispatcher[r].at \in {"published", "next", "calling", "answered"}
  /\ dispatcher' = [dispatcher EXCEPT ![r].at = "dead"]
  /\ lock' = IF lock = r THEN NoHolder ELSE lock
  /\ UNCHANGED <<active, called, deliveries, admin>>

Begin(r) == dispatch(r) \/ NextHook(r)
Go(r) == Call(r) \/ Record(r) \/ BreakOff(r)

Next ==
  \/ \E h \in Hooks : create(h) \/ set_active(h)
  \/ \E r \in Releases : publish(r) \/ Begin(r) \/ Go(r) \/ Die(r)

Spec == Init /\ [][Next]_vars

(* The request goes on until it is answered, and comes to the write lock in the end. *)
FairSpec == Spec /\ \A r \in Releases : WF_vars(Go(r)) /\ SF_vars(Begin(r))

----------------------------------------------------------------------------
Recorded(r, h) == {i \in DOMAIN deliveries : deliveries[i].release = r /\ deliveries[i].hook = h}

(* Every variable has its type; the lock is held by a request that is telling. *)
WebhooksTypeOK ==
  /\ DOMAIN active \subseteq Hooks
  /\ lock \in Releases \cup {NoHolder}
  /\ \A r \in Releases :
       /\ dispatcher[r].at \in {"building", "published", "next", "calling", "answered", "done", "broken",
                               "dead"}
       /\ At(r, "calling") \/ At(r, "answered") => lock = r
       /\ lock = r => dispatcher[r].at \in {"next", "calling", "answered"}
  /\ admin \in 0..MaxAdmin

(* A target hears of a Release once at most, and what is recorded has happened: whatever it  *)
(* answers, whoever pauses and resumes it, and wherever the process dies.                    *)
ToldOnceAndRecorded ==
  \A r \in Releases, h \in Hooks :
    /\ called[r][h] <= 1
    /\ Cardinality(Recorded(r, h)) <= called[r][h]

Subscribed(h) == h \in DOMAIN active /\ active[h]

Owed(r, h) == At(r, "published") /\ Subscribed(h)
Told(r, h) == Recorded(r, h) # {} \/ dispatcher[r].at \in {"broken", "dead"} \/ ~Subscribed(h)

(* Who is subscribed when the Release is published has a record of the delivery in the end,  *)
(* unless it is paused meanwhile, the round broke off or the process died.                   *)
SubscribersAreTold == \A r \in Releases, h \in Hooks : Owed(r, h) ~> Told(r, h)

(* Disagreement: a delivery "is recorded with its outcome" (FR-146).  Violated by an answer  *)
(* that is not HTTP: the round ends, with the record of this call rolled back.               *)
EveryAnswerIsRecorded ==
  \A r \in Releases, h \in Hooks :
    dispatcher[r].at \in {"done", "broken"} /\ called[r][h] > 0 => Recorded(r, h) # {}

(* Disagreement: "can never block or fail the publish" (FR-146).                             *)
(* Violated: while a target is called, the publication of another Release waits for the lock. *)
PublishNeverWaits ==
  \A r \in Releases : At(r, "calling") => lock = NoHolder

(* Disagreement: "a disabled webhook is not called" (test_integrations_and_reports.py:320).  *)
(* Violated: the round reads who is active once, and commits after every delivery.           *)
PausedAreNotCalled ==
  [][\A r \in Releases, h \in Hooks : called'[r][h] > called[r][h] => active[h]]_vars
==========================================================================
