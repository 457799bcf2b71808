------------------------------- MODULE MCJobs --------------------------------
(***************************************************************************)
(* A small server for the model checker, and what it owes: jobs that were  *)
(* begun are worked off, people get in, writers come to their turn and     *)
(* readers of a Release are told.                                          *)
(***************************************************************************)
EXTENDS Jobs

CONSTANTS
  ada, cy, ed, rae, rob, pia, quin,
  k1, l1, j1, j2, p1, c1, c2, h1, h2, r1, r2, i1, en, de

\* One program whose mapping is approved.
OneRow == [k \in {k1} |-> "APPROVED"]

\* A file of two rows that name the same number.
RowOf(legacy, words) == [legacy |-> legacy, text |-> words, plan |-> "none"]

TwoRows == {<<RowOf(l1, "b"), RowOf(l1, "a")>>}

\* Two requests of ed's under review.
Staff == [u \in Deciders |->
  [state |-> "ACTIVE", controls |-> u \in {ada, ed},
   role |-> CASE u = ada -> "ADMINISTRATOR"
              [] u = cy -> "CHIEF_ENGINEER"
              [] u = ed -> "ENGINEER"
              [] OTHER -> "REVIEWER"]]

InReview ==
  [c \in {c1, c2} |-> [n \in 1 .. 1 |->
    [status |-> "REVIEW", current |-> TRUE, deprecation |-> FALSE, platforms |-> TRUE,
     cr |-> TRUE, author |-> ed, assigned |-> Nobody, controls |-> ed,
     reviewer |-> Nobody, admin |-> Nobody, chief |-> Nobody]]]

Numbered == [c \in {c1, c2} |-> IF c = c1 THEN 1 ELSE 2]

OneBand == {"01000"}

Ones == [b \in OneBand |-> 1]

Twos == [b \in OneBand |-> 2]

Both == {{c1, c2} \X {1}}

-----------------------------------------------------------------------------

\* Where a part may start in several states it waits in one of them.
Settled ==
  /\ scene # "quotas" => batch = [g \in Groups |-> 1] /\ size = 1
  /\ scene # "packing" => approved = {} /\ visible = {}

\* The fairness that each part asks for.  As one part moves, the obligations of different
\* parts can share a conjunct: only those of the part that moves are ever enabled.
GoesOn(j, r) ==
  \/ Only("packing") /\ Packing!Work(j)
  \/ Only("transacting") /\ Transacting!Finish(r)
  \/ Only("telling") /\ Telling!Go(r)

GoesOnFirst ==
  \/ GoesOn(j1, r1)
  \/ Only("programs") /\ Programs!Work(j1)
  \/ Only("library") /\ Library!Work(j1)
  \/ Only("sittings") /\ Sittings!Continue(k1) /\ UNCHANGED <<account, delegations>>
  \/ Only("quotas") /\ Quotas!Next
  \/ Only("signing in") /\ SigningIn!Tick
  \/ Only("polling") /\ Polling!Poll

TriesAgain(r, p) ==
  \/ Only("transacting") /\ Transacting!BeginImmediate(r)
  \/ Only("telling") /\ Telling!Begin(r)
  \/ Only("signing in") /\ SigningIn!Login(1, p)

Begin == Init /\ Settled

\* JobsSpec, from fewer states, with the fairness.
Spec ==
  /\ Begin /\ [][Next]_vars
  /\ WF_vars(GoesOnFirst) /\ WF_vars(GoesOn(j2, r2))
  /\ SF_vars(TriesAgain(r1, pia)) /\ SF_vars(TriesAgain(r2, quin))

-----------------------------------------------------------------------------

JobOf == <<j1, j2>>
PersonOf == <<pia, quin>>
RequestOf == <<r1, r2>>
HookOf == <<h1, h2>>
EntryOf == <<1, 4>>

\* What is owed to a job: an end; to a sample: that it is drawn.
Begun(n) ==
  CASE scene = "programs" -> n = 1 /\ Programs!Begun(j1)
    [] scene = "library" -> n = 1 /\ Library!Begun(j1)
    [] scene = "sittings" -> n = 1 /\ Sittings!Begun(k1)
    [] scene = "packing" -> Packing!Begun(JobOf[n])
    [] scene = "quotas" -> TRUE
    [] OTHER -> FALSE

Over(n) ==
  CASE scene = "programs" -> Programs!Over(j1)
    [] scene = "library" -> Library!Over(j1)
    [] scene = "sittings" -> Sittings!Over(k1)
    [] scene = "packing" -> Packing!Over(JobOf[n])
    [] scene = "quotas" -> Quotas!Finished
    [] OTHER -> TRUE

\* FR-048n, FR-174, FR-180: an import, a package and a sitting that were begun come to
\* their end while the process lives, and a sample of the wanted size is drawn.
JobsAreWorkedOff == \A n \in 1 .. 2 : Begun(n) ~> Over(n)

\* What is owed to people who sign in, to writers, and to those who are told of Releases
\* and changes: a session, the lock, a delivery, an entry of the feed.
Owed(n) ==
  CASE scene = "signing in" -> TRUE
    [] scene = "transacting" -> Transacting!Waiting(RequestOf[n])
    [] scene = "telling" -> Telling!Owed(RequestOf[n], HookOf[n])
    [] scene = "polling" -> Len(audit) >= EntryOf[n]
    [] OTHER -> FALSE

Given(n) ==
  CASE scene = "signing in" -> SigningIn!IsIn(PersonOf[n])
    [] scene = "transacting" -> Transacting!At(RequestOf[n], {"writing"})
    [] scene = "telling" -> Telling!Told(RequestOf[n], HookOf[n])
    [] scene = "polling" -> Len(poller.got) >= EntryOf[n]
    [] OTHER -> TRUE

\* FR-004, FR-145, FR-146: locks and limits delay a person and never keep them out, a
\* request that waits for the write lock gets it, a subscriber has a record of the
\* delivery of every Release, and who polls the feed receives every entry (auth_service,
\* db, integration_service).
WaitersAreServed == \A n \in 1 .. 2 : Owed(n) ~> Given(n)
=============================================================================
