------------------------------ MODULE Reminders ------------------------------
(***************************************************************************)
(* The daily reminder (notification_service.send_reminders) over the       *)
(* governed catalogue: who is told that a change request waits for a       *)
(* decision, compared with who may take it (ChangeRequests).               *)
(*                                                                         *)
(* The job is one transaction, but its e-mails leave while it runs: a job  *)
(* that ends before its commit has sent them and remembers nothing.  Every *)
(* request that waits is taken to be past its threshold (sla_service).     *)
(***************************************************************************)
EXTENDS Governance

CONSTANTS
  MaxDays,    \* bound: days
  MaxRuns     \* bound: runs of the job

VARIABLES
  notices,   \* the dedupe keys of the table notification
  mails,     \* dedupe key -> mails sent for it; a key is in the domain once one is sent
  today,
  runs       \* runs of the job so far, for the bound

reminderVars == <<notices, mails, today, runs>>
allVars == <<vars, reminderVars>>

Stage(c, n) == IF rev[c][n].status = "REVIEW" THEN "review" ELSE "approval"
Waiting == {p \in Codes \X RevNo : /\ IsRequest(p[1], p[2])
                                   /\ rev[p[1]][p[2]].status \in {"REVIEW", "PENDING_APPROVAL"}}

ActiveUsers(role) == {u \in Users : HasRole(u, {role})}

\* A defect to test OwnersAreReminded with: the Administrators are asked after the Reviewer only.
FirstHoldersDefect(c, n) ==
  LET r == rev[c][n] IN
  IF r.status = "PENDING_APPROVAL"
  THEN ActiveUsers("CHIEF_ENGINEER") \ {r.author, r.reviewer, r.admin}
  ELSE IF r.reviewer = Nobody
  THEN (IF r.assigned = Nobody THEN ActiveUsers("REVIEWER")
        ELSE {u \in {r.assigned} : SignedIn(u)}) \ {r.author}
  ELSE ActiveUsers("ADMINISTRATOR") \ {r.author}

\* The people whose own decision is missing.
FirstHolders(c, n) ==
  LET r == rev[c][n]
      reviewers == IF r.assigned = Nobody THEN ActiveUsers("REVIEWER")
                   ELSE {u \in {r.assigned} : SignedIn(u)}
  IN
  IF r.status = "PENDING_APPROVAL"
  THEN ActiveUsers("CHIEF_ENGINEER") \ {r.author, r.reviewer, r.admin}
  ELSE ((IF r.reviewer = Nobody THEN reviewers ELSE {})
        \union (IF r.admin = Nobody THEN ActiveUsers("ADMINISTRATOR") ELSE {})) \ {r.author}

\* delegates_of: whatever role the delegation was given for.
DelegatesOf(u) == {d.delegate : d \in {e \in delegations : e.begun /\ e.delegator = u}}

\* A defect to test AuthorsAreLeftAlone with: only the first holders are compared with the author.
decision_holdersDefect(c, n) ==
  FirstHolders(c, n)
  \union {v \in UNION {DelegatesOf(u) : u \in FirstHolders(c, n)} : SignedIn(v)}

decision_holders(c, n) ==
  FirstHolders(c, n)
  \union ({v \in UNION {DelegatesOf(u) : u \in FirstHolders(c, n)} : SignedIn(v)}
          \ {rev[c][n].author})

Keys == UNION {{<<p[1], p[2], Stage(p[1], p[2]), today, u>> : u \in decision_holders(p[1], p[2])}
               : p \in Waiting}
New == Keys \ notices

\* A defect to test RemindersTypeOK with: a notice is kept without its day.
RememberDefect(keys) == {<<k[1], k[2], k[3], k[5]>> : k \in keys}

Remember(keys) == notices \union keys

Count(k) == IF k \in DOMAIN mails THEN mails[k] ELSE 0
Sent(keys) == [k \in DOMAIN mails \union keys |-> IF k \in keys THEN Count(k) + 1 ELSE Count(k)]

Run == runs < MaxRuns /\ runs' = runs + 1

(* The job to its end: every new notice is stored; the relay takes any of the mails. *)
send_reminders ==
  /\ New # {} /\ Run
  /\ \E taken \in {New, {}} : mails' = Sent(taken)
  /\ notices' = Remember(New)
  /\ UNCHANGED <<vars, today>>

(* The job stops before its commit: the mails are out. *)
ReminderFails ==
  /\ New # {} /\ Run
  /\ mails' = Sent(New)
  /\ UNCHANGED <<vars, notices, today>>

NewDay == today < MaxDays /\ today' = today + 1 /\ UNCHANGED <<vars, notices, mails, runs>>

RemindersInit == Init /\ notices = {} /\ mails = [k \in {} |-> 0] /\ today = 1 /\ runs = 0

RemindersNext ==
  \/ Next /\ UNCHANGED reminderVars
  \/ send_reminders
  \/ ReminderFails
  \/ NewDay

RemindersSpec == RemindersInit /\ [][RemindersNext]_allVars

----------------------------------------------------------------------------
\* The next decision on a request, taken by `u` (reviewer_signoff, admin_signoff,
\* chief_engineer_decide).
MayTakeNext(u, c, n) ==
  \/ rev[c][n].reviewer = Nobody /\ ReviewerMayDecide(u, c, n)
  \/ rev[c][n].admin = Nobody /\ AdminMayDecide(u, c, n)
  \/ ChiefMayDecide(u, c, n)

\* The same without covering for anybody.
OwnDecision(u, c, n) ==
  \/ HasRole(u, {"REVIEWER"}) /\ rev[c][n].reviewer = Nobody /\ ReviewerMayDecide(u, c, n)
  \/ HasRole(u, {"ADMINISTRATOR"}) /\ rev[c][n].admin = Nobody /\ AdminMayDecide(u, c, n)
  \/ HasRole(u, {"CHIEF_ENGINEER"}) /\ ChiefMayDecide(u, c, n)

(* Types; a notice belongs to one day and one stage (the dedupe key). *)
RemindersTypeOK ==
  /\ \A k \in notices : k \in Codes \X RevNo \X {"review", "approval"} \X (1 .. MaxDays) \X Users
  /\ \A k \in DOMAIN mails : mails[k] \in 1 .. MaxRuns

(* Whoever may take the next decision by the role they hold themselves is reminded of it, whatever
   happened to assignments, roles and sign-offs before (decision_holders). *)
OwnersAreReminded ==
  \A p \in Waiting : \A u \in Users :
    OwnDecision(u, p[1], p[2]) => u \in decision_holders(p[1], p[2])

(* The author of a request is never reminded to decide it, covering for others or not (BR-005). *)
AuthorsAreLeftAlone ==
  \A p \in Waiting : rev[p[1]][p[2]].author \notin decision_holders(p[1], p[2])

(* "Who can take the next decision on `cr` right now (and so should be reminded)", those who cover
   for somebody included (decision_holders). *)
CoversAreReminded ==
  \A p \in Waiting : \A u \in Users :
    MayTakeNext(u, p[1], p[2]) => u \in decision_holders(p[1], p[2])

(* Nobody else is: a person who covers in another role, or has signed before, is not reminded
   (decision_holders, the same sentence). *)
HoldersMayDecide ==
  \A p \in Waiting : \A u \in decision_holders(p[1], p[2]) : MayTakeNext(u, p[1], p[2])

(* "running the job twice is harmless": nobody gets two mails for one key (send_reminders). *)
MailedOnce == \A k \in DOMAIN mails : mails[k] <= 1
=============================================================================
