------------------------------- MODULE SignIn --------------------------------
(***************************************************************************)
(* Signing in, the lock-out, the rate limits and the sessions              *)
(* (FR-001 to FR-004, FR-126, FR-163).                                     *)
(*                                                                         *)
(* Everybody signs in from one address, as behind a gateway.  Time passes  *)
(* in ticks: a lock counts down, attempts grow old and leave their window, *)
(* sessions become idle.  A session is a signed cookie of the browser; the *)
(* server only compares it with the account, request by request.           *)
(***************************************************************************)
EXTENDS Naturals, Sequences, SequencesExt

CONSTANTS
  People, Browsers, Nobody,
  Threshold, LockTime,        \* five failures lock for fifteen minutes
  NameLimit, NameWindow,      \* five attempts for a name in fifteen minutes
  AddressLimit, AddressWindow,\* ten from an address in five minutes
  Idle, Lifetime,             \* half an hour, twelve hours
  Mistakes,                   \* bound: how many wrong passwords are typed
  LastPassword                \* bound: how often a password is replaced

\* What the constants are; assumed by the module that gives them values.
SignInAssumption ==
  /\ Nobody \notin People
  /\ \A n \in {Threshold, LockTime, NameLimit, NameWindow, AddressLimit, AddressWindow} : n \in Nat \ {0}
  /\ Idle \in Nat /\ Lifetime \in Nat /\ Mistakes \in Nat /\ LastPassword \in Nat \ {0}

VARIABLES
  account,    \* user: active, password, failed, locked (the ticks a lock has left)
  attempts,   \* login_attempt: how many attempts by age, for each name and the address
  session,    \* the cookie of each browser
  mistakes    \* the wrong passwords typed so far

vars == <<account, attempts, session, mistakes>>

\* The names that are counted: a person types one and Windows supplies another.
Names == People \X {"password", "windows"}

Address == <<Nobody, "address">>

Keys == Names \union {Address}

NoSession == [user |-> Nobody, password |-> 0, idle |-> 0, age |-> 0, ended |-> FALSE]

SignInTypeOK ==
  /\ \A p \in People :
       /\ account[p].password \in 1 .. LastPassword
       /\ account[p].failed \in 0 .. Mistakes
       /\ account[p].locked \in 0 .. LockTime
  /\ \A b \in Browsers : session[b].user \in People \union {Nobody}
  /\ mistakes \in 0 .. Mistakes

-----------------------------------------------------------------------------
(* The rate limit                                                          *)

Window(k) == IF k = Address THEN AddressWindow ELSE NameWindow

Limit(k) == IF k = Address THEN AddressLimit ELSE NameLimit

Count(k) == FoldSeq(LAMBDA n, sum : n + sum, 0, attempts[k])

Allowed(n) == Count(Address) < AddressLimit /\ Count(n) < NameLimit

Recorded(n) ==
  [k \in Keys |-> IF k \in {n, Address} THEN [attempts[k] EXCEPT ![1] = @ + 1] ELSE attempts[k]]

\* A defect to test EverybodyGetsIn with: attempts that were refused count as well.
WhenRefusedDefect(n) ==
  [k \in Keys |-> IF k \in {n, Address} THEN [attempts[k] EXCEPT ![1] = Limit(k)] ELSE attempts[k]]

\* What an attempt leaves behind that the limits refuse: nothing.
WhenRefused(n) == attempts

Refuse(n) ==
  /\ ~Allowed(n)
  /\ attempts' = WhenRefused(n)
  /\ UNCHANGED <<account, session, mistakes>>

-----------------------------------------------------------------------------
(* Signing in                                                              *)

Established(b, p) ==
  session' = [session EXCEPT ![b] =
    [user |-> p, password |-> account[p].password, idle |-> 0, age |-> 0, ended |-> FALSE]]

\* A defect to test LockedIsLocked with: a lock does not keep passwords from being tried.
OpenDefect(p) == account[p].active

Open(p) == account[p].active /\ account[p].locked = 0

\* An attempt that the account does not admit, whatever the password.
LoginInVain(p) ==
  LET n == <<p, "password">> IN
  /\ Allowed(n)
  /\ ~Open(p)
  /\ attempts' = Recorded(n)
  /\ UNCHANGED <<account, session, mistakes>>

Login(b, p) ==
  LET n == <<p, "password">> IN
  /\ Allowed(n)
  /\ Open(p)
  /\ attempts' = Recorded(n)
  /\ account' = [account EXCEPT ![p].failed = 0]
  /\ Established(b, p)
  /\ UNCHANGED mistakes

\* A defect to test SignInTypeOK with: every failure prolongs the lock.
FailedDefect(a) ==
  [a EXCEPT !.failed = a.failed + 1,
            !.locked = IF a.failed + 1 >= Threshold THEN a.locked + LockTime + 1 ELSE a.locked]

\* A wrong password counts, and from the threshold on it locks.
Failed(a) ==
  [a EXCEPT !.failed = a.failed + 1,
            !.locked = IF a.failed + 1 >= Threshold THEN LockTime ELSE a.locked]

MistypeLogin(p) ==
  LET n == <<p, "password">> IN
  /\ mistakes < Mistakes
  /\ Allowed(n)
  /\ Open(p)
  /\ attempts' = Recorded(n)
  /\ account' = [account EXCEPT ![p] = Failed(account[p])]
  /\ mistakes' = mistakes + 1
  /\ UNCHANGED session

\* The gateway vouches for p; no lock is asked for and none is lifted.
WindowsLogin(b, p) ==
  LET n == <<p, "windows">> IN
  /\ Allowed(n)
  /\ account[p].active
  /\ attempts' = Recorded(n)
  /\ account' = [account EXCEPT ![p].failed = 0]
  /\ Established(b, p)
  /\ UNCHANGED mistakes

-----------------------------------------------------------------------------
(* Requests                                                                *)

\* A defect to test SessionsAreCurrent with: the fingerprint is not compared.
ValidDefect(s) ==
  /\ s.user # Nobody
  /\ s.idle <= Idle /\ s.age <= Lifetime
  /\ account[s.user].active

Valid(s) ==
  /\ s.user # Nobody
  /\ s.idle <= Idle /\ s.age <= Lifetime
  /\ account[s.user].active
  /\ s.password = account[s.user].password

\* Any request keeps a valid session awake and ends another one.
Request(b) ==
  /\ session[b].user # Nobody
  /\ session' = [session EXCEPT ![b] = IF Valid(session[b]) THEN [@ EXCEPT !.idle = 0] ELSE NoSession]
  /\ UNCHANGED <<account, attempts, mistakes>>

Logout(b) ==
  /\ session[b].user # Nobody
  /\ session' = [session EXCEPT ![b] = NoSession]
  /\ UNCHANGED <<account, attempts, mistakes>>

\* The password once more, for a sensitive action (FR-126).
StepUp(b) ==
  LET p == session[b].user IN
  /\ Valid(session[b]) /\ Open(p)
  /\ account' = [account EXCEPT ![p].failed = 0]
  /\ session' = [session EXCEPT ![b].idle = 0]
  /\ UNCHANGED <<attempts, mistakes>>

MistypeStepUp(b) ==
  LET p == session[b].user IN
  /\ mistakes < Mistakes
  /\ Valid(session[b]) /\ Open(p)
  /\ account' = [account EXCEPT ![p] = Failed(account[p])]
  /\ session' = [session EXCEPT ![b].idle = 0]
  /\ mistakes' = mistakes + 1
  /\ UNCHANGED attempts

\* The owner replaces the password and is signed out in this browser.
ChangePassword(b) ==
  LET p == session[b].user IN
  /\ Valid(session[b])
  /\ account[p].password < LastPassword
  /\ account' = [account EXCEPT ![p].password = @ + 1]
  /\ session' = [session EXCEPT ![b] = NoSession]
  /\ UNCHANGED <<attempts, mistakes>>

-----------------------------------------------------------------------------
(* The administrator, and time                                             *)

ResetPassword(p) ==
  /\ account[p].password < LastPassword
  /\ account' = [account EXCEPT ![p] =
       [account[p] EXCEPT !.password = @ + 1, !.failed = 0, !.locked = 0]]
  /\ UNCHANGED <<attempts, session, mistakes>>

Deactivate(p) ==
  /\ account[p].active
  /\ account' = [account EXCEPT ![p].active = FALSE]
  /\ session' = [b \in Browsers |->
       IF session[b].user = p THEN [session[b] EXCEPT !.ended = TRUE] ELSE session[b]]
  /\ UNCHANGED <<attempts, mistakes>>

Activate(p) ==
  /\ ~account[p].active
  /\ account' = [account EXCEPT ![p].active = TRUE]
  /\ UNCHANGED <<attempts, session, mistakes>>

Older(n, bound) == IF n > bound THEN n ELSE n + 1

Tick ==
  /\ account' = [p \in People |->
       [account[p] EXCEPT !.locked = IF @ > 0 THEN @ - 1 ELSE 0]]
  /\ attempts' = [k \in Keys |-> <<0>> \o Front(attempts[k])]
  /\ session' = [b \in Browsers |->
       IF session[b].user = Nobody THEN NoSession
       ELSE [session[b] EXCEPT !.idle = Older(@, Idle), !.age = Older(@, Lifetime)]]
  /\ UNCHANGED mistakes

-----------------------------------------------------------------------------

Init ==
  /\ account = [p \in People |-> [active |-> TRUE, password |-> 1, failed |-> 0, locked |-> 0]]
  /\ attempts = [k \in Keys |-> [i \in 1 .. Window(k) |-> 0]]
  /\ session = [b \in Browsers |-> NoSession]
  /\ mistakes = 0

Next ==
  \/ Tick
  \/ \E n \in Names : Refuse(n)
  \/ \E p \in People :
       \/ LoginInVain(p) \/ MistypeLogin(p)
       \/ ResetPassword(p) \/ Deactivate(p) \/ Activate(p)
       \/ \E b \in Browsers : Login(b, p) \/ WindowsLogin(b, p)
  \/ \E b \in Browsers :
       Request(b) \/ Logout(b) \/ StepUp(b) \/ MistypeStepUp(b) \/ ChangePassword(b)

Spec == Init /\ [][Next]_vars

\* Time passes, and whoever tries again and again is not always the one who comes
\* too late for the last attempt that the limit of the address leaves.
LiveSpec ==
  /\ Spec
  /\ WF_vars(Tick)
  /\ \A p \in People : SF_vars(\E b \in Browsers : Login(b, p))

-----------------------------------------------------------------------------

Served(b) == Request(b) /\ Valid(session[b])

\* Something was done in the session of b, and it goes on.
GoesOn(b) ==
  /\ Request(b) \/ StepUp(b) \/ MistypeStepUp(b)
  /\ session'[b].user # Nobody

\* FR-163, SEC-001: a session that goes on after something was done in it is that of an active
\* account, with the password that it had at the sign-in, whatever happened to it in between.
SessionsAreCurrent ==
  [][\A b \in Browsers : GoesOn(b) =>
       /\ account'[session'[b].user].active
       /\ session'[b].password = account'[session'[b].user].password]_vars

\* FR-004, FR-126: while an account is locked no password of it is compared, at the
\* sign-in and at the step-up; only a Windows sign-in forgets the failures.
LockedIsLocked ==
  [][\A p \in People : account[p].locked > 0 /\ account'[p].locked > 0 =>
       account'[p].failed \in {account[p].failed, 0}]_vars

IsIn(p) == account[p].active => \E b \in Browsers : session[b].user = p

\* FR-004 and the rate limits delay a person and never keep them out: with an account
\* that stays active one is signed in again and again.
EverybodyGetsIn == \A p \in People : TRUE ~> IsIn(p)

\* FR-004: it takes five failures to lock an account, also after a lock has run out.
FiveFailuresLock ==
  [][\A p \in People : account[p].locked = 0 /\ account'[p].locked > 0 =>
       account'[p].failed = Threshold]_vars

\* FR-158: a session that was open when its account was deactivated is served no more.
DeactivationEndsSessions ==
  [][\A b \in Browsers : Served(b) => ~session[b].ended]_vars
=============================================================================
