------------------------------ MODULE Accounts ------------------------------
(***************************************************************************)
(* People, their roles and the delegations between them.                   *)
(*                                                                         *)
(* A `user` row is reduced to what a decision asks of it: whether the      *)
(* account exists and is active, the one role it holds, and whether it     *)
(* carries the CONTROLS engineering domain (the only domain that owns      *)
(* fields).  A `delegation` row keeps the role that was copied from the    *)
(* delegator when it was created; it is in the set from its creation until *)
(* its period ends or it is revoked, and in force once its period began.   *)
(*                                                                         *)
(* Every write request runs in one BEGIN IMMEDIATE transaction, in which   *)
(* the actor is loaded too, so each operation is one step.                 *)
(***************************************************************************)
EXTENDS Naturals, FiniteSets

CONSTANTS
  Users,            \* the account ids that can ever be used
  Nobody,           \* a NULL foreign key to user
  Candidates,       \* bound: the roles a person may hold; the account of a
                    \* person with none is never changed
  InitialAccount,   \* the accounts the installation starts with
  MaxDelegations    \* bound: delegations that are not over or revoked

Roles == {"ADMINISTRATOR", "STCD_OWNER", "CHIEF_ENGINEER", "REVIEWER",
          "ENGINEER", "VIEWER"}

OwnerAssignable == {"VIEWER", "ENGINEER", "REVIEWER"}

DelegableRoles == {"REVIEWER", "ADMINISTRATOR", "CHIEF_ENGINEER"}

Account == [state: {"NONE", "ACTIVE", "INACTIVE", "DELETED"},
            role: Roles,
            controls: BOOLEAN]

Delegation == [delegator: Users, delegate: Users, role: DelegableRoles,
               begun: BOOLEAN]

ASSUME AccountsAssumption ==
  /\ Nobody \notin Users
  /\ Candidates \in [Users -> SUBSET Roles]
  /\ InitialAccount \in [Users -> Account]
  /\ \E u \in Users : /\ InitialAccount[u].state = "ACTIVE"
                      /\ InitialAccount[u].role = "ADMINISTRATOR"
  /\ MaxDelegations \in Nat

VARIABLES
  account,      \* the table `user`
  delegations   \* the delegations that are not over or revoked

accountVars == <<account, delegations>>

AccountsTypeOK ==
  /\ account \in [Users -> Account]
  /\ delegations \subseteq Delegation

AccountsInit ==
  /\ account = InitialAccount
  /\ delegations = {}

-----------------------------------------------------------------------------

\* A request is served only for an active account (every request checks it).
SignedIn(u) == account[u].state = "ACTIVE"

HasRole(u, roles) == SignedIn(u) /\ account[u].role \in roles

\* get_or_404: an account that exists and has not been erased.
Known(u) == account[u].state \in {"ACTIVE", "INACTIVE"}

\* The delegations `user` may act on today: their delegator is still active.
ActiveDelegations(user) ==
  {d \in delegations : /\ d.begun /\ d.delegate = user
                       /\ account[d.delegator].state = "ACTIVE"}

\* The people for whom `user` may take the decisions of `role`.
DelegatorsFor(user, role) ==
  {d.delegator : d \in {e \in ActiveDelegations(user) : e.role = role}}

\* The actor holds `role`, or covers for somebody who delegated it.
MayDecideAs(user, role) ==
  /\ SignedIn(user)
  /\ \/ account[user].role = role
     \/ DelegatorsFor(user, role) # {}

\* A defect to test SomeAdministrator with: accounts that are switched off count.
AnotherAdministratorDefect(user) ==
  \E v \in Users \ {user} : account[v].role = "ADMINISTRATOR"

\* Somebody other than `user` is an active Administrator.
AnotherAdministrator(user) ==
  \E v \in Users \ {user} : HasRole(v, {"ADMINISTRATOR"})

MayChangeRole(actorRole, current, new) ==
  \/ actorRole = "ADMINISTRATOR"
  \/ /\ actorRole = "STCD_OWNER"
     /\ {current, new} \subseteq OwnerAssignable

-----------------------------------------------------------------------------

\* Only the Administrator's user page creates accounts.
CreateUser(actor, u, role, controls) ==
  /\ HasRole(actor, {"ADMINISTRATOR"})
  /\ account[u].state = "NONE"
  /\ role \in Candidates[u]
  /\ account' = [account EXCEPT ![u] =
                   [state |-> "ACTIVE", role |-> role, controls |-> controls]]
  /\ UNCHANGED delegations

\* One request may change the role, the domain tags and the active flag; each
\* is checked against what the request has already changed.
UpdateUser(actor, u, role, controls, state) ==
  LET old == account[u]
      becomesInactive == old.state = "ACTIVE" /\ state = "INACTIVE"
  IN
  /\ HasRole(actor, {"ADMINISTRATOR", "STCD_OWNER"})
  /\ Known(u)
  /\ role \in Candidates[u]
  /\ state \in {"ACTIVE", "INACTIVE"}
  /\ account[actor].role = "STCD_OWNER" =>
       controls = old.controls /\ state = old.state
  /\ role # old.role =>
       /\ MayChangeRole(account[actor].role, old.role, role)
       /\ old.role = "ADMINISTRATOR" => AnotherAdministrator(u)
  /\ (becomesInactive /\ role = "ADMINISTRATOR") => AnotherAdministrator(u)
  /\ account' = [account EXCEPT ![u] =
                   [state |-> state, role |-> role, controls |-> controls]]
  /\ UNCHANGED delegations

\* An account with history is erased in place: it loses its domain tags and
\* can never be used again.  One without history is removed; as nothing refers
\* to it, the difference cannot be seen here.
DeleteUser(actor, u) ==
  /\ HasRole(actor, {"ADMINISTRATOR"})
  /\ Known(u)
  /\ Candidates[u] # {}
  /\ u # actor
  /\ HasRole(u, {"ADMINISTRATOR"}) => AnotherAdministrator(u)
  /\ account' = [account EXCEPT ![u].state = "DELETED", ![u].controls = FALSE]
  /\ UNCHANGED delegations

\* The delegation keeps the role its delegator holds at this moment; its period
\* may begin today or later.
CreateDelegation(actor, from, to, begun) ==
  /\ SignedIn(actor)
  /\ actor = from \/ HasRole(actor, {"ADMINISTRATOR"})
  /\ account[from].state # "NONE"
  /\ account[from].role \in DelegableRoles
  /\ to # from
  /\ SignedIn(to)
  /\ account[to].role # "VIEWER"
  /\ delegations' = delegations \union
       {[delegator |-> from, delegate |-> to, role |-> account[from].role,
         begun |-> begun]}
  /\ Cardinality(delegations') <= MaxDelegations
  /\ UNCHANGED account

RevokeDelegation(actor, d) ==
  /\ SignedIn(actor)
  /\ d \in delegations
  /\ actor = d.delegator \/ HasRole(actor, {"ADMINISTRATOR"})
  /\ delegations' = delegations \ {d}
  /\ UNCHANGED account

\* The first day of the period has come.
DelegationBegins(d) ==
  /\ d \in delegations
  /\ ~d.begun
  /\ delegations' = (delegations \ {d}) \union {[d EXCEPT !.begun = TRUE]}
  /\ UNCHANGED account

\* The last day of the period has passed.
DelegationEnds(d) ==
  /\ d \in delegations
  /\ d.begun
  /\ delegations' = delegations \ {d}
  /\ UNCHANGED account

AccountsNext ==
  \/ \E actor, u \in Users, role \in Roles, controls \in BOOLEAN :
       \/ CreateUser(actor, u, role, controls)
       \/ \E state \in {"ACTIVE", "INACTIVE"} :
            UpdateUser(actor, u, role, controls, state)
  \/ \E actor, u \in Users : DeleteUser(actor, u)
  \/ \E actor, from, to \in Users, begun \in BOOLEAN :
       CreateDelegation(actor, from, to, begun)
  \/ \E actor \in Users : \E d \in delegations : RevokeDelegation(actor, d)
  \/ \E d \in delegations : DelegationBegins(d) \/ DelegationEnds(d)
=============================================================================
