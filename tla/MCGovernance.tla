---------------------------- MODULE MCGovernance ----------------------------
(***************************************************************************)
(* Small installations for the model checker: who works there, whose       *)
(* account may change, and bands that follow each other.                   *)
(***************************************************************************)
EXTENDS Governance, TLC

CONSTANTS
  Administrators, Engineers, Reviewers, Chiefs, Owners,  \* the staff at the start
  Newcomers,    \* people without an account yet
  Experts,      \* the people with the CONTROLS engineering domain
  Movers,       \* bound: the people whose account may change
  MoverRoles,   \* bound: the roles these may be given
  Width         \* bound: numbers per band

People == UNION {Administrators, Engineers, Reviewers, Chiefs, Owners, Newcomers}

FirstRole(u) ==
  CASE u \in Administrators -> "ADMINISTRATOR"
    [] u \in Engineers -> "ENGINEER"
    [] u \in Reviewers -> "REVIEWER"
    [] u \in Chiefs -> "CHIEF_ENGINEER"
    [] u \in Owners -> "STCD_OWNER"
    [] OTHER -> "VIEWER"

Staff == [u \in People |-> [state |-> IF u \in Newcomers THEN "NONE" ELSE "ACTIVE",
                            role |-> FirstRole(u),
                            controls |-> u \in Experts]]

MayBecome == [u \in People |-> IF u \in Movers THEN MoverRoles ELSE {}]

\* The bands of the instance, in some order, one behind the other.
Place == CHOOSE place \in [Bands -> 1 .. Cardinality(Bands)] :
           \A a, b \in Bands : a # b => place[a] # place[b]

First == [b \in Bands |-> (Place[b] - 1) * Width + 1]

Last == [b \in Bands |-> Place[b] * Width]

\* Codes and releases are interchangeable: nothing compares two ids.
Interchangeable == Permutations(Codes) \union Permutations(ReleaseIds)
=============================================================================
