----------------------------- MODULE Lifecycle ------------------------------
(***************************************************************************)
(* What the governance of status codes promises (BR-002 to BR-007 of the   *)
(* requirements, the transition table of the lifecycle), without accounts, *)
(* roles, numbers, assignments or change requests: revisions that move     *)
(* through seven states, and four different people behind every one that   *)
(* was decided.  Module Governance implements it.                          *)
(***************************************************************************)
EXTENDS Naturals

CONSTANTS Codes, RevNo, People

VARIABLES
  status,   \* status[c][n]: the state of revision n of code c, or "NONE"
  signed    \* signed[c][n]: the set of <<part, person>> recorded on it

lifecycleVars == <<status, signed>>

UnderWay == {"DRAFT", "REVIEW", "PENDING_APPROVAL"}

\* A person for each part: who wrote it, and who decided at the three points.
Parts == {"AUTHOR", "REVIEWER", "ADMIN", "CHIEF"}

Init ==
  /\ status = [c \in Codes |-> [n \in RevNo |-> "NONE"]]
  /\ signed = [c \in Codes |-> [n \in RevNo |-> {}]]

Moves(c, n, to, by) ==
  /\ status' = [status EXCEPT ![c][n] = to]
  /\ signed' = [signed EXCEPT ![c][n] = by]

\* The entries of the other parts.
Others(c, n, part) == {e \in signed[c][n] : e[1] # part}

HasSigned(c, n, part) == \E e \in signed[c][n] : e[1] = part

\* A person who holds no other part.
MaySign(u, c, n, part) == \A e \in Others(c, n, part) : e[2] # u

-----------------------------------------------------------------------------

\* The next revision of a code, while no other is under way.
Begin(c, n, u) ==
  /\ \A m \in RevNo : status[c][m] \notin UnderWay
  /\ \A m \in RevNo : m >= n <=> status[c][m] = "NONE"
  /\ Moves(c, n, "DRAFT", {<<"AUTHOR", u>>})

Abandon(c, n) ==
  /\ status[c][n] \in UnderWay
  /\ Moves(c, n, "NONE", {})

SubmitForReview(c, n) ==
  /\ status[c][n] = "DRAFT"
  /\ Moves(c, n, "REVIEW", signed[c][n])

\* One of the two sign-offs; the second moves the revision on.
SignOff(c, n, part, u) ==
  /\ status[c][n] = "REVIEW"
  /\ MaySign(u, c, n, part)
  /\ \E other \in {"REVIEWER", "ADMIN"} \ {part} :
       Moves(c, n, IF HasSigned(c, n, other) THEN "PENDING_APPROVAL" ELSE "REVIEW",
             Others(c, n, part) \union {<<part, u>>})

\* A rejection makes every earlier sign-off void.
Reject(c, n) ==
  /\ status[c][n] \in {"REVIEW", "PENDING_APPROVAL"}
  /\ Moves(c, n, "DRAFT", {e \in signed[c][n] : e[1] = "AUTHOR"})

Approve(c, n, u) ==
  /\ status[c][n] = "PENDING_APPROVAL"
  /\ MaySign(u, c, n, "CHIEF")
  /\ \E to \in {"APPROVED", "DEPRECATED"} :
       Moves(c, n, to, Others(c, n, "CHIEF") \union {<<"CHIEF", u>>})

Retire(c, n) ==
  /\ status[c][n] = "DEPRECATED"
  /\ \E to \in {"ARCHIVED", "RELEASED"} : Moves(c, n, to, signed[c][n])

\* All the revisions of a release become Released together.
ReleaseTogether(S) ==
  /\ \A p \in S : status[p[1]][p[2]] = "APPROVED"
  /\ status' = [c \in Codes |-> [n \in RevNo |->
                  IF <<c, n>> \in S THEN "RELEASED" ELSE status[c][n]]]
  /\ UNCHANGED signed

Next ==
  \/ \E c \in Codes, n \in RevNo :
       \/ Abandon(c, n)
       \/ SubmitForReview(c, n)
       \/ Reject(c, n)
       \/ Retire(c, n)
       \/ \E u \in People :
            \/ Begin(c, n, u)
            \/ \E part \in {"REVIEWER", "ADMIN"} : SignOff(c, n, part, u)
            \/ Approve(c, n, u)
  \/ \E S \in SUBSET (Codes \X RevNo) : ReleaseTogether(S)

Spec == Init /\ [][Next]_lifecycleVars
=============================================================================
