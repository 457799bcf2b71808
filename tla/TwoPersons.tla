----------------------------- MODULE TwoPersons ------------------------------
(***************************************************************************)
(* A text that two people answer for (BR-018): one wrote it, another one   *)
(* approved it, and whoever writes again takes the approval away.  The     *)
(* modules Translations and Terminology implement it.                      *)
(***************************************************************************)
CONSTANTS People, Texts, NoText, Nobody

VARIABLES text, writer, approver

twoVars == <<text, writer, approver>>

\* A text may be there from the beginning; nobody wrote it then.
Init ==
  /\ text \in Texts \union {NoText}
  /\ writer = Nobody /\ approver = Nobody

Write ==
  /\ text' \in Texts
  /\ writer' \in People
  /\ approver' = Nobody

Approve ==
  /\ text # NoText /\ approver = Nobody
  /\ approver' \in People \ {writer}
  /\ UNCHANGED <<text, writer>>

Reopen ==
  /\ approver' = Nobody
  /\ UNCHANGED <<text, writer>>

Next == Write \/ Approve \/ Reopen

\* What a text that is one of many does in a step of all of them.
Step == [Next]_twoVars

Spec == Init /\ [][Next]_twoVars
=============================================================================
