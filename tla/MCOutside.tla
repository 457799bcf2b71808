------------------------------ MODULE MCOutside -------------------------------
(***************************************************************************)
(* A small house for the model checker: an Administrator and a Chief       *)
(* Engineer who stay what they are, and a colleague who becomes anything.  *)
(***************************************************************************)
EXTENDS Outside

CONSTANTS ada, carl, mo

Colleagues == {ada, carl, mo}

Staff == [u \in Colleagues |-> [state |-> "ACTIVE", controls |-> FALSE,
                                role |-> CASE u = ada -> "ADMINISTRATOR"
                                           [] u = carl -> "CHIEF_ENGINEER"
                                           [] OTHER -> "VIEWER"]]

MayBecome == [u \in Colleagues |-> IF u = mo THEN Roles ELSE {}]
=============================================================================
