------------------------------- MODULE MCWork -------------------------------
(***************************************************************************)
(* Small instances of the work for the model checker: one row of the       *)
(* mapping and two requests; one request decided in bulk under two         *)
(* samples; two editors; two Hub codes and two Main codes; one code with   *)
(* somebody to be reminded; two texts of two revisions, two terms, one     *)
(* string; two bands and two versions.                                     *)
(***************************************************************************)
EXTENDS Work

CONSTANTS ada, abe, cy, ed, owen, rae, r1, t1, c1, s1

Account(role) == [state |-> "ACTIVE", role |-> role, controls |-> role \in {"ADMINISTRATOR", "ENGINEER"}]

RoleOf(u) ==
  CASE u \in {ada, abe} -> "ADMINISTRATOR"
    [] u = cy -> "CHIEF_ENGINEER"
    [] u = ed -> "ENGINEER"
    [] u = owen -> "STCD_OWNER"
    [] OTHER -> "REVIEWER"

NoMoves(people) == [u \in people |-> {}]

Staff(people) == [u \in people |-> Account(RoleOf(u))]

MapStaff == Staff({ada, abe, cy, owen})
MapMoves == NoMoves({ada, abe, cy, owen})
BulkStaff == Staff({ed, rae})
BulkMoves == NoMoves({ed, rae})
HomeStaff == Staff({ada, cy, ed, rae})
HomeMoves == NoMoves({ada, cy, ed, rae})

MappedRow(n) == [core |-> [number |-> n, legacy |-> 7, text |-> t1], version |-> 1,
                 status |-> "PROPOSED"]

OneRow == {[r \in {r1} |-> MappedRow(1)]}
Renumbered == {{MappedRow(2).core}}

OneNumber == [b \in {"01000"} |-> 1]

\* A request of ed's under review, with its domain sign-off.
InReview ==
  [c \in {c1} |-> [n \in 1 .. 1 |->
    [status |-> "REVIEW", current |-> TRUE, deprecation |-> FALSE, platforms |-> TRUE,
     cr |-> TRUE, author |-> ed, assigned |-> Nobody, controls |-> ed,
     reviewer |-> Nobody, admin |-> Nobody, chief |-> Nobody]]]

OneProgram == [c \in {c1} |-> 1]

Everything == {{<<c1, 1>>}}

\* Where a part may start in several states it waits in one of them; two texts, or two
\* versions, are interchangeable at the start.
FirstState ==
  /\ Init
  /\ shipped[s1] = t1
  /\ version["4.0"].order = 1
  /\ scene # "versioning" => version["4.2"].order = 1

WorkSpec == FirstState /\ [][Next]_vars
=============================================================================
