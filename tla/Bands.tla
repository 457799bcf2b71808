-------------------------------- MODULE Bands --------------------------------
(***************************************************************************)
(* The number bands themselves (lookup_admin_service) under the numbering  *)
(* that lives on them (numbering_service): an Administrator adds groups    *)
(* and subgroups and switches them off and on while codes draw numbers     *)
(* from them and imports reserve numbers in them.                          *)
(*                                                                         *)
(* Catalogue has the same numbering over fixed bands that it assumes to be *)
(* disjoint; here it can be seen how far the code makes that true.         *)
(***************************************************************************)
EXTENDS Naturals, FiniteSets, FiniteSetsExt

CONSTANTS
  MaxNumber,   \* bound: numbers
  Groups,      \* ids of functional system groups
  Subgroups,   \* ids of functional subgroups
  Codes        \* ids of status codes

\* What the constants are; assumed by the module that gives them values.
BandsAssumption ==
  /\ MaxNumber \in Nat
  /\ Groups # {} /\ Subgroups # {} /\ Subgroups \subseteq Nat

VARIABLES
  group,      \* group -> exists, range, is_active
  subgroup,   \* subgroup -> exists, its group, sub-range, is_active
  code        \* code -> exists, its subgroup, identifier (0: none), reserved_identifier
vars == <<group, subgroup, code>>

Numbers == 1 .. MaxNumber
NoGroup == [exists |-> FALSE, first |-> 1, last |-> 1, active |-> FALSE]
NoSubgroup == [exists |-> FALSE, group |-> CHOOSE g \in Groups : TRUE, first |-> 1, last |-> 1,
               active |-> FALSE]
NoCode == [exists |-> FALSE, sub |-> CHOOSE s \in Subgroups : TRUE, number |-> 0, reserved |-> 0]

Init ==
  /\ group = [g \in Groups |-> NoGroup]
  /\ subgroup = [s \in Subgroups |-> NoSubgroup]
  /\ code = [c \in Codes |-> NoCode]

Overlap(r, first, last) == r.exists /\ r.first <= last /\ r.last >= first
Band(s) == subgroup[s].first .. subgroup[s].last
GroupOf(c) == subgroup[code[c].sub].group

----------------------------------------------------------------------------
(* lookup_admin_service *)
create_functional_system_group(g, first, last) ==
  /\ ~group[g].exists
  /\ first < last
  /\ \A h \in Groups : ~Overlap(group[h], first, last)
  /\ group' = [group EXCEPT ![g] = [exists |-> TRUE, first |-> first, last |-> last, active |-> TRUE]]
  /\ UNCHANGED <<subgroup, code>>

\* A defect to test BandsAreDisjoint with: subgroups that are switched off are forgotten.
SubgroupConflictDefect(g, first, last) ==
  \E t \in Subgroups : subgroup[t].group = g /\ subgroup[t].active /\ Overlap(subgroup[t], first, last)

SubgroupConflict(g, first, last) ==
  \E t \in Subgroups : subgroup[t].group = g /\ Overlap(subgroup[t], first, last)

(* Active or not, only the subgroups of the same group count, and the range of the group does not. *)
create_functional_subgroup(s, g, first, last) ==
  /\ ~subgroup[s].exists
  /\ group[g].exists /\ group[g].active
  /\ first < last
  /\ ~SubgroupConflict(g, first, last)
  /\ subgroup' = [subgroup EXCEPT ![s] = [exists |-> TRUE, group |-> g, first |-> first,
                                          last |-> last, active |-> TRUE]]
  /\ UNCHANGED <<group, code>>

(* update_value never touches a range. *)
update_group(g) ==
  /\ group[g].exists
  /\ group' = [group EXCEPT ![g].active = ~@]
  /\ UNCHANGED <<subgroup, code>>

update_subgroup(s) ==
  /\ subgroup[s].exists
  /\ subgroup' = [subgroup EXCEPT ![s].active = ~@]
  /\ UNCHANGED <<group, code>>

----------------------------------------------------------------------------
(* numbering_service *)
Issued(n) == \E c \in Codes : code[c].number = n
Reserved(n) == \E c \in Codes : code[c].reserved = n
InBand(s) == {code[c].number : c \in {d \in Codes : /\ code[d].number \in Band(s)
                                                    /\ GroupOf(d) = subgroup[s].group}}
current_max(s) == IF InBand(s) = {} THEN subgroup[s].first - 1 ELSE Max(InBand(s))
Free(s) == {n \in current_max(s) + 1 .. subgroup[s].last : ~Reserved(n)}

\* A defect to test NumbersAgree with: reservations are not skipped.
allocate_next_identifierDefect(s) ==
  {n \in Band(s) : n = current_max(s) + 1}

(* The next number, none when the band is exhausted. *)
allocate_next_identifier(s) == IF Free(s) = {} THEN {} ELSE {Min(Free(s))}

validate_manual_identifier(c) ==
  {n \in Band(code[c].sub) : ~Issued(n) /\ \A d \in Codes \ {c} : code[d].reserved # n}

\* A defect to test NumbersStayInTheirBand with: a group that is switched off places programs, too,
\* and the subgroup found is the first of the group.
band_ofDefect(n) ==
  LET holding == {s \in Subgroups : subgroup[s].exists /\ n \in Band(s)}
  IN  IF holding = {} THEN {} ELSE {Min({s \in Subgroups : subgroup[s].exists})}

\* A defect to test BandsTypeOK with: a number that no band holds is imported without a subgroup.
band_ofNone(n) ==
  LET holding == {s \in Subgroups : subgroup[s].active /\ n \in Band(s)}
  IN  IF holding = {} THEN {0} ELSE {Min(holding)}

(* The first active subgroup whose band holds the number of a program. *)
band_of(n) ==
  LET holding == {s \in Subgroups : subgroup[s].active /\ group[subgroup[s].group].active
                                    /\ n \in Band(s)}
  IN  IF holding = {} THEN {} ELSE {Min(holding)}

remaining(s) == subgroup[s].last - current_max(s)

----------------------------------------------------------------------------
(* The codes: drafts written by hand, programs imported with their number. *)
create_draft(c, s) ==
  /\ ~code[c].exists
  /\ subgroup[s].active /\ group[subgroup[s].group].active
  /\ code' = [code EXCEPT ![c] = [NoCode EXCEPT !.exists = TRUE, !.sub = s]]
  /\ UNCHANGED <<group, subgroup>>

import_program(c, n) ==
  /\ ~code[c].exists
  /\ ~Issued(n) /\ ~Reserved(n)
  /\ \E s \in band_of(n) :
       code' = [code EXCEPT ![c] = [exists |-> TRUE, sub |-> s, number |-> 0, reserved |-> n]]
  /\ UNCHANGED <<group, subgroup>>

(* Submit for Review; status_code_identifier is unique, so a number somebody has fails. *)
submit(c, n) ==
  /\ code[c].exists /\ code[c].number = 0
  /\ IF code[c].reserved # 0 THEN n = code[c].reserved /\ n \in validate_manual_identifier(c)
     ELSE n \in allocate_next_identifier(code[c].sub) \union validate_manual_identifier(c)
  /\ ~Issued(n)
  /\ code' = [code EXCEPT ![c].number = n]
  /\ UNCHANGED <<group, subgroup>>

\* The last revision is withdrawn before a number was issued; the code may come back by hand.
withdraw(c) ==
  /\ code[c].exists /\ code[c].number = 0 /\ code[c].reserved # 0
  /\ code' = [code EXCEPT ![c].reserved = 0]
  /\ UNCHANGED <<group, subgroup>>

Next ==
  \/ \E g \in Groups : \/ update_group(g)
                       \/ \E first, last \in Numbers : create_functional_system_group(g, first, last)
  \/ \E s \in Subgroups : \/ update_subgroup(s)
                          \/ \E g \in Groups, first, last \in Numbers :
                               create_functional_subgroup(s, g, first, last)
  \/ \E c \in Codes : \/ \E s \in Subgroups : create_draft(c, s)
                      \/ \E n \in Numbers : import_program(c, n) \/ submit(c, n)
                      \/ withdraw(c)

Spec == Init /\ [][Next]_vars

----------------------------------------------------------------------------
BandsTypeOK ==
  /\ group \in [Groups -> [exists: BOOLEAN, first: Numbers, last: Numbers, active: BOOLEAN]]
  /\ subgroup \in [Subgroups -> [exists: BOOLEAN, group: Groups, first: Numbers, last: Numbers,
                                 active: BOOLEAN]]
  /\ code \in [Codes -> [exists: BOOLEAN, sub: Subgroups, number: Numbers \union {0},
                         reserved: Numbers \union {0}]]

(* BR-014, FR-048h: no two groups share a number, and no two subgroups of one group, those that are
   switched off included (lookup_admin_service and the triggers of the schema). *)
BandsAreDisjoint ==
  /\ \A g, h \in Groups : (g # h /\ group[g].exists) => ~Overlap(group[h], group[g].first, group[g].last)
  /\ \A s, t \in Subgroups :
       (s # t /\ subgroup[s].exists /\ subgroup[t].group = subgroup[s].group)
         => ~Overlap(subgroup[t], subgroup[s].first, subgroup[s].last)

(* BR-001, BR-023: however the bands are laid, a number is one code's and one that is reserved is
   nobody else's (numbering_service). *)
NumbersAgree ==
  \A c, d \in Codes : (c # d /\ code[c].number # 0)
                        => code[c].number \notin {code[d].number, code[d].reserved}

(* A number, issued or reserved, lies in the band of its code's subgroup, whatever is switched off
   or added (_resolve_range, band_of). *)
NumbersStayInTheirBand ==
  \A c \in Codes : {code[c].number, code[c].reserved} \subseteq Band(code[c].sub) \union {0}

(* Numbers never overflow "into a neighboring group" (numbering_service). *)
NumbersStayInTheirGroup ==
  \A c \in Codes : code[c].number # 0
    => code[c].number \in group[GroupOf(c)].first .. group[GroupOf(c)].last

(* What the form shows as the remaining capacity can be issued (numbering_service.capacity, FR-141). *)
RemainingCanBeIssued ==
  \A s \in Subgroups : (subgroup[s].exists /\ remaining(s) > 0)
    => \E n \in allocate_next_identifier(s) : ~Issued(n)
=============================================================================
