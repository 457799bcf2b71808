------------------------------ MODULE Sampling -------------------------------
(***************************************************************************)
(* How many requests of each subgroup a sample holds: BulkService.         *)
(* _stratified, loop by loop.  Shares that tie are taken in any order, as  *)
(* the code compares them in floating point.                               *)
(***************************************************************************)
EXTENDS Naturals, FiniteSets

CONSTANTS
  Groups,     \* the subgroups of the batch, in their order
  MaxMembers  \* bound: requests of a subgroup

\* What the constants are; assumed by the module that gives them values.
SamplingAssumption ==
  Groups \subseteq Nat /\ IsFiniteSet(Groups) /\ MaxMembers \in Nat \ {0}

VARIABLES
  members,  \* how many requests of the batch each subgroup has
  size,     \* how many are to be drawn
  quota,    \* how many are taken from each subgroup
  visited   \* the subgroups this round of raising has seen

vars == <<members, size, quota, visited>>

\* How many there are in all, counted one by one.
Total(f) == Cardinality(UNION {{k} \X (1 .. f[k]) : k \in Groups})

TypeOK ==
  /\ members \in [Groups -> 1 .. MaxMembers]
  /\ size \in 1 .. Total(members)
  /\ quota \in [Groups -> 0 .. Total(members)]
  /\ visited \subseteq Groups

\* A defect to test TypeOK with: the division by the total is forgotten.
ShareDefect(k) == size * members[k]

\* The whole part of a subgroup's share, and what is left of it (of `Total`).
Share(k) == (size * members[k]) \div Total(members)

Remainder(k) == (size * members[k]) % Total(members)

EverySubgroupFits == size >= Cardinality(Groups)

Init ==
  /\ members \in [Groups -> 1 .. MaxMembers]
  /\ size \in 1 .. Total(members)
  /\ quota = [k \in Groups |->
       IF EverySubgroupFits /\ Share(k) = 0 THEN 1 ELSE Share(k)]
  /\ visited = {}

\* A defect to test SampleIsDrawn with: the last one of a subgroup is never taken.
MayRaiseDefect(k) == quota[k] + 1 < members[k]

MayRaise(k) == quota[k] < members[k]

\* A sample that is too small gets one more of the next subgroup in the order of
\* the remainders, where the subgroup has one.
Raise ==
  /\ Total(quota) < size
  /\ \E k \in Groups \ visited :
       /\ \A j \in Groups \ visited : Remainder(j) <= Remainder(k)
       /\ quota' = IF MayRaise(k) THEN [quota EXCEPT ![k] = @ + 1] ELSE quota
       /\ visited' = IF visited \union {k} = Groups THEN {} ELSE visited \union {k}
  /\ UNCHANGED <<members, size>>

\* A defect to test Represented with: the smallest quota pays.
LargestDefect(k) == \A j \in Groups : quota[k] <= quota[j]

Largest(k) == \A j \in Groups : quota[k] > quota[j] \/ (quota[k] = quota[j] /\ k >= j)

\* One that is too large gives up one of its largest quota.
Lower ==
  /\ Total(quota) > size
  /\ \E k \in Groups : Largest(k) /\ quota' = [quota EXCEPT ![k] = @ - 1]
  /\ UNCHANGED <<members, size, visited>>

Next == Raise \/ Lower

Spec == Init /\ [][Next]_vars /\ WF_vars(Next)

-----------------------------------------------------------------------------

Finished == Total(quota) = size

\* FR-180: every part of the controller is looked at: no quota asks for more than
\* its subgroup has, and none is empty if the sample is large enough.
Represented ==
  Finished => \A k \in Groups :
    /\ quota[k] <= members[k]
    /\ EverySubgroupFits => quota[k] >= 1

\* FR-180: the quotas are in proportion to the shares: none exceeds its own by a
\* whole request.
Proportional ==
  Finished => \A k \in Groups :
    quota[k] * Total(members) < size * members[k] + Total(members)

\* Both loops come to an end: a sample of the wanted size is drawn.
SampleIsDrawn == <>Finished
=============================================================================
