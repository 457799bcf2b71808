----------------------------- MODULE Connections -----------------------------
(***************************************************************************)
(* How status codes are connected (connection_service): the suppressions   *)
(* read from the newest program of each code, shown as trees of causes     *)
(* with the codes they silence, and what looks wrong about them.           *)
(*                                                                         *)
(* The page is computed from scratch on every request, so its operators    *)
(* are functions of the catalogue; the steps are the imports.  That a      *)
(* cause is Deprecated is shown beside its code and left out here.         *)
(***************************************************************************)
EXTENDS Naturals, Sequences, FiniteSets, SequencesExt

CONSTANTS
  Codes,       \* the numbers of the catalogue
  External,    \* a number that is not in the catalogue
  MAX_DEPTH,   \* levels of a tree (6 in the code)
  MaxCauses    \* bound: causes in one program

\* What the constants are; assumed by the module that gives them values.
ConnectionsAssumption == Codes \subseteq Nat /\ External \notin Codes /\ MAX_DEPTH \in Nat \ {0}

VARIABLE suppressed_by   \* code -> the causes its newest program names
vars == <<suppressed_by>>

Init == suppressed_by = [c \in Codes |-> {}]

\* A defect to test ConnectionsTypeOK with: the program of a code outside the catalogue is read too.
ImportDefect(c) ==
  \E causes \in SUBSET (Codes \union {External}) :
    /\ Cardinality(causes) <= MaxCauses
    /\ suppressed_by' = [x \in Codes \union {External} |->
                            IF x \in {c, External} THEN causes ELSE suppressed_by[x]]

\* A program is imported again: its connections replace the ones before.
Import(c) ==
  \E causes \in SUBSET (Codes \union {External}) :
    /\ Cardinality(causes) <= MaxCauses
    /\ suppressed_by' = [suppressed_by EXCEPT ![c] = causes]

Next == \E c \in Codes : Import(c)
Spec == Init /\ [][Next]_vars

----------------------------------------------------------------------------
(* hierarchy() *)
children(c) == {d \in Codes : c \in suppressed_by[d]}
suppressed_ids == {c \in Codes : suppressed_by[c] # {}}
Roots == {c \in Codes : children(c) # {} /\ c \notin suppressed_ids}

\* A defect to test BranchesAreChains with: a child is compared with the root of the tree only.
GrowsDefect(trail, k) == k # trail[1]

\* A child is left out when it stands above its parent in the branch already.
Grows(trail, k) == \A i \in 1 .. Len(trail) - 1 : trail[i] # k

\* The branches of all trees, each as the path from its root, cut off below MAX_DEPTH.
Branches ==
  {t \in UNION {[1 .. n -> Codes] : n \in 1 .. MAX_DEPTH + 1} :
     /\ t[1] \in Roots
     /\ \A i \in 1 .. Len(t) - 1 :
          t[i + 1] \in children(t[i]) /\ Grows(SubSeq(t, 1, i), t[i + 1])}

Reached == UNION {ToSet(trail) : trail \in Branches}
MarkedLoops == {Last(trail) : trail \in {t \in Branches :
                                           \E k \in children(Last(t)) : k \in ToSet(Front(t))}}

\* A defect to test LoopsAreNamed with: only codes that are in no tree and have one cause count.
InLoopsDefect(reached) ==
  {c \in suppressed_ids \ reached : \E d \in Codes : c \in children(d) /\ suppressed_by[c] = {d}}

(* A code that no tree reached and that some code of the catalogue suppresses. *)
InLoops(reached) == {c \in suppressed_ids \ reached : \E d \in Codes : c \in children(d)}

----------------------------------------------------------------------------
Causes(c) == suppressed_by[c] \cap Codes
\* What suppresses c, itself or through others: what no set leaves out that holds the causes
\* of c and of its members.
Above(c) ==
  {d \in Codes : \A S \in SUBSET Codes :
     Causes(c) \subseteq S /\ (\A x \in S : Causes(x) \subseteq S) => d \in S}
\* Codes that suppress each other in a circle.
Circle(c) == {d \in Codes : d \in Above(c) /\ c \in Above(d)}
OnCircle == {c \in Codes : c \in Above(c)}

IsChain(t) == \A i \in 1 .. Len(t) - 1 : t[i] \in suppressed_by[t[i + 1]]
\* No chain of different codes is longer than the trees are deep.
ChainsFit == \A t \in [1 .. MAX_DEPTH + 1 -> Codes] : IsChain(t) => ~IsInjective(t)

ConnectionsTypeOK == suppressed_by \in [Codes -> SUBSET (Codes \union {External})]

(* A branch shows a chain of causes in which a code comes twice only if it suppresses itself, however
   the programs are connected, and none is longer than the limit (tree in hierarchy). *)
BranchesAreChains ==
  \A t \in Branches :
    /\ Len(t) <= MAX_DEPTH + 1
    /\ IsChain(t)
    /\ \A i, j \in 1 .. Len(t) : (i < j /\ t[i] = t[j]) => j = i + 1

(* "what looks wrong (..., a loop of suppressions)": every circle of suppressions is seen, in a tree
   that marks one of its codes or as a finding (FR-179; hierarchy), as long as chains of causes fit
   in a tree that is cut off at MAX_DEPTH. *)
LoopsAreNamed ==
  ChainsFit => \A c \in OnCircle : Circle(c) \cap (MarkedLoops \union InLoops(Reached)) # {}

(* "Part of a loop of suppressions: each code is suppressed by another one of the loop."
   (templates/status_codes/connections.html; in_loops in hierarchy) *)
LoopsAreLoops == InLoops(Reached) \subseteq OnCircle
=============================================================================
