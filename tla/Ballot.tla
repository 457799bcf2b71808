------------------------------- MODULE Ballot -------------------------------
(***************************************************************************)
(* A table of contents that changes by vote (BR-027): a proposer shows the *)
(* content of some places and what should stand there; when a quorum of    *)
(* other people has said yes, and every place still reads as it was shown, *)
(* the motions take effect together.  Module MappingChanges implements it. *)
(***************************************************************************)
EXTENDS Naturals, FiniteSets

CONSTANTS People, Places, Contents, Ballots, Quorum

VARIABLES
  content,   \* content[p]: what stands at a place, {} or {c}
  ballot     \* ballot[b]: a question put to the vote

ballotVars == <<content, ballot>>

\* An empty `place` stands for any free one.
MayMove(m) == \A p \in m.place : content[p] = m.from

Init ==
  /\ content = [p \in Places |-> {}]
  /\ \A b \in Ballots : ballot[b].state = "NONE" /\ ballot[b].yes = {}

\* The contents a table starts with.
Load ==
  /\ \A p \in Places : content[p] = {}
  /\ content' \in [Places -> {{}} \union {{c} : c \in Contents}]
  /\ UNCHANGED ballot

Put(b) ==
  /\ ballot[b].state = "NONE"
  /\ ballot'[b].state = "OPEN"
  /\ ballot'[b].proposer \in People
  /\ ballot'[b].yes = {}
  /\ \A m \in ballot'[b].motions : MayMove(m)
  /\ UNCHANGED content

\* What a step on an open question leaves as it is.
SameQuestion(b) ==
  /\ ballot[b].state = "OPEN"
  /\ ballot'[b].proposer = ballot[b].proposer
  /\ ballot'[b].motions = ballot[b].motions

SayYes(b, u) ==
  /\ SameQuestion(b)
  /\ u # ballot[b].proposer
  /\ u \notin ballot[b].yes
  /\ ballot'[b].yes = ballot[b].yes \union {u}

Support(b, u) ==
  /\ SayYes(b, u)
  /\ ballot'[b].state = "OPEN"
  /\ Cardinality(ballot'[b].yes) < Quorum
  /\ UNCHANGED content

\* The motions take effect: each at its place, or at a free one of its own.
Carry(b, u) ==
  LET motions == ballot[b].motions
      moved == UNION {m.place : m \in motions}
      fresh == {p \in Places \ moved : content'[p] # content[p]}
  IN
  /\ SayYes(b, u)
  /\ ballot'[b].state = "CARRIED"
  /\ Cardinality(ballot'[b].yes) = Quorum
  /\ \A m \in motions : MayMove(m) /\ \A p \in m.place : content'[p] = {m.to}
  /\ \A p \in fresh : content[p] = {}
  /\ UNION {content'[p] : p \in fresh} = {m.to : m \in {n \in motions : n.place = {}}}

Drop(b) ==
  /\ SameQuestion(b)
  /\ ballot'[b].state = "CLOSED"
  /\ ballot'[b].yes = ballot[b].yes
  /\ UNCHANGED content

Next ==
  \/ Load
  \/ \E b \in Ballots :
       /\ \A other \in Ballots \ {b} : ballot'[other] = ballot[other]
       /\ \/ Put(b)
          \/ Drop(b)
          \/ \E u \in People : Support(b, u) \/ Carry(b, u)

Spec == Init /\ [][Next]_ballotVars
=============================================================================
