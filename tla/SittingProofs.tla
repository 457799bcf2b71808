-------------------------- MODULE SittingProofs -----------------------------
(***************************************************************************)
(* Bulk work is no weaker than single decisions, for any staff, any        *)
(* requests and any number of sittings at once.                            *)
(*                                                                         *)
(* The lifecycle sees of a request its state and who signed it.  Each      *)
(* operation, in a sitting or not, writes one row, and what it writes is a *)
(* move of the lifecycle; a request that is open carries no decision of a  *)
(* Chief Engineer, so that only its author and its reviewers are in the    *)
(* way.  A sitting reads each row again before it decides on it.           *)
(***************************************************************************)
EXTENDS Jobs, TLAPS

RevNos == 1 .. SetRevisions

IsRow(r) ==
  r = [status |-> r.status, current |-> r.current, cr |-> r.cr, deprecation |-> r.deprecation,
       platforms |-> r.platforms, author |-> r.author, controls |-> r.controls,
       assigned |-> r.assigned, reviewer |-> r.reviewer, admin |-> r.admin, chief |-> r.chief]

RowFits(r) == IsRow(r) /\ (r.status \in Sittings!OpenStates => r.chief = Nobody)

IsServed(x) ==
  x = [kind |-> x.kind, actor |-> x.actor, step |-> x.step, decision |-> x.decision,
       sample |-> x.sample, left |-> x.left, batch |-> x.batch, done |-> x.done]

RowsFit ==
  /\ rev = [c \in SetCodes |-> [n \in RevNos |-> rev[c][n]]]
  /\ \A c \in SetCodes, n \in RevNos : RowFits(rev[c][n])

ServedFits(x) ==
  /\ IsServed(x)
  /\ x.kind # "IDLE" => x.actor \in Deciders
  /\ x.kind = "SIGN" => x.step = "domain"

SittingsFit ==
  /\ sitting = [k \in SittingIds |-> sitting[k]]
  /\ \A k \in SittingIds : ServedFits(sitting[k])

SittingsInv == RowsFit /\ SittingsFit

SameSignatures(r, x) ==
  x.author = r.author /\ x.reviewer = r.reviewer /\ x.admin = r.admin /\ x.chief = r.chief

\* The ways in which an operation moves a row.
Resubmitted(r, x) == r.status = "DRAFT" /\ x.status = "REVIEW" /\ SameSignatures(r, x)

SentBack(r, x) ==
  /\ r.status \in {"REVIEW", "PENDING_APPROVAL"} /\ x.status = "DRAFT"
  /\ x.author = r.author /\ x.reviewer = Nobody /\ x.admin = Nobody /\ x.chief = Nobody

SignedByReviewer(r, x, u) ==
  /\ r.status = "REVIEW" /\ u \in Deciders /\ u # r.author /\ u # r.admin
  /\ x.status = IF r.admin = Nobody THEN "REVIEW" ELSE "PENDING_APPROVAL"
  /\ x.author = r.author /\ x.reviewer = u /\ x.admin = r.admin /\ x.chief = Nobody

SignedByAdmin(r, x, u) ==
  /\ r.status = "REVIEW" /\ u \in Deciders /\ u # r.author /\ u # r.reviewer
  /\ x.status = IF r.reviewer = Nobody THEN "REVIEW" ELSE "PENDING_APPROVAL"
  /\ x.author = r.author /\ x.reviewer = r.reviewer /\ x.admin = u /\ x.chief = Nobody

DecidedByChief(r, x, u) ==
  /\ r.status = "PENDING_APPROVAL" /\ u \in Deciders
  /\ u \notin {r.author, r.reviewer, r.admin}
  /\ x.status \in {"APPROVED", "DEPRECATED"}
  /\ x.author = r.author /\ x.reviewer = r.reviewer /\ x.admin = r.admin /\ x.chief = u

RowMoves(r, x) ==
  /\ RowFits(x)
  /\ \/ x.status = r.status /\ SameSignatures(r, x)
     \/ Resubmitted(r, x)
     \/ SentBack(r, x)
     \/ \E u \in Deciders : \/ SignedByReviewer(r, x, u)
                            \/ SignedByAdmin(r, x, u)
                            \/ DecidedByChief(r, x, u)

-----------------------------------------------------------------------------
(* What the operations write.                                              *)

LEMMA RowIsChanged ==
  ASSUME RowsFit, NEW c, NEW n, NEW x, Sittings!Change(c, n, x)
  PROVE  /\ rev' = [d \in SetCodes |-> [m \in RevNos |-> rev'[d][m]]]
         /\ \A d \in SetCodes, m \in RevNos :
              rev'[d][m] = IF d = c /\ m = n THEN x ELSE rev[d][m]
BY DEF RowsFit, Sittings!Change

\* Fields that neither the state nor a signature depends on.
LEMMA MinorFieldsMove ==
  ASSUME NEW r, RowFits(r), NEW v
  PROVE  /\ RowMoves(r, [r EXCEPT !.platforms = v])
         /\ RowMoves(r, [r EXCEPT !.controls = v])
<1>1. ASSUME NEW x, x = [r EXCEPT !.platforms = v] \/ x = [r EXCEPT !.controls = v]
      PROVE  RowMoves(r, x)
  <2>1. x.status = r.status /\ SameSignatures(r, x) /\ IsRow(x)
    BY <1>1 DEF RowFits, IsRow, SameSignatures
  <2> QED BY <2>1 DEF RowMoves, RowFits, SameSignatures
<1> QED BY <1>1

LEMMA SubmissionMoves ==
  ASSUME NEW r, RowFits(r), r.status = "DRAFT", NEW v
  PROVE  RowMoves(r, [r EXCEPT !.status = "REVIEW", !.assigned = v])
<1>1. PICK x : x = [r EXCEPT !.status = "REVIEW", !.assigned = v]
  OBVIOUS
<1>2. x.status = "REVIEW" /\ SameSignatures(r, x) /\ IsRow(x)
  BY <1>1 DEF RowFits, IsRow, SameSignatures
<1>3. r.chief = Nobody
  BY DEF RowFits, Sittings!OpenStates
<1>4. RowMoves(r, x)
  BY <1>2, <1>3 DEF RowMoves, RowFits, SameSignatures, Resubmitted
<1> QED BY <1>1, <1>4

LEMMA RejectionMoves ==
  ASSUME NEW r, RowFits(r), r.status \in {"REVIEW", "PENDING_APPROVAL"}
  PROVE  /\ RowMoves(r, [Sittings!WithoutSignoffs(r) EXCEPT !.status = "DRAFT"])
         /\ SentBack(r, [Sittings!WithoutSignoffs(r) EXCEPT !.status = "DRAFT"])
<1>1. PICK x : x = [Sittings!WithoutSignoffs(r) EXCEPT !.status = "DRAFT"]
  OBVIOUS
<1>2. /\ x.status = "DRAFT" /\ x.author = r.author /\ x.reviewer = Nobody /\ x.admin = Nobody
      /\ x.chief = r.chief /\ IsRow(x)
  BY <1>1 DEF RowFits, IsRow, Sittings!WithoutSignoffs
<1>3. r.chief = Nobody
  BY DEF RowFits, Sittings!OpenStates
<1>4. RowMoves(r, x) /\ SentBack(r, x)
  BY <1>2, <1>3 DEF RowMoves, RowFits, SentBack
<1> QED BY <1>1, <1>4

LEMMA ReviewerMoves ==
  ASSUME NEW c, NEW n, NEW u \in Deciders, NEW decision,
         c \in SetCodes /\ n \in RevNos => RowFits(rev[c][n]),
         Sittings!ReviewerSignoff(u, c, n, decision)
  PROVE  \E x : /\ Sittings!Change(c, n, x)
                /\ c \in SetCodes /\ n \in RevNos =>
                     /\ RowMoves(rev[c][n], x)
                     /\ SignedByReviewer(rev[c][n], x, u) \/ SentBack(rev[c][n], x)
<1> DEFINE r == rev[c][n]
<1>1. r.status = "REVIEW" /\ u # r.author /\ u # r.admin
  BY DEF Sittings!ReviewerSignoff, Sittings!ReviewerMayDecide
<1>2. CASE decision = "REJECT"
  <2>1. Sittings!Change(c, n, [Sittings!WithoutSignoffs(r) EXCEPT !.status = "DRAFT"])
    BY <1>2 DEF Sittings!ReviewerSignoff
  <2> HIDE DEF r
  <2>2. c \in SetCodes /\ n \in RevNos => RowFits(r)
    BY DEF r
  <2>3. c \in SetCodes /\ n \in RevNos =>
          /\ RowMoves(r, [Sittings!WithoutSignoffs(r) EXCEPT !.status = "DRAFT"])
          /\ SentBack(r, [Sittings!WithoutSignoffs(r) EXCEPT !.status = "DRAFT"])
    BY <1>1, <2>2, RejectionMoves
  <2> QED BY <2>1, <2>3 DEF r
<1>3. CASE decision # "REJECT"
  <2>1. PICK x : x = [r EXCEPT !.reviewer = u,
                        !.status = IF r.admin = Nobody THEN "REVIEW" ELSE "PENDING_APPROVAL"]
    OBVIOUS
  <2>2. Sittings!Change(c, n, x)
    BY <1>3, <2>1, Zenon DEF Sittings!ReviewerSignoff
  <2> HIDE DEF r
  <2>3. ASSUME c \in SetCodes, n \in RevNos
        PROVE  RowMoves(r, x) /\ SignedByReviewer(r, x, u)
    <3>1. RowFits(r)
      BY <2>3 DEF r
    <3>2. r.chief = Nobody
      BY <1>1, <3>1 DEF RowFits, Sittings!OpenStates
    <3>3. /\ x.status = IF r.admin = Nobody THEN "REVIEW" ELSE "PENDING_APPROVAL"
          /\ x.author = r.author /\ x.reviewer = u /\ x.admin = r.admin /\ x.chief = Nobody
          /\ IsRow(x)
      BY <2>1, <3>1, <3>2 DEF RowFits, IsRow
    <3> QED BY <1>1, <3>3 DEF RowMoves, RowFits, SignedByReviewer
  <2> QED BY <2>2, <2>3 DEF r
<1> QED BY <1>2, <1>3

LEMMA AdminMoves ==
  ASSUME NEW c, NEW n, NEW u \in Deciders, NEW decision,
         c \in SetCodes /\ n \in RevNos => RowFits(rev[c][n]),
         Sittings!AdminSignoff(u, c, n, decision)
  PROVE  \E x : /\ Sittings!Change(c, n, x)
                /\ c \in SetCodes /\ n \in RevNos =>
                     /\ RowMoves(rev[c][n], x)
                     /\ SignedByAdmin(rev[c][n], x, u) \/ SentBack(rev[c][n], x)
<1> DEFINE r == rev[c][n]
<1>1. r.status = "REVIEW" /\ u # r.author /\ u # r.reviewer
  BY DEF Sittings!AdminSignoff, Sittings!AdminMayDecide
<1>2. CASE decision = "REJECT"
  <2>1. Sittings!Change(c, n, [Sittings!WithoutSignoffs(r) EXCEPT !.status = "DRAFT"])
    BY <1>2 DEF Sittings!AdminSignoff
  <2> HIDE DEF r
  <2>2. c \in SetCodes /\ n \in RevNos => RowFits(r)
    BY DEF r
  <2>3. c \in SetCodes /\ n \in RevNos =>
          /\ RowMoves(r, [Sittings!WithoutSignoffs(r) EXCEPT !.status = "DRAFT"])
          /\ SentBack(r, [Sittings!WithoutSignoffs(r) EXCEPT !.status = "DRAFT"])
    BY <1>1, <2>2, RejectionMoves
  <2> QED BY <2>1, <2>3 DEF r
<1>3. CASE decision # "REJECT"
  <2>1. PICK x : x = [r EXCEPT !.admin = u,
                        !.status = IF r.reviewer = Nobody THEN "REVIEW" ELSE "PENDING_APPROVAL"]
    OBVIOUS
  <2>2. Sittings!Change(c, n, x)
    BY <1>3, <2>1, Zenon DEF Sittings!AdminSignoff
  <2> HIDE DEF r
  <2>3. ASSUME c \in SetCodes, n \in RevNos
        PROVE  RowMoves(r, x) /\ SignedByAdmin(r, x, u)
    <3>1. RowFits(r)
      BY <2>3 DEF r
    <3>2. r.chief = Nobody
      BY <1>1, <3>1 DEF RowFits, Sittings!OpenStates
    <3>3. /\ x.status = IF r.reviewer = Nobody THEN "REVIEW" ELSE "PENDING_APPROVAL"
          /\ x.author = r.author /\ x.reviewer = r.reviewer /\ x.admin = u /\ x.chief = Nobody
          /\ IsRow(x)
      BY <2>1, <3>1, <3>2 DEF RowFits, IsRow
    <3> QED BY <1>1, <3>3 DEF RowMoves, RowFits, SignedByAdmin
  <2> QED BY <2>2, <2>3 DEF r
<1> QED BY <1>2, <1>3

LEMMA ChiefMoves ==
  ASSUME NEW c, NEW n, NEW u \in Deciders, NEW decision,
         c \in SetCodes /\ n \in RevNos => RowFits(rev[c][n]),
         Sittings!ChiefEngineerDecide(u, c, n, decision)
  PROVE  \E x : /\ Sittings!Change(c, n, x)
                /\ c \in SetCodes /\ n \in RevNos =>
                     /\ RowMoves(rev[c][n], x)
                     /\ DecidedByChief(rev[c][n], x, u) \/ SentBack(rev[c][n], x)
<1> DEFINE r == rev[c][n]
<1>1. r.status = "PENDING_APPROVAL" /\ u \notin {r.author, r.reviewer, r.admin}
  BY DEF Sittings!ChiefEngineerDecide, Sittings!ChiefMayDecide
<1>2. CASE decision = "REJECT"
  <2>1. Sittings!Change(c, n, [Sittings!WithoutSignoffs(r) EXCEPT !.status = "DRAFT"])
    BY <1>2 DEF Sittings!ChiefEngineerDecide
  <2> HIDE DEF r
  <2>2. c \in SetCodes /\ n \in RevNos => RowFits(r)
    BY DEF r
  <2>3. c \in SetCodes /\ n \in RevNos =>
          /\ RowMoves(r, [Sittings!WithoutSignoffs(r) EXCEPT !.status = "DRAFT"])
          /\ SentBack(r, [Sittings!WithoutSignoffs(r) EXCEPT !.status = "DRAFT"])
    BY <1>1, <2>2, RejectionMoves
  <2> QED BY <2>1, <2>3 DEF r
<1>3. CASE decision # "REJECT"
  <2>1. PICK x : x = [r EXCEPT !.chief = u,
                        !.status = IF r.deprecation THEN "DEPRECATED" ELSE "APPROVED"]
    OBVIOUS
  <2>2. Sittings!Change(c, n, x)
    BY <1>3, <2>1, Zenon DEF Sittings!ChiefEngineerDecide
  <2> HIDE DEF r
  <2>3. ASSUME c \in SetCodes, n \in RevNos
        PROVE  RowMoves(r, x) /\ DecidedByChief(r, x, u)
    <3>1. RowFits(r)
      BY <2>3 DEF r
    <3>2. /\ x.status \in {"APPROVED", "DEPRECATED"} /\ x.author = r.author
          /\ x.reviewer = r.reviewer /\ x.admin = r.admin /\ x.chief = u /\ IsRow(x)
      BY <2>1, <3>1 DEF RowFits, IsRow
    <3>3. x.status \notin Sittings!OpenStates
      BY <3>2 DEF Sittings!OpenStates
    <3> QED BY <1>1, <3>2, <3>3 DEF RowMoves, RowFits, DecidedByChief
  <2> QED BY <2>2, <2>3 DEF r
<1> QED BY <1>2, <1>3
-----------------------------------------------------------------------------
(* What the lifecycle sees.                                                *)

StatusSeen == [c \in SetCodes |-> [n \in Sittings!RevNo |-> Sittings!Status(<<c, n>>)]]

SignedSeen == [c \in SetCodes |-> [n \in Sittings!RevNo |-> Sittings!Signed(rev[c][n])]]

Implements == Sittings!Abstract!Next \/ UNCHANGED <<StatusSeen, SignedSeen>>

LEMMA LifecycleSees ==
  ASSUME NEW c \in SetCodes, NEW n \in RevNos
  PROVE  StatusSeen[c][n] = rev[c][n].status /\ SignedSeen[c][n] = Sittings!Signed(rev[c][n])
BY DEF StatusSeen, SignedSeen, Sittings!Status, Sittings!RevNo, RevNos

LEMMA OneEntryDiffers ==
  ASSUME NEW A, NEW B, NEW S, NEW T,
         S = [a \in A |-> [b \in B |-> S[a][b]]], T = [a \in A |-> [b \in B |-> T[a][b]]],
         NEW c \in A, NEW n \in B, NEW x, T[c][n] = x,
         \A a \in A, b \in B : a # c \/ b # n => T[a][b] = S[a][b]
  PROVE  T = [S EXCEPT ![c][n] = x]
<1> DEFINE line == [S[c] EXCEPT ![n] = x]
<1>1. S[c] = [b \in B |-> S[c][b]] /\ T[c] = [b \in B |-> T[c][b]]
  OBVIOUS
<1>2. line = [b \in B |-> IF b = n THEN x ELSE S[c][b]]
  BY <1>1
<1>3. line = T[c]
  BY <1>1, <1>2
<1> HIDE DEF line
<1>4. \A a \in A : a # c => S[a] = T[a]
  OBVIOUS
<1>5. T = [S EXCEPT ![c] = line]
  BY <1>3, <1>4
<1> QED BY <1>5, Zenon DEF line

\* One row is seen to move, and no other.
LEMMA MoveIsSeen ==
  ASSUME NEW c \in SetCodes, NEW n \in RevNos, NEW x,
         \A d \in SetCodes, m \in RevNos :
           rev'[d][m] = IF d = c /\ m = n THEN x ELSE rev[d][m]
  PROVE  Sittings!Abstract!Moves(c, n, x.status, Sittings!Signed(x))
<1>1. /\ StatusSeen = [d \in SetCodes |-> [m \in RevNos |-> StatusSeen[d][m]]]
      /\ StatusSeen' = [d \in SetCodes |-> [m \in RevNos |-> StatusSeen'[d][m]]]
      /\ StatusSeen'[c][n] = x.status
      /\ \A d \in SetCodes, m \in RevNos : d # c \/ m # n => StatusSeen'[d][m] = StatusSeen[d][m]
  BY DEF StatusSeen, Sittings!Status, Sittings!RevNo, RevNos
<1>2. StatusSeen' = [StatusSeen EXCEPT ![c][n] = x.status]
  BY <1>1, OneEntryDiffers
<1>3. /\ SignedSeen = [d \in SetCodes |-> [m \in RevNos |-> SignedSeen[d][m]]]
      /\ SignedSeen' = [d \in SetCodes |-> [m \in RevNos |-> SignedSeen'[d][m]]]
      /\ SignedSeen'[c][n] = Sittings!Signed(x)
      /\ \A d \in SetCodes, m \in RevNos : d # c \/ m # n => SignedSeen'[d][m] = SignedSeen[d][m]
  BY DEF SignedSeen, Sittings!RevNo, RevNos
<1>4. SignedSeen' = [SignedSeen EXCEPT ![c][n] = Sittings!Signed(x)]
  BY <1>3, OneEntryDiffers
<1> QED BY <1>2, <1>4 DEF Sittings!Abstract!Moves, StatusSeen, SignedSeen

LEMMA NothingIsSeen ==
  ASSUME \A d \in SetCodes, m \in RevNos :
           /\ rev'[d][m].status = rev[d][m].status
           /\ Sittings!Signed(rev'[d][m]) = Sittings!Signed(rev[d][m])
  PROVE  UNCHANGED <<StatusSeen, SignedSeen>>
BY DEF StatusSeen, SignedSeen, Sittings!Status, Sittings!RevNo, RevNos

\* Signatures by their parts.
LEMMA SignaturesOf ==
  ASSUME NEW r
  PROVE  \A e : e \in Sittings!Signed(r) <=>
           \/ e = <<"AUTHOR", r.author>> /\ r.author # Nobody
           \/ e = <<"REVIEWER", r.reviewer>> /\ r.reviewer # Nobody
           \/ e = <<"ADMIN", r.admin>> /\ r.admin # Nobody
           \/ e = <<"CHIEF", r.chief>> /\ r.chief # Nobody
BY DEF Sittings!Signed

LEMMA SameIsSigned ==
  ASSUME NEW r, NEW x, SameSignatures(r, x)
  PROVE  Sittings!Signed(x) = Sittings!Signed(r)
BY DEF SameSignatures, Sittings!Signed

LEMMA SentBackIsSigned ==
  ASSUME NEW r, NEW x, RowFits(r), SentBack(r, x)
  PROVE  Sittings!Signed(x) = {e \in Sittings!Signed(r) : e[1] = "AUTHOR"}
<1>1. r.chief = Nobody
  BY DEF RowFits, SentBack, Sittings!OpenStates
<1>2. \A e : e \in Sittings!Signed(x) <=> e \in Sittings!Signed(r) /\ e[1] = "AUTHOR"
  BY SignaturesOf DEF SentBack
<1> QED BY ONLY <1>2

LEMMA NewSignature ==
  ASSUME NEW r, NEW x, NEW u, u # Nobody, x.author = r.author
  PROVE  /\ x.reviewer = u /\ x.admin = r.admin /\ x.chief = r.chief =>
              Sittings!Signed(x) =
                {e \in Sittings!Signed(r) : e[1] # "REVIEWER"} \union {<<"REVIEWER", u>>}
         /\ x.reviewer = r.reviewer /\ x.admin = u /\ x.chief = r.chief =>
              Sittings!Signed(x) =
                {e \in Sittings!Signed(r) : e[1] # "ADMIN"} \union {<<"ADMIN", u>>}
         /\ x.reviewer = r.reviewer /\ x.admin = r.admin /\ x.chief = u =>
              Sittings!Signed(x) =
                {e \in Sittings!Signed(r) : e[1] # "CHIEF"} \union {<<"CHIEF", u>>}
<1>1. x.reviewer = u /\ x.admin = r.admin /\ x.chief = r.chief =>
        \A e : e \in Sittings!Signed(x) <=>
          (e \in Sittings!Signed(r) /\ e[1] # "REVIEWER") \/ e = <<"REVIEWER", u>>
  BY SignaturesOf
<1>2. x.reviewer = r.reviewer /\ x.admin = u /\ x.chief = r.chief =>
        \A e : e \in Sittings!Signed(x) <=>
          (e \in Sittings!Signed(r) /\ e[1] # "ADMIN") \/ e = <<"ADMIN", u>>
  BY SignaturesOf
<1>3. x.reviewer = r.reviewer /\ x.admin = r.admin /\ x.chief = u =>
        \A e : e \in Sittings!Signed(x) <=>
          (e \in Sittings!Signed(r) /\ e[1] # "CHIEF") \/ e = <<"CHIEF", u>>
  BY SignaturesOf
<1> QED BY ONLY <1>1, <1>2, <1>3

LEMMA WhoSigned ==
  ASSUME NEW r
  PROVE  /\ (\E e \in Sittings!Signed(r) : e[1] = "REVIEWER") <=> r.reviewer # Nobody
         /\ (\E e \in Sittings!Signed(r) : e[1] = "ADMIN") <=> r.admin # Nobody
<1>1. /\ r.reviewer # Nobody => <<"REVIEWER", r.reviewer>> \in Sittings!Signed(r)
      /\ r.admin # Nobody => <<"ADMIN", r.admin>> \in Sittings!Signed(r)
      /\ \A e \in Sittings!Signed(r) : /\ e[1] = "REVIEWER" => r.reviewer # Nobody
                                       /\ e[1] = "ADMIN" => r.admin # Nobody
  BY SignaturesOf
<1>2. <<"REVIEWER", r.reviewer>>[1] = "REVIEWER" /\ <<"ADMIN", r.admin>>[1] = "ADMIN"
  OBVIOUS
<1> QED BY ONLY <1>1, <1>2

\* Nobody who holds another part signs.
LEMMA SignersDiffer ==
  ASSUME NEW r, NEW u, u # r.author
  PROVE  /\ r.chief = Nobody /\ u # r.admin =>
              \A e \in Sittings!Signed(r) : e[1] # "REVIEWER" => e[2] # u
         /\ r.chief = Nobody /\ u # r.reviewer =>
              \A e \in Sittings!Signed(r) : e[1] # "ADMIN" => e[2] # u
         /\ u # r.reviewer /\ u # r.admin =>
              \A e \in Sittings!Signed(r) : e[1] # "CHIEF" => e[2] # u
BY SignaturesOf

\* A row that moves takes a step of the lifecycle.
LEMMA RowImplements ==
  ASSUME NEW c \in SetCodes, NEW n \in RevNos, NEW x,
         RowFits(rev[c][n]), RowMoves(rev[c][n], x),
         \A d \in SetCodes, m \in RevNos :
           rev'[d][m] = IF d = c /\ m = n THEN x ELSE rev[d][m]
  PROVE  Implements
<1> DEFINE r == rev[c][n]
           by == Sittings!Signed(x)
           signatures == Sittings!Signed(r)
<1>1. Sittings!Abstract!Moves(c, n, x.status, by)
  BY MoveIsSeen
<1>2. StatusSeen[c][n] = r.status /\ SignedSeen[c][n] = signatures
  BY LifecycleSees
<1>3. c \in SetCodes /\ n \in Sittings!RevNo
  BY DEF Sittings!RevNo, RevNos
<1>4. CASE x.status = r.status /\ SameSignatures(r, x)
  <2>1. by = signatures
    BY <1>4, SameIsSigned
  <2>2. \A d \in SetCodes, m \in RevNos :
          /\ rev'[d][m].status = rev[d][m].status
          /\ Sittings!Signed(rev'[d][m]) = Sittings!Signed(rev[d][m])
    BY <1>4, <2>1
  <2> QED BY <2>2, NothingIsSeen DEF Implements
<1>5. CASE Resubmitted(r, x)
  <2>1. r.status = "DRAFT" /\ x.status = "REVIEW" /\ by = signatures
    BY <1>5, SameIsSigned DEF Resubmitted
  <2>2. Sittings!Abstract!SubmitForReview(c, n)
    BY <1>1, <1>2, <2>1, Zenon
       DEF Sittings!Abstract!SubmitForReview, Sittings!Abstract!Moves, StatusSeen, SignedSeen
  <2> QED BY <1>3, <2>2 DEF Implements, Sittings!Abstract!Next
<1>6. CASE SentBack(r, x)
  <2>1. r.status \in {"REVIEW", "PENDING_APPROVAL"} /\ x.status = "DRAFT"
    BY <1>6 DEF SentBack
  <2>2. by = {e \in signatures : e[1] = "AUTHOR"}
    BY <1>6, SentBackIsSigned
  <2>3. Sittings!Abstract!Reject(c, n)
    BY <1>1, <1>2, <2>1, <2>2, Zenon
       DEF Sittings!Abstract!Reject, Sittings!Abstract!Moves, StatusSeen, SignedSeen
  <2> QED BY <1>3, <2>3 DEF Implements, Sittings!Abstract!Next
<1>7. ASSUME NEW u \in Deciders, SignedByReviewer(r, x, u)
      PROVE  Implements
  <2>1. u # Nobody /\ r.status = "REVIEW" /\ r.chief = Nobody
    BY <1>7, SittingsAssumption DEF SignedByReviewer, RowFits, Sittings!OpenStates
  <2>2. by = {e \in signatures : e[1] # "REVIEWER"} \union {<<"REVIEWER", u>>}
    BY <1>7, <2>1, NewSignature DEF SignedByReviewer
  <2>3. \A e \in signatures : e[1] # "REVIEWER" => e[2] # u
    BY <1>7, <2>1, SignersDiffer DEF SignedByReviewer
  <2>4. x.status = IF \E e \in signatures : e[1] = "ADMIN" THEN "PENDING_APPROVAL" ELSE "REVIEW"
    BY <1>7, WhoSigned DEF SignedByReviewer
  <2> HIDE DEF by, signatures
  <2>5. Sittings!Abstract!Others(c, n, "REVIEWER") = {e \in signatures : e[1] # "REVIEWER"}
    BY <1>2 DEF Sittings!Abstract!Others, SignedSeen
  <2>6. Sittings!Abstract!HasSigned(c, n, "ADMIN") <=> \E e \in signatures : e[1] = "ADMIN"
    BY <1>2 DEF Sittings!Abstract!HasSigned, SignedSeen
  <2>7. Sittings!Abstract!MaySign(u, c, n, "REVIEWER")
    BY <2>3, <2>5 DEF Sittings!Abstract!MaySign
  <2>8. StatusSeen[c][n] = "REVIEW" /\ "ADMIN" \in {"REVIEWER", "ADMIN"} \ {"REVIEWER"}
    BY <1>2, <2>1
  <2>9. Sittings!Abstract!Moves(c, n,
          IF Sittings!Abstract!HasSigned(c, n, "ADMIN") THEN "PENDING_APPROVAL" ELSE "REVIEW",
          Sittings!Abstract!Others(c, n, "REVIEWER") \union {<<"REVIEWER", u>>})
    <3>1. x.status = IF Sittings!Abstract!HasSigned(c, n, "ADMIN")
                     THEN "PENDING_APPROVAL" ELSE "REVIEW"
      BY <2>4, <2>6
    <3>2. by = Sittings!Abstract!Others(c, n, "REVIEWER") \union {<<"REVIEWER", u>>}
      BY <2>2, <2>5
    <3> QED BY <1>1, <3>1, <3>2, Zenon
  <2>10. Sittings!Abstract!SignOff(c, n, "REVIEWER", u)
    BY <2>7, <2>8, <2>9, Zenon DEF Sittings!Abstract!SignOff, StatusSeen
  <2> QED BY <1>3, <2>10 DEF Implements, Sittings!Abstract!Next
<1>8. ASSUME NEW u \in Deciders, SignedByAdmin(r, x, u)
      PROVE  Implements
  <2>1. u # Nobody /\ r.status = "REVIEW" /\ r.chief = Nobody
    BY <1>8, SittingsAssumption DEF SignedByAdmin, RowFits, Sittings!OpenStates
  <2>2. by = {e \in signatures : e[1] # "ADMIN"} \union {<<"ADMIN", u>>}
    BY <1>8, <2>1, NewSignature DEF SignedByAdmin
  <2>3. \A e \in signatures : e[1] # "ADMIN" => e[2] # u
    BY <1>8, <2>1, SignersDiffer DEF SignedByAdmin
  <2>4. x.status = IF \E e \in signatures : e[1] = "REVIEWER" THEN "PENDING_APPROVAL" ELSE "REVIEW"
    BY <1>8, WhoSigned DEF SignedByAdmin
  <2> HIDE DEF by, signatures
  <2>5. Sittings!Abstract!Others(c, n, "ADMIN") = {e \in signatures : e[1] # "ADMIN"}
    BY <1>2 DEF Sittings!Abstract!Others, SignedSeen
  <2>6. Sittings!Abstract!HasSigned(c, n, "REVIEWER") <=> \E e \in signatures : e[1] = "REVIEWER"
    BY <1>2 DEF Sittings!Abstract!HasSigned, SignedSeen
  <2>7. Sittings!Abstract!MaySign(u, c, n, "ADMIN")
    BY <2>3, <2>5 DEF Sittings!Abstract!MaySign
  <2>8. StatusSeen[c][n] = "REVIEW" /\ "REVIEWER" \in {"REVIEWER", "ADMIN"} \ {"ADMIN"}
    BY <1>2, <2>1
  <2>9. Sittings!Abstract!Moves(c, n,
          IF Sittings!Abstract!HasSigned(c, n, "REVIEWER") THEN "PENDING_APPROVAL" ELSE "REVIEW",
          Sittings!Abstract!Others(c, n, "ADMIN") \union {<<"ADMIN", u>>})
    <3>1. x.status = IF Sittings!Abstract!HasSigned(c, n, "REVIEWER")
                     THEN "PENDING_APPROVAL" ELSE "REVIEW"
      BY <2>4, <2>6
    <3>2. by = Sittings!Abstract!Others(c, n, "ADMIN") \union {<<"ADMIN", u>>}
      BY <2>2, <2>5
    <3> QED BY <1>1, <3>1, <3>2, Zenon
  <2>10. Sittings!Abstract!SignOff(c, n, "ADMIN", u)
    BY <2>7, <2>8, <2>9, Zenon DEF Sittings!Abstract!SignOff, StatusSeen
  <2> QED BY <1>3, <2>10 DEF Implements, Sittings!Abstract!Next
<1>9. ASSUME NEW u \in Deciders, DecidedByChief(r, x, u)
      PROVE  Implements
  <2>1. /\ u # Nobody /\ r.status = "PENDING_APPROVAL" /\ r.chief = Nobody
        /\ x.status \in {"APPROVED", "DEPRECATED"}
    BY <1>9, SittingsAssumption DEF DecidedByChief, RowFits, Sittings!OpenStates
  <2>2. by = {e \in signatures : e[1] # "CHIEF"} \union {<<"CHIEF", u>>}
    <3>1. /\ x.author = r.author /\ x.reviewer = r.reviewer /\ x.admin = r.admin
          /\ x.chief = u
      BY <1>9 DEF DecidedByChief
    <3> HIDE DEF r
    <3> QED BY <2>1, <3>1, NewSignature
  <2>3. \A e \in signatures : e[1] # "CHIEF" => e[2] # u
    <3>1. u # r.author /\ u # r.reviewer /\ u # r.admin
      BY <1>9 DEF DecidedByChief
    <3> HIDE DEF r
    <3> QED BY <3>1, SignersDiffer
  <2> HIDE DEF by, signatures
  <2>4. Sittings!Abstract!Others(c, n, "CHIEF") = {e \in signatures : e[1] # "CHIEF"}
    BY <1>2 DEF Sittings!Abstract!Others, SignedSeen
  <2>5. Sittings!Abstract!MaySign(u, c, n, "CHIEF")
    BY <2>3, <2>4 DEF Sittings!Abstract!MaySign
  <2>6. StatusSeen[c][n] = "PENDING_APPROVAL"
    BY <1>2, <2>1
  <2>7. by = Sittings!Abstract!Others(c, n, "CHIEF") \union {<<"CHIEF", u>>}
    BY <2>2, <2>4
  <2>8. Sittings!Abstract!Moves(c, n, x.status,
          Sittings!Abstract!Others(c, n, "CHIEF") \union {<<"CHIEF", u>>})
    BY <1>1, <2>7, Zenon
  <2>9. Sittings!Abstract!Approve(c, n, u)
    BY <2>1, <2>5, <2>6, <2>8, Zenon DEF Sittings!Abstract!Approve, StatusSeen
  <2> QED BY <1>3, <2>9 DEF Implements, Sittings!Abstract!Next
<1> QED BY <1>4, <1>5, <1>6, <1>7, <1>8, <1>9 DEF RowMoves
-----------------------------------------------------------------------------
(* The table keeps its shape, and the lifecycle sees a step of its own.    *)

LEMMA WritingImplements ==
  ASSUME RowsFit, NEW c, NEW n, NEW x, Sittings!Change(c, n, x),
         c \in SetCodes /\ n \in RevNos => RowMoves(rev[c][n], x)
  PROVE  RowsFit' /\ Implements
<1>1. /\ rev' = [d \in SetCodes |-> [m \in RevNos |-> rev'[d][m]]]
      /\ \A d \in SetCodes, m \in RevNos :
           rev'[d][m] = IF d = c /\ m = n THEN x ELSE rev[d][m]
  BY RowIsChanged
<1>2. \A d \in SetCodes, m \in RevNos : RowFits(rev[d][m])
  BY DEF RowsFit
<1>3. \A d \in SetCodes, m \in RevNos : RowFits(rev'[d][m])
  <2> SUFFICES ASSUME NEW d \in SetCodes, NEW m \in RevNos PROVE RowFits(rev'[d][m])
    OBVIOUS
  <2>1. CASE d = c /\ m = n
    BY <1>1, <2>1 DEF RowMoves
  <2>2. CASE ~(d = c /\ m = n)
    BY <1>1, <1>2, <2>2
  <2> QED BY <2>1, <2>2
<1>4. RowsFit'
  BY <1>1, <1>3 DEF RowsFit
<1>5. ASSUME c \in SetCodes, n \in RevNos
      PROVE  Implements
  <2>1. RowFits(rev[c][n]) /\ RowMoves(rev[c][n], x)
    BY <1>2, <1>5
  <2>2. \A d \in SetCodes, m \in RevNos :
          rev'[d][m] = IF d = c /\ m = n THEN x ELSE rev[d][m]
    BY <1>1
  <2> QED BY <1>5, <2>1, <2>2, RowImplements
<1>6. ASSUME ~(c \in SetCodes /\ n \in RevNos)
      PROVE  Implements
  <2>1. \A d \in SetCodes, m \in RevNos :
          /\ rev'[d][m].status = rev[d][m].status
          /\ Sittings!Signed(rev'[d][m]) = Sittings!Signed(rev[d][m])
    BY <1>1, <1>6
  <2>2. UNCHANGED <<StatusSeen, SignedSeen>>
    BY <2>1, NothingIsSeen
  <2> QED BY <2>2 DEF Implements
<1> QED BY <1>4, <1>5, <1>6

LEMMA QuietImplements ==
  ASSUME RowsFit, UNCHANGED rev
  PROVE  RowsFit' /\ Implements
<1>1. RowsFit'
  BY DEF RowsFit
<1>2. \A d \in SetCodes, m \in RevNos : rev'[d][m] = rev[d][m]
  OBVIOUS
<1> QED BY <1>1, <1>2, NothingIsSeen DEF Implements

\* A withdrawn request leaves the table, and the revision before it is current again.
LEMMA WithdrawalImplements ==
  ASSUME RowsFit, NEW actor, NEW c \in SetCodes, NEW n \in RevNos,
         Sittings!Withdraw(actor, c, n)
  PROVE  RowsFit' /\ Implements
<1> DEFINE blank == Sittings!NoRevision
<1>1. /\ rev' = [d \in SetCodes |-> [m \in RevNos |-> rev'[d][m]]]
      /\ rev'[c][n] = blank
      /\ \A d \in SetCodes, m \in RevNos : d # c \/ m # n =>
           rev'[d][m] = rev[d][m] \/ rev'[d][m] = [rev[d][m] EXCEPT !.current = TRUE]
      /\ rev[c][n].status \in Sittings!OpenStates
  BY DEF RowsFit, Sittings!Withdraw, Sittings!RevNo, RevNos
<1>2. blank.status = "NONE" /\ Sittings!Signed(blank) = {} /\ RowFits(blank)
  <2>1. /\ blank.status = "NONE" /\ blank.author = Nobody /\ blank.reviewer = Nobody
        /\ blank.admin = Nobody /\ blank.chief = Nobody /\ IsRow(blank)
    BY DEF Sittings!NoRevision, IsRow
  <2> HIDE DEF blank
  <2>2. Sittings!Signed(blank) = {}
    BY <2>1, SignaturesOf
  <2> QED BY <2>1, <2>2 DEF RowFits
<1> HIDE DEF blank
<1>3. ASSUME NEW r, RowFits(r)
      PROVE  /\ RowFits([r EXCEPT !.current = TRUE])
             /\ [r EXCEPT !.current = TRUE].status = r.status
             /\ Sittings!Signed([r EXCEPT !.current = TRUE]) = Sittings!Signed(r)
  <2>1. PICK x : x = [r EXCEPT !.current = TRUE]
    OBVIOUS
  <2>2. IsRow(x) /\ x.status = r.status /\ SameSignatures(r, x)
    BY <1>3, <2>1 DEF RowFits, IsRow, SameSignatures
  <2>3. RowFits(x) /\ Sittings!Signed(x) = Sittings!Signed(r)
    BY <1>3, <2>2, SameIsSigned DEF RowFits, SameSignatures
  <2> QED BY <2>1, <2>2, <2>3
<1>4. \A d \in SetCodes, m \in RevNos : RowFits(rev[d][m])
  BY DEF RowsFit
<1>5. \A d \in SetCodes, m \in RevNos : RowFits(rev'[d][m])
  <2> SUFFICES ASSUME NEW d \in SetCodes, NEW m \in RevNos PROVE RowFits(rev'[d][m])
    OBVIOUS
  <2>1. CASE d = c /\ m = n
    BY <1>1, <1>2, <2>1
  <2>2. CASE ~(d = c /\ m = n)
    <3>1. RowFits(rev[d][m]) /\ RowFits([rev[d][m] EXCEPT !.current = TRUE])
      BY <1>3, <1>4
    <3>2. rev'[d][m] = rev[d][m] \/ rev'[d][m] = [rev[d][m] EXCEPT !.current = TRUE]
      BY <1>1, <2>2
    <3> QED BY <3>1, <3>2
  <2> QED BY <2>1, <2>2
<1>6. RowsFit'
  BY <1>1, <1>5 DEF RowsFit
<1>7. \A d \in SetCodes, m \in RevNos : d # c \/ m # n =>
        /\ rev'[d][m].status = rev[d][m].status
        /\ Sittings!Signed(rev'[d][m]) = Sittings!Signed(rev[d][m])
  BY <1>1, <1>3, <1>4
<1>8. /\ StatusSeen = [d \in SetCodes |-> [m \in RevNos |-> StatusSeen[d][m]]]
      /\ StatusSeen' = [d \in SetCodes |-> [m \in RevNos |-> StatusSeen'[d][m]]]
      /\ StatusSeen'[c][n] = "NONE"
      /\ \A d \in SetCodes, m \in RevNos : d # c \/ m # n => StatusSeen'[d][m] = StatusSeen[d][m]
  BY <1>1, <1>2, <1>7 DEF StatusSeen, Sittings!Status, Sittings!RevNo, RevNos
<1>9. StatusSeen' = [StatusSeen EXCEPT ![c][n] = "NONE"]
  BY <1>8, OneEntryDiffers
<1>10. /\ SignedSeen = [d \in SetCodes |-> [m \in RevNos |-> SignedSeen[d][m]]]
       /\ SignedSeen' = [d \in SetCodes |-> [m \in RevNos |-> SignedSeen'[d][m]]]
       /\ SignedSeen'[c][n] = {}
       /\ \A d \in SetCodes, m \in RevNos : d # c \/ m # n => SignedSeen'[d][m] = SignedSeen[d][m]
  BY <1>1, <1>2, <1>7 DEF SignedSeen, Sittings!RevNo, RevNos
<1>11. SignedSeen' = [SignedSeen EXCEPT ![c][n] = {}]
  BY <1>10, OneEntryDiffers
<1>12. Sittings!Abstract!Moves(c, n, "NONE", {})
  BY <1>9, <1>11 DEF Sittings!Abstract!Moves, StatusSeen, SignedSeen
<1>13. StatusSeen[c][n] \in Sittings!Abstract!UnderWay
  BY <1>1, LifecycleSees DEF Sittings!Abstract!UnderWay, Sittings!OpenStates
<1>14. Sittings!Abstract!Abandon(c, n)
  BY <1>12, <1>13, Zenon DEF Sittings!Abstract!Abandon, StatusSeen
<1>15. c \in SetCodes /\ n \in Sittings!RevNo
  BY DEF Sittings!RevNo, RevNos
<1> QED BY <1>6, <1>14, <1>15 DEF Implements, Sittings!Abstract!Next

\* One request at a time.
LEMMA AloneImplements ==
  ASSUME RowsFit, Sittings!Alone
  PROVE  RowsFit' /\ Implements /\ UNCHANGED sitting
<1>1. PICK u \in Present, p \in Sittings!Requests :
        \/ Sittings!EditDraft(u, p) \/ Sittings!Attach(u, p)
        \/ Sittings!WithdrawRequest(u, p) \/ Sittings!DecideAlone(u, p)
  BY DEF Sittings!Alone
<1>2. p[1] \in SetCodes /\ p[2] \in RevNos /\ u \in Deciders
  BY SittingsAssumption DEF Sittings!BulkAssumption, Sittings!Requests, Sittings!RevNo, RevNos
<1>3. PICK c \in SetCodes, n \in RevNos : c = p[1] /\ n = p[2]
  BY <1>2
<1>4. RowFits(rev[c][n])
  BY DEF RowsFit
<1>5. ASSUME Sittings!EditDraft(u, p)
      PROVE  RowsFit' /\ Implements /\ UNCHANGED sitting
  <2>1. UNCHANGED sitting /\ Sittings!UpdateDraft(u, c, n, TRUE)
    BY <1>3, <1>5 DEF Sittings!EditDraft
  <2>2. Sittings!Change(c, n, [rev[c][n] EXCEPT !.platforms = TRUE])
    BY <2>1 DEF Sittings!UpdateDraft
  <2>3. RowMoves(rev[c][n], [rev[c][n] EXCEPT !.platforms = TRUE])
    BY <1>4, MinorFieldsMove
  <2> QED BY <2>1, <2>2, <2>3, WritingImplements
<1>6. ASSUME Sittings!Attach(u, p)
      PROVE  RowsFit' /\ Implements /\ UNCHANGED sitting
  BY <1>6, QuietImplements DEF Sittings!Attach
<1>7. ASSUME Sittings!WithdrawRequest(u, p)
      PROVE  RowsFit' /\ Implements /\ UNCHANGED sitting
  <2>1. UNCHANGED sitting /\ (UNCHANGED rev \/ Sittings!Withdraw(u, c, n))
    BY <1>3, <1>7 DEF Sittings!WithdrawRequest
  <2> QED BY <2>1, QuietImplements, WithdrawalImplements
<1>8. ASSUME Sittings!DecideAlone(u, p)
      PROVE  RowsFit' /\ Implements /\ UNCHANGED sitting
  <2>1. UNCHANGED sitting
    BY <1>8 DEF Sittings!DecideAlone, Sittings!bulkVars
  <2>2. ASSUME NEW k, Sittings!Submit(u, c, n, k, FALSE)
        PROVE  RowsFit' /\ Implements
    <3>1. PICK v : Sittings!Change(c, n, [rev[c][n] EXCEPT !.status = "REVIEW", !.assigned = v])
      BY <2>2 DEF Sittings!Submit
    <3>2. rev[c][n].status = "DRAFT"
      BY <2>2 DEF Sittings!Submit
    <3>3. RowMoves(rev[c][n], [rev[c][n] EXCEPT !.status = "REVIEW", !.assigned = v])
      BY <1>4, <3>2, SubmissionMoves
    <3> QED BY <3>1, <3>3, WritingImplements
  <2>3. ASSUME Sittings!SignDomain(u, c, n)
        PROVE  RowsFit' /\ Implements
    <3>1. Sittings!Change(c, n, [rev[c][n] EXCEPT !.controls = u])
      BY <2>3 DEF Sittings!SignDomain
    <3>2. RowMoves(rev[c][n], [rev[c][n] EXCEPT !.controls = u])
      BY <1>4, MinorFieldsMove
    <3> QED BY <3>1, <3>2, WritingImplements
  <2>4. ASSUME NEW decision, Sittings!ReviewerSignoff(u, c, n, decision)
        PROVE  RowsFit' /\ Implements
    BY <1>2, <1>4, <2>4, ReviewerMoves, WritingImplements
  <2>5. ASSUME NEW decision, Sittings!AdminSignoff(u, c, n, decision)
        PROVE  RowsFit' /\ Implements
    BY <1>2, <1>4, <2>5, AdminMoves, WritingImplements
  <2>6. ASSUME NEW decision, Sittings!ChiefEngineerDecide(u, c, n, decision)
        PROVE  RowsFit' /\ Implements
    BY <1>2, <1>4, <2>6, ChiefMoves, WritingImplements
  <2> QED BY <1>3, <1>8, <2>1, <2>2, <2>3, <2>4, <2>5, <2>6 DEF Sittings!DecideAlone
<1> QED BY <1>1, <1>5, <1>6, <1>7, <1>8

-----------------------------------------------------------------------------
(* Sittings: a signature that was given meanwhile is seen before the call. *)

KeepsThese(r, x) ==
  /\ r.reviewer # Nobody => x.reviewer \in {r.reviewer, Nobody}
  /\ r.admin # Nobody => x.admin \in {r.admin, Nobody}

LEMMA SingleWrites ==
  ASSUME RowsFit, NEW p, NEW sit, sit.actor \in Deciders,
         sit.kind = "SIGN" => sit.step = "domain",
         Sittings!Single(sit, p), Sittings!ReachesService(sit, p)
  PROVE  \/ UNCHANGED rev
         \/ \E x : /\ Sittings!Change(p[1], p[2], x)
                   /\ p[1] \in SetCodes /\ p[2] \in RevNos =>
                        /\ RowMoves(rev[p[1]][p[2]], x)
                        /\ sit.kind = "DECIDE" => KeepsThese(rev[p[1]][p[2]], x)
<1>1. PICK c, n : c = p[1] /\ n = p[2]
  OBVIOUS
<1>2. c \in SetCodes /\ n \in RevNos => RowFits(rev[c][n])
  BY DEF RowsFit
<1>3. Sittings!Of(p) = rev[c][n]
  BY <1>1 DEF Sittings!Of
<1> DEFINE Goal == \/ UNCHANGED rev
                   \/ \E x : /\ Sittings!Change(c, n, x)
                             /\ c \in SetCodes /\ n \in RevNos =>
                                  /\ RowMoves(rev[c][n], x)
                                  /\ sit.kind = "DECIDE" => KeepsThese(rev[c][n], x)
<1>4. CASE sit.kind = "SIGN"
  <2>1. UNCHANGED rev \/ Sittings!Change(c, n, [rev[c][n] EXCEPT !.controls = sit.actor])
    <3>1. sit.step # "reviewer" /\ sit.step # "admin"
      BY <1>4
    <3>2. \/ Sittings!Change(p[1], p[2], [Sittings!Of(p) EXCEPT !.controls = sit.actor])
          \/ UNCHANGED rev
      BY <1>4, <3>1 DEF Sittings!Single
    <3> QED BY <1>1, <1>3, <3>2, Zenon
  <2>2. c \in SetCodes /\ n \in RevNos =>
          RowMoves(rev[c][n], [rev[c][n] EXCEPT !.controls = sit.actor])
    BY <1>2, MinorFieldsMove
  <2>3. Goal
    BY <1>4, <2>1, <2>2
  <2> QED BY <1>1, <2>3
<1>5. CASE sit.kind # "SIGN" /\ sit.step = "reviewer"
  <2>1. Sittings!ReviewerSignoff(sit.actor, c, n, sit.decision)
    BY <1>1, <1>5 DEF Sittings!Single
  <2>2. PICK x : /\ Sittings!Change(c, n, x)
                 /\ c \in SetCodes /\ n \in RevNos =>
                      /\ RowMoves(rev[c][n], x)
                      /\ SignedByReviewer(rev[c][n], x, sit.actor) \/ SentBack(rev[c][n], x)
    BY <1>2, <2>1, ReviewerMoves
  <2>3. sit.kind = "DECIDE" => rev[c][n].reviewer = Nobody
    BY <1>3, <1>5 DEF Sittings!ReachesService, Sittings!Unsigned
  <2>4. Goal
    BY <2>2, <2>3 DEF KeepsThese, SignedByReviewer, SentBack
  <2> QED BY <1>1, <2>4
<1>6. CASE sit.kind # "SIGN" /\ sit.step = "admin"
  <2>1. Sittings!AdminSignoff(sit.actor, c, n, sit.decision)
    BY <1>1, <1>6 DEF Sittings!Single
  <2>2. PICK x : /\ Sittings!Change(c, n, x)
                 /\ c \in SetCodes /\ n \in RevNos =>
                      /\ RowMoves(rev[c][n], x)
                      /\ SignedByAdmin(rev[c][n], x, sit.actor) \/ SentBack(rev[c][n], x)
    BY <1>2, <2>1, AdminMoves
  <2>3. sit.kind = "DECIDE" => rev[c][n].admin = Nobody
    BY <1>3, <1>6 DEF Sittings!ReachesService, Sittings!Unsigned
  <2>4. Goal
    BY <2>2, <2>3 DEF KeepsThese, SignedByAdmin, SentBack
  <2> QED BY <1>1, <2>4
<1>7. CASE sit.kind # "SIGN" /\ sit.step \notin {"reviewer", "admin"}
  <2>1. Sittings!ChiefEngineerDecide(sit.actor, c, n, sit.decision)
    BY <1>1, <1>7 DEF Sittings!Single
  <2>2. PICK x : /\ Sittings!Change(c, n, x)
                 /\ c \in SetCodes /\ n \in RevNos =>
                      /\ RowMoves(rev[c][n], x)
                      /\ DecidedByChief(rev[c][n], x, sit.actor) \/ SentBack(rev[c][n], x)
    BY <1>2, <2>1, ChiefMoves
  <2>3. Goal
    BY <2>2 DEF KeepsThese, DecidedByChief, SentBack
  <2> QED BY <1>1, <2>3
<1> QED BY <1>4, <1>5, <1>6, <1>7

LEMMA ServedNext ==
  ASSUME SittingsFit, NEW k \in SittingIds, NEW x, ServedFits(x),
         sitting' = [sitting EXCEPT ![k] = x]
  PROVE  SittingsFit'
<1>1. /\ sitting' = [j \in SittingIds |-> sitting'[j]]
      /\ \A j \in SittingIds : sitting'[j] = IF j = k THEN x ELSE sitting[j]
  BY DEF SittingsFit
<1>2. \A j \in SittingIds : ServedFits(sitting[j])
  BY DEF SittingsFit
<1>3. \A j \in SittingIds : ServedFits(sitting'[j])
  BY <1>1, <1>2
<1> QED BY <1>1, <1>3 DEF SittingsFit

LEMMA IdleFits == ServedFits(Sittings!Idle)
<1>1. PICK x : x = Sittings!Idle
  OBVIOUS
<1>2. IsServed(x) /\ x.kind = "IDLE"
  BY <1>1 DEF Sittings!Idle, IsServed
<1>3. ServedFits(x)
  BY <1>2 DEF ServedFits
<1> QED BY <1>1, <1>3

LEMMA QuietKeeps ==
  ASSUME UNCHANGED rev \/ UNCHANGED sitting
  PROVE  Sittings!KeepsSignatures
<1>1. CASE UNCHANGED sitting
  BY <1>1 DEF Sittings!KeepsSignatures
<1>2. CASE UNCHANGED rev
  BY <1>2 DEF Sittings!KeepsSignatures, Sittings!Of
<1> QED BY <1>1, <1>2

\* One transaction of a loop: a decision, a refusal, or the end.
LEMMA ProceedImplements ==
  ASSUME SittingsInv, NEW k \in SittingIds, NEW sit, ServedFits(sit), sit.actor \in Deciders,
         Sittings!Proceed(k, sit)
  PROVE  SittingsInv' /\ Implements /\ Sittings!KeepsSignatures
<1>1. RowsFit /\ SittingsFit
  BY DEF SittingsInv
<1>2. ASSUME NEW left, NEW y, y = [sit EXCEPT !.left = left] \/
                              y = [sit EXCEPT !.left = left, !.done = TRUE]
      PROVE  ServedFits(y) /\ y.kind = sit.kind
  <2>1. IsServed(y) /\ y.kind = sit.kind /\ y.actor = sit.actor /\ y.step = sit.step
    BY <1>2 DEF ServedFits, IsServed
  <2> QED BY <2>1 DEF ServedFits
<1>3. ASSUME Sittings!DecideOne(k, sit)
      PROVE  SittingsInv' /\ Implements /\ Sittings!KeepsSignatures
  <2>1. PICK p, left :
          /\ Sittings!ReachesService(sit, p) /\ Sittings!Single(sit, p)
          /\ sitting' = [sitting EXCEPT ![k] = [sit EXCEPT !.left = left, !.done = TRUE]]
    BY <1>3 DEF Sittings!DecideOne
  <2>2. PICK y : y = [sit EXCEPT !.left = left, !.done = TRUE]
    OBVIOUS
  <2>3. ServedFits(y) /\ y.kind = sit.kind
    BY <1>2, <2>2
  <2>4. sitting' = [sitting EXCEPT ![k] = y]
    BY <2>1, <2>2
  <2>5. SittingsFit'
    BY <1>1, <2>3, <2>4, ServedNext
  <2>6. \A j \in SittingIds : sitting'[j] = IF j = k THEN y ELSE sitting[j]
    BY <1>1, <2>4 DEF SittingsFit
  <2>7. sit.kind = "SIGN" => sit.step = "domain"
    BY DEF ServedFits
  <2>8. CASE UNCHANGED rev
    BY <1>1, <2>5, <2>8, QuietImplements, QuietKeeps DEF SittingsInv
  <2>9. ASSUME NEW x, Sittings!Change(p[1], p[2], x),
               p[1] \in SetCodes /\ p[2] \in RevNos =>
                 /\ RowMoves(rev[p[1]][p[2]], x)
                 /\ sit.kind = "DECIDE" => KeepsThese(rev[p[1]][p[2]], x)
        PROVE  SittingsInv' /\ Implements /\ Sittings!KeepsSignatures
    <3>1. RowsFit' /\ Implements
      BY <1>1, <2>9, WritingImplements
    <3>2. \A d \in SetCodes, m \in RevNos :
            rev'[d][m] = IF d = p[1] /\ m = p[2] THEN x ELSE rev[d][m]
      BY <1>1, <2>9, RowIsChanged
    <3>3. ASSUME sit.kind = "DECIDE", NEW c \in SetCodes, NEW n \in RevNos
          PROVE  KeepsThese(rev[c][n], rev'[c][n])
      <4>1. CASE c = p[1] /\ n = p[2]
        BY <2>9, <3>2, <3>3, <4>1
      <4>2. CASE ~(c = p[1] /\ n = p[2])
        BY <3>2, <4>2 DEF KeepsThese
      <4> QED BY <4>1, <4>2
    <3>4. Sittings!KeepsSignatures
      <4> SUFFICES ASSUME NEW j \in SittingIds, NEW q \in Sittings!Requests,
                          sitting'[j].left # sitting[j].left, sitting'[j].kind = "DECIDE"
                   PROVE  KeepsThese(rev[q[1]][q[2]], rev'[q[1]][q[2]])
        BY DEF Sittings!KeepsSignatures, KeepsThese, Sittings!Of
      <4>1. j = k /\ sit.kind = "DECIDE"
        BY <2>3, <2>6
      <4>2. q[1] \in SetCodes /\ q[2] \in RevNos
        BY DEF Sittings!Requests, Sittings!RevNo, RevNos
      <4> QED BY <3>3, <4>1, <4>2
    <3> QED BY <2>5, <3>1, <3>4 DEF SittingsInv
  <2> QED BY <1>1, <2>1, <2>7, <2>8, <2>9, SingleWrites
<1>4. ASSUME Sittings!RefuseOne(k, sit)
      PROVE  SittingsInv' /\ Implements /\ Sittings!KeepsSignatures
  <2>1. PICK left : /\ sitting' = [sitting EXCEPT ![k] = [sit EXCEPT !.left = left]]
                    /\ UNCHANGED rev
    BY <1>4 DEF Sittings!RefuseOne
  <2>2. ServedFits([sit EXCEPT !.left = left])
    BY <1>2
  <2>3. SittingsFit'
    BY <1>1, <2>1, <2>2, ServedNext
  <2> QED BY <1>1, <2>1, <2>3, QuietImplements, QuietKeeps DEF SittingsInv
<1>5. ASSUME Sittings!Finish(k, sit)
      PROVE  SittingsInv' /\ Implements /\ Sittings!KeepsSignatures
  <2>1. sitting' = [sitting EXCEPT ![k] = Sittings!Idle] /\ UNCHANGED rev
    BY <1>5 DEF Sittings!Finish
  <2>2. SittingsFit'
    BY <1>1, <2>1, IdleFits, ServedNext
  <2> QED BY <1>1, <2>1, <2>2, QuietImplements, QuietKeeps DEF SittingsInv
<1> QED BY <1>3, <1>4, <1>5 DEF Sittings!Proceed

\* Who begins a sitting, and who goes on with it.
LEMMA SitImplements ==
  ASSUME SittingsInv, Sittings!Sit
  PROVE  SittingsInv' /\ Implements /\ Sittings!KeepsSignatures
<1>1. PICK u \in Sitters, k \in SittingIds :
        \/ \E step, decision, wanted, s : Sittings!BulkDecide(u, k, step, decision, wanted, s)
        \/ \E wanted, s : Sittings!BulkDomainSignoff(u, k, wanted, s)
        \/ \E s : Sittings!RejectDefects(u, k, s)
  BY DEF Sittings!Sit
<1>2. u \in Deciders
  BY SittingsAssumption DEF Sittings!BulkAssumption
<1>3. PICK sit :
        /\ Sittings!Proceed(k, sit)
        /\ \E kind, step, decision, s, left, group :
             /\ sit = [kind |-> kind, actor |-> u, step |-> step, decision |-> decision,
                       sample |-> s, left |-> left, batch |-> group, done |-> FALSE]
             /\ kind = "SIGN" => step = "domain"
  <2>1. CASE \E step, decision, wanted, s : Sittings!BulkDecide(u, k, step, decision, wanted, s)
    BY <2>1 DEF Sittings!BulkDecide
  <2>2. CASE \E wanted, s : Sittings!BulkDomainSignoff(u, k, wanted, s)
    BY <2>2 DEF Sittings!BulkDomainSignoff
  <2>3. CASE \E s : Sittings!RejectDefects(u, k, s)
    BY <2>3 DEF Sittings!RejectDefects
  <2> QED BY <1>1, <2>1, <2>2, <2>3
<1>4. IsServed(sit) /\ sit.actor = u /\ (sit.kind = "SIGN" => sit.step = "domain")
  BY <1>3 DEF IsServed
<1>5. ServedFits(sit)
  BY <1>2, <1>4 DEF ServedFits
<1> QED BY <1>2, <1>3, <1>4, <1>5, ProceedImplements

LEMMA ContinueImplements ==
  ASSUME SittingsInv, NEW k \in SittingIds, Sittings!Continue(k)
  PROVE  SittingsInv' /\ Implements /\ Sittings!KeepsSignatures
<1>1. ServedFits(sitting[k]) /\ sitting[k].actor \in Deciders
  BY DEF SittingsInv, SittingsFit, ServedFits, Sittings!Continue
<1>2. Sittings!Proceed(k, sitting[k])
  BY DEF Sittings!Continue
<1> QED BY <1>1, <1>2, ProceedImplements

LEMMA BreakImplements ==
  ASSUME SittingsInv, NEW k \in SittingIds, Sittings!Break(k)
  PROVE  SittingsInv' /\ Implements /\ Sittings!KeepsSignatures
<1>1. UNCHANGED rev /\ sitting' = [sitting EXCEPT ![k] = Sittings!Idle]
  BY DEF Sittings!Break
<1>2. SittingsFit'
  BY <1>1, IdleFits, ServedNext DEF SittingsInv
<1> QED BY <1>1, <1>2, QuietImplements, QuietKeeps DEF SittingsInv

LEMMA SittingsStep ==
  ASSUME SittingsInv, Sittings!Next
  PROVE  SittingsInv' /\ Implements /\ Sittings!KeepsSignatures
<1>1. CASE UNCHANGED rev /\ UNCHANGED sitting
  <2>1. SittingsFit'
    BY <1>1 DEF SittingsInv, SittingsFit
  <2> QED BY <1>1, <2>1, QuietImplements, QuietKeeps DEF SittingsInv
<1>2. CASE Sittings!Alone
  <2>1. RowsFit' /\ Implements /\ UNCHANGED sitting
    BY <1>2, AloneImplements DEF SittingsInv
  <2>2. SittingsFit'
    BY <2>1 DEF SittingsInv, SittingsFit
  <2> QED BY <2>1, <2>2, QuietKeeps DEF SittingsInv
<1>3. ASSUME Sittings!OnSet, UNCHANGED rev
      PROVE  UNCHANGED sitting
  <2>1. \A u, p : Sittings!AddCr(u, p) \/ Sittings!RemoveCr(u, p) => UNCHANGED sitting
    BY DEF Sittings!AddCr, Sittings!RemoveCr
  <2>2. \A u : Sittings!CloseSet(u) => UNCHANGED sitting
    BY DEF Sittings!CloseSet
  <2>3. \A u, step, wanted, s : Sittings!DrawSample(u, step, wanted, s) => UNCHANGED sitting
    BY DEF Sittings!DrawSample
  <2>4. \A u, s, p, mark : Sittings!RecordVerdict(u, s, p, mark) => UNCHANGED sitting
    BY DEF Sittings!RecordVerdict
  <2> QED BY <1>3, <2>1, <2>2, <2>3, <2>4 DEF Sittings!OnSet
<1>4. ASSUME NEW s, Sittings!SampleAges(s)
      PROVE  UNCHANGED sitting
  BY <1>4 DEF Sittings!SampleAges
<1> QED BY <1>1, <1>2, <1>3, <1>4, SitImplements, ContinueImplements, BreakImplements
        DEF Sittings!Next

LEMMA SittingsBegin ==
  ASSUME Sittings!Init
  PROVE  SittingsInv
<1>1. rev = Drafts /\ sitting = [k \in SittingIds |-> Sittings!Idle]
  BY DEF Sittings!Init
<1>2. SittingsFit
  BY <1>1, IdleFits DEF SittingsFit
<1>3. Drafts = [c \in SetCodes |-> [n \in RevNos |-> Drafts[c][n]]]
  BY SittingsAssumption DEF Sittings!BulkAssumption, Sittings!RevNo, RevNos
<1>4. \A c \in SetCodes, n \in RevNos : IsRow(Drafts[c][n])
  <2> SUFFICES ASSUME NEW c \in SetCodes, NEW n \in RevNos PROVE IsRow(Drafts[c][n])
    OBVIOUS
  <2>1. PICK r : r = Drafts[c][n]
    OBVIOUS
  <2>2. r \in Sittings!Revision
    BY <2>1, SittingsAssumption DEF Sittings!BulkAssumption, Sittings!RevNo, RevNos
  <2>3. IsRow(r)
    BY <2>2 DEF Sittings!Revision, IsRow
  <2> QED BY <2>1, <2>3
<1>5. \A c \in SetCodes, n \in RevNos :
        Drafts[c][n].status \in Sittings!OpenStates => Drafts[c][n].chief = Nobody
  BY SittingsAssumption DEF Sittings!BulkAssumption, Sittings!RevNo, RevNos
<1>6. RowsFit
  BY <1>1, <1>3, <1>4, <1>5 DEF RowsFit, RowFits
<1> QED BY <1>2, <1>6 DEF SittingsInv

LEMMA OnlyOneScene ==
  ASSUME SittingsInv, [Next]_vars
  PROVE  /\ SittingsInv'
         /\ [scene = "sittings" => Implements /\ Sittings!KeepsSignatures]_sittings
<1>1. CASE UNCHANGED sittings
  BY <1>1 DEF sittings, SittingsInv, RowsFit, SittingsFit
<1>2. CASE Only("sittings") /\ Sittings!Next
  BY <1>2, SittingsStep
<1>3. [Next]_vars => UNCHANGED sittings \/ (Only("sittings") /\ Sittings!Next)
  BY DEF Next, Only, vars
<1> QED BY <1>1, <1>2, <1>3

LEMMA ImplementsIsAStep ==
  ASSUME Implements
  PROVE  Sittings!LifecycleStep
BY Zenon DEF Implements, StatusSeen, SignedSeen, Sittings!LifecycleStep,
             Sittings!Abstract!lifecycleVars

\* FR-180, BR-004, BR-005: for any staff, any requests and any number of sittings at once,
\* bulk work takes steps of the lifecycle only, and it never replaces a signature that
\* somebody gave while it was under way (bulk_service).
THEOREM SittingsFollowTheLifecycle == JobsSpec => StepsOfTheLifecycle
<1>1. Init => SittingsInv
  BY SittingsBegin DEF Init
<1>2. SittingsInv /\ [Next]_vars => SittingsInv'
  BY OnlyOneScene
<1>3. SittingsInv /\ [Next]_vars =>
        [scene = "sittings" => Sittings!LifecycleStep /\ Sittings!KeepsSignatures]_sittings
  BY OnlyOneScene, ImplementsIsAStep
<1> QED BY <1>1, <1>2, <1>3, PTL DEF JobsSpec, StepsOfTheLifecycle
=============================================================================
