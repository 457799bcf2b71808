-------------------------- MODULE LifecycleProofs ---------------------------
(***************************************************************************)
(* Numbers, revisions and releases, and that the services implement the    *)
(* lifecycle, for every number of people, codes, bands, revisions and      *)
(* releases.                                                               *)
(*                                                                         *)
(* NumbersAgree by itself is not inductive: that a new code takes its id   *)
(* with nothing attached, and that a sandbox code holds no reservation,    *)
(* must be known as well.                                                  *)
(*                                                                         *)
(* NewestIsCurrent is a property of the revisions of one code, here called *)
(* Ordered, and there are three ways to change these: one of them moves    *)
(* on, one is opened behind them, or the last is taken away.  The marks of *)
(* empty shells rest on it: only the first revision leaves nothing behind. *)
(*                                                                         *)
(* ReleasesAgree is inductive beside the types, given that no request      *)
(* moves a revision that a release may hold.  Seen from the lifecycle, an  *)
(* operation moves one revision, or all those of a release, or nothing.    *)
(***************************************************************************)
EXTENDS GovernanceProofs

-----------------------------------------------------------------------------
(* One number, one code.                                                   *)

\* An unused id has neither number nor reservation nor revision.
UnusedIsBlank ==
  \A c \in Codes : code[c].kind = "NONE" =>
    /\ code[c].number = NoNumber
    /\ code[c].reserved = NoNumber
    /\ ~HasRevision(c)

\* A sandbox code has its number from the start and reserves none.
SandboxIsNumbered ==
  \A c \in Codes : code[c].kind = "SANDBOX" =>
    /\ code[c].number # NoNumber
    /\ code[c].reserved = NoNumber

NumberingInv == UnusedIsBlank /\ SandboxIsNumbered /\ NumbersAgree

-----------------------------------------------------------------------------
(* Effects on the numbers                                                  *)

\* `c` is as before, but may have given up what it held.
MayGiveUp(c) ==
  /\ code'[c].kind = code[c].kind
  /\ code'[c].band = code[c].band
  /\ \/ code'[c].number = code[c].number
     \/ code'[c].number = NoNumber /\ code[c].kind = "REAL"
  /\ code'[c].reserved \in {code[c].reserved, NoNumber}

\* No number is given out: the code keeps what it has, or gives it up.
LEMMA GivingUpKeeps ==
  ASSUME NumberingInv, \A c \in Codes : MayGiveUp(c)
  PROVE  SandboxIsNumbered' /\ NumbersAgree'
<1> USE DEF NumberingInv
<1>1. SandboxIsNumbered'
  BY DEF SandboxIsNumbered, MayGiveUp
<1>2. ASSUME NEW c \in Codes, NEW d \in Codes,
             code'[c].kind = "REAL", code'[c].number # NoNumber
      PROVE  /\ code'[c].number \in NumbersOf(code'[c].band)
             /\ code'[c].reserved \in {NoNumber, code'[c].number}
  BY <1>2 DEF NumbersAgree, MayGiveUp
<1>3. ASSUME NEW c \in Codes, NEW d \in Codes, c # d, code'[c].number # NoNumber
      PROVE  ~ /\ code'[d].kind = code'[c].kind
               /\ code'[c].number \in {code'[d].number, code'[d].reserved}
  BY <1>3 DEF NumbersAgree, MayGiveUp
<1> QED BY <1>1, <1>2, <1>3 DEF NumbersAgree

\* One code changes; what it holds then is right by itself and against the rest.
LEMMA OneCodeChanges ==
  ASSUME NumberingInv, code \in [Codes -> Code], NEW c \in Codes, NEW r,
         code' = [code EXCEPT ![c] = r],
         r.kind = "SANDBOX" => r.number # NoNumber /\ r.reserved = NoNumber,
         r.kind = "REAL" /\ r.number # NoNumber =>
           r.number \in NumbersOf(r.band) /\ r.reserved \in {NoNumber, r.number},
         \A d \in Codes \ {c} : code[d].kind = r.kind =>
           /\ r.number # NoNumber => r.number \notin {code[d].number, code[d].reserved}
           /\ code[d].number # NoNumber => code[d].number # r.reserved
  PROVE  SandboxIsNumbered' /\ NumbersAgree'
<1> USE DEF NumberingInv
<1>1. code'[c] = r /\ \A d \in Codes \ {c} : code'[d] = code[d]
  OBVIOUS
<1>2. SandboxIsNumbered'
  BY <1>1 DEF SandboxIsNumbered
<1>3. ASSUME NEW a \in Codes, code'[a].kind = "REAL", code'[a].number # NoNumber
      PROVE  /\ code'[a].number \in NumbersOf(code'[a].band)
             /\ code'[a].reserved \in {NoNumber, code'[a].number}
  BY <1>1, <1>3 DEF NumbersAgree
<1>4. ASSUME NEW a \in Codes, NEW b \in Codes, a # b, code'[a].number # NoNumber
      PROVE  ~ /\ code'[b].kind = code'[a].kind
               /\ code'[a].number \in {code'[b].number, code'[b].reserved}
  <2>1. CASE a = c
    BY <1>1, <1>4, <2>1
  <2>2. CASE b = c
    BY <1>1, <1>4, <2>2
  <2>3. CASE a # c /\ b # c
    BY <1>1, <1>4, <2>3 DEF NumbersAgree
  <2> QED BY <2>1, <2>2, <2>3
<1> QED BY <1>2, <1>3, <1>4 DEF NumbersAgree

-----------------------------------------------------------------------------
(* The operations that give out a number                                   *)

LEMMA CreateDraftNumbers ==
  ASSUME NumberingInv, CatalogueInv, NEW actor \in Users, NEW c \in Codes,
         NEW b \in Bands, NEW reserved \in NumbersOf(b) \union {NoNumber},
         NEW platforms \in BOOLEAN, CreateDraft(actor, c, b, reserved, platforms)
  PROVE  SandboxIsNumbered' /\ NumbersAgree'
<1> DEFINE r == [kind |-> "REAL", band |-> b, number |-> NoNumber,
                 reserved |-> reserved, withdrawn |-> FALSE, deleted |-> FALSE]
<1>1. code' = [code EXCEPT ![c] = r]
  BY DEF CreateDraft
<1>2. \A d \in Codes \ {c} : code[d].kind = "REAL" /\ code[d].number # NoNumber
        => code[d].number # reserved
  BY DEF CreateDraft, Issued
<1>3. code \in [Codes -> Code]
  BY DEF CatalogueInv
<1>4. r.kind = "REAL" /\ r.number = NoNumber /\ r.reserved = reserved
  OBVIOUS
<1> HIDE DEF r
<1>5. \A d \in Codes \ {c} : code[d].kind = r.kind =>
        /\ r.number # NoNumber => r.number \notin {code[d].number, code[d].reserved}
        /\ code[d].number # NoNumber => code[d].number # r.reserved
  BY <1>2, <1>4
<1>6. /\ r.kind = "SANDBOX" => r.number # NoNumber /\ r.reserved = NoNumber
      /\ r.kind = "REAL" /\ r.number # NoNumber =>
           r.number \in NumbersOf(r.band) /\ r.reserved \in {NoNumber, r.number}
  BY <1>4
<1> QED BY <1>1, <1>3, <1>5, <1>6, OneCodeChanges

LEMMA CreateSandboxNumbers ==
  ASSUME NumberingInv, CatalogueInv, NEW actor \in Users, NEW c \in Codes,
         NEW k \in 0 .. SandboxLast, NEW platforms \in BOOLEAN,
         CreateSandbox(actor, c, k, platforms)
  PROVE  SandboxIsNumbered' /\ NumbersAgree'
<1> DEFINE r == [NoCode EXCEPT !.kind = "SANDBOX", !.number = k]
<1>1. code' = [code EXCEPT ![c] = r]
  BY DEF CreateSandbox
<1>2. r.kind = "SANDBOX" /\ r.number = k /\ r.reserved = NoNumber
  BY DEF NoCode
<1>3. k \in Int /\ k # NoNumber
  BY CatalogueAssumption DEF NoNumber
<1>4. \A d \in Codes \ {c} : code[d].kind = "SANDBOX" => code[d].number # k
  BY <1>3 DEF CreateSandbox, IsNextSandboxNumber
<1>5. \A d \in Codes : code[d].kind = "SANDBOX" => code[d].reserved = NoNumber
  BY DEF NumberingInv, SandboxIsNumbered
<1>6. code \in [Codes -> Code]
  BY DEF CatalogueInv
<1> HIDE DEF r
<1>7. \A d \in Codes \ {c} : code[d].kind = r.kind =>
        /\ r.number # NoNumber => r.number \notin {code[d].number, code[d].reserved}
        /\ code[d].number # NoNumber => code[d].number # r.reserved
  BY <1>2, <1>3, <1>4, <1>5
<1>8. /\ r.kind = "SANDBOX" => r.number # NoNumber /\ r.reserved = NoNumber
      /\ r.kind = "REAL" /\ r.number # NoNumber =>
           r.number \in NumbersOf(r.band) /\ r.reserved \in {NoNumber, r.number}
  BY <1>2, <1>3
<1> QED BY <1>1, <1>6, <1>7, <1>8, OneCodeChanges

LEMMA SubmitNumbers ==
  ASSUME NumberingInv, CatalogueInv, NEW actor \in Users, NEW c \in Codes,
         NEW n \in RevNo, NEW k \in AllNumbers \union 0 .. SandboxLast,
         NEW auto \in BOOLEAN, Submit(actor, c, n, k, auto)
  PROVE  SandboxIsNumbered' /\ NumbersAgree'
<1> DEFINE r == [code[c] EXCEPT !.number = k]
<1>1. code' = [code EXCEPT ![c] = r] /\ code \in [Codes -> Code] /\ code[c] \in Code
  BY DEF Submit, CatalogueInv
<1>2. /\ r.kind = code[c].kind /\ r.band = code[c].band
      /\ r.number = k /\ r.reserved = code[c].reserved
  BY <1>1 DEF Code
<1> HIDE DEF r
<1>3. IssuedOnSubmit(actor, c, k) /\ code[c].kind # "NONE"
  BY DEF Submit, IsRequest, HasRevision, NumberingInv, UnusedIsBlank
<1>4. CASE code[c].number # NoNumber
  <2>1. k = code[c].number
    BY <1>3, <1>4 DEF IssuedOnSubmit
  <2>2. \A d \in Codes : MayGiveUp(d)
    BY <1>1, <1>2, <2>1 DEF MayGiveUp
  <2> QED BY <2>2, GivingUpKeeps
<1>5. CASE code[c].number = NoNumber
  <2>1. code[c].kind = "REAL"
    BY <1>1, <1>3, <1>5 DEF NumberingInv, SandboxIsNumbered, Code
  <2>2. code[c].reserved \in {NoNumber, k}
    BY <1>3, <1>5 DEF IssuedOnSubmit
  <2>3. /\ k \in NumbersOf(code[c].band)
        /\ ~Issued(k)
        /\ \A d \in Codes \ {c} : ~ReservedBy(d, k)
    <3>1. CASE MayTakeNumber(c, k)
      BY <3>1 DEF MayTakeNumber
    <3>2. CASE IsNextNumber(code[c].band, k)
      <4>1. code[c].band \in Bands
        BY <1>1 DEF Code
      <4>2. k \in Int
        BY <3>2, <4>1, CatalogueAssumption DEF IsNextNumber, NumbersOf
      <4> QED BY <3>2, <4>2 DEF IsNextNumber
    <3> QED BY <1>3, <1>5, <3>1, <3>2 DEF IssuedOnSubmit
  <2>4. \A d \in Codes \ {c} : code[d].kind = "REAL" =>
          /\ k \notin {code[d].number, code[d].reserved}
          /\ code[d].number # NoNumber => code[d].number # code[c].reserved
    BY <2>1, <2>3 DEF Issued, ReservedBy, NumberingInv, NumbersAgree
  <2>5. \A d \in Codes \ {c} : code[d].kind = r.kind =>
          /\ r.number # NoNumber => r.number \notin {code[d].number, code[d].reserved}
          /\ code[d].number # NoNumber => code[d].number # r.reserved
    BY <1>2, <2>1, <2>4
  <2>6. /\ r.kind = "SANDBOX" => r.number # NoNumber /\ r.reserved = NoNumber
        /\ r.kind = "REAL" /\ r.number # NoNumber =>
             r.number \in NumbersOf(r.band) /\ r.reserved \in {NoNumber, r.number}
    BY <1>2, <2>1, <2>2, <2>3
  <2> QED BY <1>1, <2>5, <2>6, OneCodeChanges
<1> QED BY <1>4, <1>5

-----------------------------------------------------------------------------
(* All operations                                                          *)

\* An operation that gives out no number and starts no code.
LEMMA QuietKeeps ==
  ASSUME NumberingInv, \A c \in Codes : MayGiveUp(c),
         \A c \in Codes, n \in RevNo : code[c].kind = "NONE" => rev'[c][n].status = "NONE"
  PROVE  NumberingInv'
<1>1. UnusedIsBlank'
  BY DEF NumberingInv, UnusedIsBlank, MayGiveUp, HasRevision, Exists
<1> QED BY <1>1, GivingUpKeeps DEF NumberingInv

LEMMA BlankRows ==
  ASSUME NumberingInv, NEW c \in Codes, NEW n \in RevNo, code[c].kind = "NONE"
  PROVE  rev[c][n].status = "NONE"
BY DEF NumberingInv, UnusedIsBlank, HasRevision, Exists

\* A row that exists is replaced.
LEMMA ChangeQuiet ==
  ASSUME NumberingInv, CatalogueInv, NEW c \in Codes, NEW n \in RevNo, NEW r,
         Change(c, n, r), rev[c][n].status # "NONE", \A d \in Codes : MayGiveUp(d)
  PROVE  NumberingInv'
<1>1. code[c].kind # "NONE"
  BY BlankRows
<1>2. \A d \in Codes \ {c}, m \in RevNo : rev'[d][m] = rev[d][m]
  BY DEF Change, CatalogueInv, SoundRevisions
<1> QED BY <1>1, <1>2, BlankRows, QuietKeeps

\* A revision is opened on a code in use.
LEMMA OpenQuiet ==
  ASSUME NumberingInv, CatalogueInv, NEW c \in Codes, NEW n \in RevNo, NEW r,
         Open(c, n, r), code[c].kind # "NONE", \A d \in Codes : MayGiveUp(d)
  PROVE  NumberingInv'
<1>1. \A d \in Codes \ {c}, m \in RevNo : rev'[d][m] = rev[d][m]
  BY DEF Open, CatalogueInv, SoundRevisions
<1> QED BY <1>1, BlankRows, QuietKeeps

\* The code is what it was.
LEMMA UnchangedCode ==
  ASSUME UNCHANGED code
  PROVE  \A d \in Codes : MayGiveUp(d)
BY DEF MayGiveUp

\* A code is entered.
LEMMA EntryBlank ==
  ASSUME NumberingInv, CatalogueInv, NEW c \in Codes, NEW n, NEW r, NEW s, Open(c, n, r),
         code' = [code EXCEPT ![c] = s], s.kind # "NONE"
  PROVE  UnusedIsBlank'
<1>1. \A d \in Codes \ {c} : code'[d] = code[d] /\ rev'[d] = rev[d]
  BY DEF Open, CatalogueInv, SoundRevisions
<1>2. code'[c].kind # "NONE"
  BY DEF CatalogueInv
<1> QED BY <1>1, <1>2 DEF NumberingInv, UnusedIsBlank, HasRevision, Exists

LEMMA DraftingNumbers ==
  ASSUME NumberingInv, CatalogueInv, NEW actor \in Users, NEW c \in Codes,
         Drafting(actor, c)
  PROVE  NumberingInv'
<1>1. ASSUME NEW b \in Bands, NEW platforms \in BOOLEAN,
             NEW reserved \in NumbersOf(b) \union {NoNumber},
             CreateDraft(actor, c, b, reserved, platforms)
      PROVE  NumberingInv'
  <2> DEFINE s == [kind |-> "REAL", band |-> b, number |-> NoNumber,
                   reserved |-> reserved, withdrawn |-> FALSE, deleted |-> FALSE]
  <2>1. s.kind # "NONE"
    OBVIOUS
  <2>2. code' = [code EXCEPT ![c] = s] /\ Open(c, 1, NewDraft(actor, platforms, FALSE, TRUE))
    BY <1>1 DEF CreateDraft
  <2> HIDE DEF s
  <2>3. UnusedIsBlank'
    BY <2>1, <2>2, EntryBlank
  <2> QED BY <1>1, <2>3, CreateDraftNumbers DEF NumberingInv
<1>2. ASSUME NEW source \in Codes, CreatePlatformVariant(actor, source, c)
      PROVE  NumberingInv'
  <2>1. code[source].band \in Bands
    BY DEF CatalogueInv, Code
  <2> QED BY <1>1, <1>2, <2>1 DEF CreatePlatformVariant
<1>3. ASSUME NEW n \in RevNo, NEW platforms \in BOOLEAN,
             CreateRevision(actor, c, n, platforms)
      PROVE  NumberingInv'
  <2>1. \A d \in Codes : MayGiveUp(d)
    BY <1>3 DEF CreateRevision, MayGiveUp, CatalogueInv, Code
  <2> QED BY <1>3, <2>1, OpenQuiet DEF CreateRevision
<1>4. ASSUME NEW n \in RevNo, CreateDeprecationRequest(actor, c, n)
      PROVE  NumberingInv'
  <2>1. PICK m \in RevNo :
          /\ rev[c][m].status # "NONE"
          /\ Open(c, n, NewDraft(actor, rev[c][m].platforms, TRUE, TRUE))
    BY <1>4 DEF CreateDeprecationRequest, IsCurrent, Exists
  <2>2. code[c].kind # "NONE"
    BY <2>1, BlankRows
  <2>3. UNCHANGED code
    BY <1>4 DEF CreateDeprecationRequest
  <2> QED BY <2>1, <2>2, <2>3, UnchangedCode, OpenQuiet
<1>5. ASSUME NEW k \in 0 .. SandboxLast, NEW platforms \in BOOLEAN,
             CreateSandbox(actor, c, k, platforms)
      PROVE  NumberingInv'
  <2> DEFINE s == [NoCode EXCEPT !.kind = "SANDBOX", !.number = k]
  <2>1. s.kind # "NONE"
    BY DEF NoCode
  <2>2. code' = [code EXCEPT ![c] = s] /\ Open(c, 1, NewDraft(actor, platforms, FALSE, FALSE))
    BY <1>5 DEF CreateSandbox
  <2> HIDE DEF s
  <2>3. UnusedIsBlank'
    BY <2>1, <2>2, EntryBlank
  <2> QED BY <1>5, <2>3, CreateSandboxNumbers DEF NumberingInv
<1>6. ASSUME NEW n \in RevNo, NEW platforms \in BOOLEAN,
             UpdateDraft(actor, c, n, platforms)
      PROVE  NumberingInv'
  BY <1>6, UnchangedCode, ChangeQuiet DEF UpdateDraft
<1>7. ASSUME NEW n \in RevNo, SignDomain(actor, c, n)
      PROVE  NumberingInv'
  BY <1>7, UnchangedCode, ChangeQuiet DEF SignDomain, IsRequest, Exists
<1> QED BY <1>1, <1>2, <1>3, <1>4, <1>5, <1>6, <1>7 DEF Drafting

LEMMA ReviewingNumbers ==
  ASSUME NumberingInv, CatalogueInv, NEW actor \in Users, NEW c \in Codes,
         NEW n \in RevNo, Reviewing(actor, c, n)
  PROVE  NumberingInv'
<1>1. ASSUME NEW k \in AllNumbers \union 0 .. SandboxLast, NEW auto \in BOOLEAN,
             Submit(actor, c, n, k, auto)
      PROVE  NumberingInv'
  <2>1. PICK s : Change(c, n, s)
    BY <1>1 DEF Submit
  <2>2. rev[c][n].status # "NONE"
    BY <1>1 DEF Submit
  <2>3. code[c].kind # "NONE"
    BY <2>2, BlankRows
  <2>4. code'[c].kind = code[c].kind /\ \A d \in Codes \ {c} : code'[d] = code[d]
    BY <1>1 DEF Submit, CatalogueInv, Code
  <2>5. \A d \in Codes \ {c}, m \in RevNo : rev'[d][m] = rev[d][m]
    BY <2>1 DEF Change, CatalogueInv, SoundRevisions
  <2>6. UnusedIsBlank'
    BY <2>3, <2>4, <2>5 DEF NumberingInv, UnusedIsBlank, HasRevision, Exists
  <2> QED BY <1>1, <2>6, SubmitNumbers DEF NumberingInv
<1>2. ASSUME NEW reviewer \in Users \union {Nobody}, AssignReviewer(actor, c, n, reviewer)
      PROVE  NumberingInv'
  BY <1>2, UnchangedCode, ChangeQuiet DEF AssignReviewer
<1>3. ASSUME AutoAssignReviewer(actor, c, n)
      PROVE  NumberingInv'
  BY <1>2, <1>3 DEF AutoAssignReviewer, LeastLoaded
<1>4. ASSUME NEW decision \in Decisions,
             \/ ReviewerSignoff(actor, c, n, decision)
             \/ AdminSignoff(actor, c, n, decision)
             \/ ChiefEngineerDecide(actor, c, n, decision)
      PROVE  NumberingInv'
  <2>1. UNCHANGED code /\ \E s : Change(c, n, s)
    BY <1>4 DEF ReviewerSignoff, AdminSignoff, ChiefEngineerDecide
  <2>2. rev[c][n].status # "NONE"
    BY <1>4 DEF ReviewerSignoff, AdminSignoff, ChiefEngineerDecide,
                ReviewerMayDecide, AdminMayDecide, ChiefMayDecide
  <2> QED BY <2>1, <2>2, UnchangedCode, ChangeQuiet
<1> QED BY <1>1, <1>2, <1>3, <1>4 DEF Reviewing

LEMMA RetiringNumbers ==
  ASSUME NumberingInv, CatalogueInv, NEW actor \in Users, NEW c \in Codes,
         Retiring(actor, c)
  PROVE  NumberingInv'
<1>1. ASSUME NEW n \in RevNo, Withdraw(actor, c, n)
      PROVE  NumberingInv'
  <2>1. rev[c][n].status # "NONE"
    BY <1>1 DEF Withdraw, IsRequest, Exists
  <2>2. code[c].kind # "NONE"
    BY <2>1, BlankRows
  <2>3. \A d \in Codes \ {c}, m \in RevNo : rev'[d][m] = rev[d][m]
    BY <1>1 DEF Withdraw, CatalogueInv, SoundRevisions
  <2>4. \A d \in Codes : MayGiveUp(d)
    BY <1>1 DEF Withdraw, MayGiveUp, CatalogueInv, Code
  <2> QED BY <2>2, <2>3, <2>4, BlankRows, QuietKeeps
<1>2. ASSUME NEW n \in RevNo, Archive(actor, c, n) \/ Reinstate(actor, c, n)
      PROVE  NumberingInv'
  BY <1>2, UnchangedCode, ChangeQuiet DEF Archive, Reinstate
<1>3. ASSUME DeleteSandbox(actor, c)
      PROVE  NumberingInv'
  <2>1. NoCode.kind = "NONE" /\ NoCode.number = NoNumber /\ NoCode.reserved = NoNumber
    BY DEF NoCode
  <2>2. code' = [code EXCEPT ![c] = NoCode] /\ code \in [Codes -> Code]
    BY <1>3 DEF DeleteSandbox, CatalogueInv
  <2>3. \A d \in Codes \ {c} : code'[d] = code[d]
    BY <2>2
  <2>4. code'[c] = NoCode
    BY <2>2
  <2>5. \A d \in Codes, m \in RevNo : rev'[d][m] = IF d = c THEN NoRevision ELSE rev[d][m]
    BY <1>3 DEF DeleteSandbox, CatalogueInv, SoundRevisions
  <2>6. NoRevision.status = "NONE"
    BY DEF NoRevision
  <2>7. UnusedIsBlank'
    BY <2>1, <2>3, <2>4, <2>5, <2>6 DEF NumberingInv, UnusedIsBlank, HasRevision, Exists
  <2>8. SandboxIsNumbered' /\ NumbersAgree'
    <3>1. \A d \in Codes \ {c} : code[d].kind = NoCode.kind =>
            /\ NoCode.number # NoNumber => NoCode.number \notin {code[d].number, code[d].reserved}
            /\ code[d].number # NoNumber => code[d].number # NoCode.reserved
      BY <2>1
    <3> QED BY <2>1, <2>2, <3>1, OneCodeChanges
  <2> QED BY <2>7, <2>8 DEF NumberingInv
<1> QED BY <1>1, <1>2, <1>3 DEF Retiring

LEMMA RequestsNumbers ==
  ASSUME NumberingInv, CatalogueInv, RequestsNext
  PROVE  NumberingInv'
<1>1. ASSUME NEW actor \in Users, NEW selected \in SUBSET Codes,
             DeleteWithdrawn(actor, selected)
      PROVE  NumberingInv'
  <2>1. \A d \in Codes : MayGiveUp(d)
    BY <1>1 DEF DeleteWithdrawn, MayErase, MayGiveUp, CatalogueInv, Code
  <2> QED BY <1>1, <2>1, BlankRows, QuietKeeps DEF DeleteWithdrawn
<1> QED BY <1>1, DraftingNumbers, ReviewingNumbers, RetiringNumbers DEF RequestsNext

\* A publication moves only revisions that exist.
LEMMA ReleasesNumbers ==
  ASSUME NumberingInv, CatalogueInv, ReleasesNext, UNCHANGED code
  PROVE  NumberingInv'
<1>1. ASSUME NEW actor \in Users, NEW i \in ReleaseIds, Publish(actor, i)
      PROVE  NumberingInv'
  <2>1. \A d \in Codes, m \in RevNo :
          <<d, m>> \in release[i].items => rev[d][m].status # "NONE"
    BY <1>1 DEF Publish, Status
  <2>2. \A d \in Codes, m \in RevNo :
          rev[d][m].status = "NONE" => rev'[d][m] = rev[d][m]
    BY <1>1, <2>1 DEF Publish
  <2> QED BY <2>2, UnchangedCode, BlankRows, QuietKeeps
<1>2. CASE UNCHANGED rev
  BY <1>2, UnchangedCode, BlankRows, QuietKeeps
<1> QED BY <1>1, <1>2 DEF ReleasesNext, CreateRelease, SetItems, DeleteRelease

-----------------------------------------------------------------------------

\* Every reachable state keeps the invariant of the numbers: no id is taken
\* twice, and every number is issued once.
THEOREM NumberingInvariantHolds == Spec => []NumberingInv
<1>1. Init => NumberingInv
  BY CatalogueAssumption
  DEF Init, CatalogueInit, NumberingInv, UnusedIsBlank, SandboxIsNumbered,
      NumbersAgree, NoCode, NoRevision, HasRevision, Exists
<1>2. NumberingInv /\ GovernanceInv /\ [Next]_vars => NumberingInv'
  <2> SUFFICES ASSUME NumberingInv, GovernanceInv, [Next]_vars PROVE NumberingInv'
    OBVIOUS
  <2>1. CatalogueInv
    BY DEF GovernanceInv, CatalogueInv
  <2>2. UNCHANGED <<code, rev>> => NumberingInv'
    BY UnchangedCode, BlankRows, QuietKeeps
  <2> QED BY <2>1, <2>2, RequestsNumbers, ReleasesNumbers DEF Next, vars
<1> QED BY <1>1, <1>2, InvariantHolds, PTL DEF Spec

\* BR-001, BR-023: for any number of codes, bands and numbers, a number is one
\* code's, lies in its band, and a reserved number is never another code's: the
\* checks of numbering_service and submit suffice.
THEOREM OneNumberOneCode == Spec => []NumbersAgree
<1>1. NumberingInv => NumbersAgree
  BY DEF NumberingInv
<1> QED BY <1>1, NumberingInvariantHolds, PTL

-----------------------------------------------------------------------------
(* The revisions of a code.                                                *)

\* The revisions of one code: numbered without a gap, exactly the newest is
\* current, only the newest may be open.
Ordered(row) ==
  \A n \in RevNo : row[n].status # "NONE" =>
    /\ \A m \in RevNo : m < n => row[m].status # "NONE"
    /\ row[n].current <=> \A m \in RevNo : m > n => row[m].status = "NONE"
    /\ row[n].status \in OpenStates => row[n].current

AllOrdered == \A c \in Codes : Ordered(rev[c])

-----------------------------------------------------------------------------
(* The revisions of one code                                               *)

\* Revisions move on: none comes or goes, none becomes open that was not.
LEMMA MovingOnKeeps ==
  ASSUME NEW row, NEW new, Ordered(row),
         \A n \in RevNo : /\ new[n].status = "NONE" <=> row[n].status = "NONE"
                          /\ new[n].current <=> row[n].current
                          /\ new[n].status \in OpenStates => row[n].status \in OpenStates
  PROVE  Ordered(new)
BY DEF Ordered, OpenStates

\* Revision `k` is opened behind the others, none of which is open.
LEMMA OpeningKeeps ==
  ASSUME NEW row, NEW new, Ordered(row), NEW k \in RevNo,
         \A n \in RevNo : row[n].status \notin OpenStates,
         \A n \in RevNo : row[n].status # "NONE" <=> n < k,
         new[k].status = "DRAFT", new[k].current,
         \A n \in RevNo \ {k} : new[n].status = row[n].status /\ ~new[n].current
  PROVE  Ordered(new)
<1>1. RevNo \subseteq Int
  BY DEF RevNo
<1>2. \A n \in RevNo : new[n].status # "NONE" <=> n <= k
  BY <1>1
<1>3. ASSUME NEW n \in RevNo, new[n].status # "NONE"
      PROVE  /\ \A m \in RevNo : m < n => new[m].status # "NONE"
             /\ new[n].current <=> \A m \in RevNo : m > n => new[m].status = "NONE"
             /\ new[n].status \in OpenStates => new[n].current
  <2>1. \A m \in RevNo : m < n => new[m].status # "NONE"
    BY <1>1, <1>2, <1>3
  <2>2. new[n].current <=> \A m \in RevNo : m > n => new[m].status = "NONE"
    BY <1>1, <1>2, <1>3
  <2>3. new[n].status \in OpenStates => new[n].current
    OBVIOUS
  <2> QED BY <2>1, <2>2, <2>3
<1> QED BY <1>3 DEF Ordered

\* The open revision `k` is taken away; the one before becomes current.
LEMMA TakingAwayKeeps ==
  ASSUME NEW row, NEW new, Ordered(row), NEW k \in RevNo, row[k].status \in OpenStates,
         new[k].status = "NONE",
         \A n \in RevNo \ {k} : /\ new[n].status = row[n].status
                                /\ n # k - 1 => (new[n].current <=> row[n].current)
                                /\ n = k - 1 => new[n].current
  PROVE  Ordered(new)
<1>1. RevNo \subseteq Int /\ \A n \in RevNo : n > 1 => n - 1 \in RevNo
  BY CatalogueAssumption DEF RevNo
<1>2. row[k].status # "NONE" /\ row[k].current
  BY DEF Ordered, OpenStates
<1>3. \A n \in RevNo : row[n].status # "NONE" <=> n <= k
  BY <1>1, <1>2 DEF Ordered
<1>4. \A n \in RevNo : new[n].status # "NONE" <=> n < k
  BY <1>1, <1>3
<1>5. ASSUME NEW n \in RevNo, n < k
      PROVE  row[n].status \notin OpenStates /\ ~row[n].current
  BY <1>1, <1>2, <1>3, <1>5 DEF Ordered
<1>6. ASSUME NEW n \in RevNo, new[n].status # "NONE"
      PROVE  /\ \A m \in RevNo : m < n => new[m].status # "NONE"
             /\ new[n].current <=> \A m \in RevNo : m > n => new[m].status = "NONE"
             /\ new[n].status \in OpenStates => new[n].current
  <2>1. n < k
    BY <1>4, <1>6
  <2>2. \A m \in RevNo : m < n => new[m].status # "NONE"
    BY <1>1, <1>4, <2>1
  <2>3. new[n].status \notin OpenStates
    BY <1>1, <1>5, <2>1
  <2>4. CASE n = k - 1
    BY <1>1, <1>4, <2>1, <2>2, <2>3, <2>4
  <2>5. CASE n # k - 1
    <3>1. k - 1 \in RevNo /\ k - 1 > n /\ k - 1 < k
      BY <1>1, <2>1, <2>5 DEF RevNo
    <3>2. new[k - 1].status # "NONE"
      BY <1>4, <3>1
    <3>3. ~new[n].current
      BY <1>1, <1>5, <2>1, <2>5
    <3> QED BY <2>2, <2>3, <3>1, <3>2, <3>3
  <2> QED BY <2>4, <2>5
<1> QED BY <1>6 DEF Ordered

LEMMA BlankIsOrdered ==
  ASSUME NEW row, \A n \in RevNo : row[n].status = "NONE"
  PROVE  Ordered(row)
BY DEF Ordered

-----------------------------------------------------------------------------
(* Operations                                                              *)

\* An operation on the revisions of one code.
LEMMA OneCodeOrdered ==
  ASSUME AllOrdered, NEW c \in Codes, Ordered(rev'[c]),
         \A d \in Codes \ {c} : rev'[d] = rev[d]
  PROVE  AllOrdered'
BY DEF AllOrdered, Ordered

\* One of its revisions moves on.
LEMMA ChangeOrdered ==
  ASSUME AllOrdered, CatalogueInv, NEW c \in Codes, NEW n \in RevNo, NEW r,
         Change(c, n, r), rev[c][n].status # "NONE", r.status # "NONE",
         r.current <=> rev[c][n].current,
         r.status \in OpenStates => rev[c][n].status \in OpenStates
  PROVE  AllOrdered'
<1>1. \A d \in Codes \ {c} : rev'[d] = rev[d]
  BY DEF Change, CatalogueInv, SoundRevisions
<1>2. \A m \in RevNo : rev'[c][m] = IF m = n THEN r ELSE rev[c][m]
  BY DEF Change, CatalogueInv, SoundRevisions
<1>3. Ordered(rev[c])
  BY DEF AllOrdered
<1>4. Ordered(rev'[c])
  BY <1>2, <1>3, MovingOnKeeps
<1> QED BY <1>1, <1>4, OneCodeOrdered

\* A revision is opened behind them.
LEMMA OpenOrdered ==
  ASSUME AllOrdered, CatalogueInv, NEW c \in Codes, NEW k, NEW r, Open(c, k, r),
         r.status = "DRAFT", r.current, ~HasOpenRevision(c),
         k \in RevNo => \A n \in RevNo : rev[c][n].status # "NONE" <=> n < k,
         k \notin RevNo => \A n \in RevNo : rev[c][n].status = "NONE"
  PROVE  AllOrdered'
<1>1. \A d \in Codes \ {c} : rev'[d] = rev[d]
  BY DEF Open, CatalogueInv, SoundRevisions
<1>2. ASSUME NEW n \in RevNo
      PROVE  IF n = k THEN rev'[c][n] = r
             ELSE rev'[c][n].status = rev[c][n].status /\ ~rev'[c][n].current
  <2>1. rev'[c][n] = IF n = k THEN r ELSE [rev[c][n] EXCEPT !.current = FALSE]
    BY DEF Open, CatalogueInv, SoundRevisions
  <2>2. rev[c][n] \in Revision
    BY DEF CatalogueInv, SoundRevisions
  <2> QED BY <2>1, <2>2 DEF Revision
<1>3. CASE k \in RevNo
  <2>1. Ordered(rev[c]) /\ \A n \in RevNo : rev[c][n].status \notin OpenStates
    BY DEF AllOrdered, HasOpenRevision
  <2>2. Ordered(rev'[c])
    BY <1>2, <1>3, <2>1, OpeningKeeps
  <2> QED BY <1>1, <2>2, OneCodeOrdered
<1>4. CASE k \notin RevNo
  <2>1. Ordered(rev'[c])
    BY <1>2, <1>4, BlankIsOrdered
  <2> QED BY <1>1, <2>1, OneCodeOrdered
<1> QED BY <1>3, <1>4

LEMMA NewDraftFields ==
  ASSUME NEW actor, NEW platforms, NEW deprecation, NEW cr
  PROVE  /\ NewDraft(actor, platforms, deprecation, cr).status = "DRAFT"
         /\ NewDraft(actor, platforms, deprecation, cr).current
BY DEF NewDraft, NoRevision

LEMMA DraftingOrdered ==
  ASSUME AllOrdered, NumberingInv, CatalogueInv, NEW actor \in Users, NEW c \in Codes,
         Drafting(actor, c)
  PROVE  AllOrdered'
<1>1. ASSUME NEW r, code[c].kind = "NONE", Open(c, 1, r), r.status = "DRAFT", r.current
      PROVE  AllOrdered'
  <2>1. \A n \in RevNo : rev[c][n].status = "NONE"
    BY <1>1, BlankRows
  <2>2. \A n \in RevNo : ~(n < 1)
    BY DEF RevNo
  <2>3. ~HasOpenRevision(c)
    BY <2>1 DEF HasOpenRevision, OpenStates
  <2> QED BY <1>1, <2>1, <2>2, <2>3, OpenOrdered
<1>2. ASSUME NEW b \in Bands, NEW platforms \in BOOLEAN,
             NEW reserved \in NumbersOf(b) \union {NoNumber},
             CreateDraft(actor, c, b, reserved, platforms)
      PROVE  AllOrdered'
  BY <1>1, <1>2, NewDraftFields DEF CreateDraft
<1>3. ASSUME NEW source \in Codes, CreatePlatformVariant(actor, source, c)
      PROVE  AllOrdered'
  <2>1. code[source].band \in Bands
    BY DEF CatalogueInv, Code
  <2> QED BY <1>2, <1>3, <2>1 DEF CreatePlatformVariant
<1>4. ASSUME NEW n \in RevNo, NEW r, IsNextRevision(c, n), ~HasOpenRevision(c),
             Open(c, n, r), r.status = "DRAFT", r.current
      PROVE  AllOrdered'
  <2>1. RevNo \subseteq Int /\ \A m \in RevNo : m > 1 => m - 1 \in RevNo
    BY CatalogueAssumption DEF RevNo
  <2>2. \A m \in RevNo : rev[c][m].status # "NONE" => m < n
    BY <1>4 DEF IsNextRevision, Exists
  <2>3. ASSUME NEW m \in RevNo, m < n PROVE rev[c][m].status # "NONE"
    <3>1. n > 1 /\ n - 1 \in RevNo /\ (m < n - 1 \/ m = n - 1)
      BY <2>1, <2>3 DEF RevNo
    <3>2. rev[c][n - 1].status # "NONE"
      BY <1>4, <3>1 DEF IsNextRevision, Exists
    <3> QED BY <3>1, <3>2 DEF AllOrdered, Ordered
  <2> QED BY <1>4, <2>2, <2>3, OpenOrdered
<1>5. ASSUME NEW n \in RevNo, NEW platforms \in BOOLEAN,
             CreateRevision(actor, c, n, platforms)
      PROVE  AllOrdered'
  BY <1>4, <1>5, NewDraftFields DEF CreateRevision
<1>6. ASSUME NEW n \in RevNo, CreateDeprecationRequest(actor, c, n)
      PROVE  AllOrdered'
  BY <1>4, <1>6, NewDraftFields DEF CreateDeprecationRequest
<1>7. ASSUME NEW k \in 0 .. SandboxLast, NEW platforms \in BOOLEAN,
             CreateSandbox(actor, c, k, platforms)
      PROVE  AllOrdered'
  BY <1>1, <1>7, NewDraftFields DEF CreateSandbox
<1>8. ASSUME NEW n \in RevNo, NEW platforms \in BOOLEAN,
             UpdateDraft(actor, c, n, platforms)
      PROVE  AllOrdered'
  <2> DEFINE r == [rev[c][n] EXCEPT !.platforms = platforms]
  <2>1. rev[c][n] \in Revision
    BY DEF CatalogueInv, SoundRevisions
  <2>2. r.status = rev[c][n].status /\ (r.current <=> rev[c][n].current)
    BY <2>1 DEF Revision
  <2>3. Change(c, n, r) /\ rev[c][n].status # "NONE"
    BY <1>8 DEF UpdateDraft
  <2> HIDE DEF r
  <2> QED BY <2>2, <2>3, ChangeOrdered
<1>9. ASSUME NEW n \in RevNo, SignDomain(actor, c, n)
      PROVE  AllOrdered'
  <2> DEFINE r == [rev[c][n] EXCEPT !.controls = actor]
  <2>1. rev[c][n] \in Revision
    BY DEF CatalogueInv, SoundRevisions
  <2>2. r.status = rev[c][n].status /\ (r.current <=> rev[c][n].current)
    BY <2>1 DEF Revision
  <2>3. Change(c, n, r) /\ rev[c][n].status # "NONE"
    BY <1>9 DEF SignDomain, IsRequest, Exists
  <2> HIDE DEF r
  <2> QED BY <2>2, <2>3, ChangeOrdered
<1> QED BY <1>2, <1>3, <1>5, <1>6, <1>7, <1>8, <1>9 DEF Drafting

\* A revision that is under way stays the current one.
LEMMA ReviewingOrdered ==
  ASSUME AllOrdered, CatalogueInv, NEW actor \in Users, NEW c \in Codes,
         NEW n \in RevNo, Reviewing(actor, c, n)
  PROVE  AllOrdered'
<1> DEFINE r == rev[c][n]
<1>1. r \in Revision
  BY DEF CatalogueInv, SoundRevisions
<1>2. r.status \in OpenStates /\ r.status # "NONE"
  BY DEF Reviewing, Submit, AutoAssignReviewer, AssignReviewer, ReviewerSignoff,
         AdminSignoff, ChiefEngineerDecide, ReviewerMayDecide, AdminMayDecide,
         ChiefMayDecide, OpenStates
<1> HIDE DEF r
<1>3. ASSUME NEW k, NEW auto, Submit(actor, c, n, k, auto)
      PROVE  AllOrdered'
  <2>1. PICK u : Change(c, n, [r EXCEPT !.status = "REVIEW", !.assigned = u])
    BY <1>3 DEF Submit, r
  <2>2. /\ [r EXCEPT !.status = "REVIEW", !.assigned = u].status = "REVIEW"
        /\ [r EXCEPT !.status = "REVIEW", !.assigned = u].current <=> r.current
    BY <1>1 DEF Revision
  <2> QED BY <1>2, <2>1, <2>2, ChangeOrdered DEF r
<1>4. ASSUME NEW u, AssignReviewer(actor, c, n, u)
      PROVE  AllOrdered'
  <2>1. Change(c, n, [r EXCEPT !.assigned = u])
    BY <1>4 DEF AssignReviewer, r
  <2>2. /\ [r EXCEPT !.assigned = u].status = r.status
        /\ [r EXCEPT !.assigned = u].current <=> r.current
    BY <1>1 DEF Revision
  <2> QED BY <1>2, <2>1, <2>2, ChangeOrdered DEF r
<1>5. ASSUME NEW decision \in Decisions, ReviewerSignoff(actor, c, n, decision)
      PROVE  AllOrdered'
  <2>1. CASE decision = "REJECT"
    <3>1. Change(c, n, [WithoutSignoffs(r) EXCEPT !.status = "DRAFT"])
      BY <1>5, <2>1 DEF ReviewerSignoff, r
    <3>2. /\ [WithoutSignoffs(r) EXCEPT !.status = "DRAFT"].status = "DRAFT"
          /\ [WithoutSignoffs(r) EXCEPT !.status = "DRAFT"].current <=> r.current
      BY <1>1 DEF Revision, WithoutSignoffs
    <3> QED BY <1>2, <3>1, <3>2, ChangeOrdered DEF r
  <2>2. CASE decision # "REJECT"
    <3>1. PICK s : s # "NONE" /\ Change(c, n, [r EXCEPT !.reviewer = actor, !.status = s])
      BY <1>5, <2>2 DEF ReviewerSignoff, r
    <3>2. /\ [r EXCEPT !.reviewer = actor, !.status = s].status = s
          /\ [r EXCEPT !.reviewer = actor, !.status = s].current <=> r.current
      BY <1>1 DEF Revision
    <3> QED BY <1>2, <3>1, <3>2, ChangeOrdered DEF r
  <2> QED BY <2>1, <2>2
<1>6. ASSUME NEW decision \in Decisions, AdminSignoff(actor, c, n, decision)
      PROVE  AllOrdered'
  <2>1. CASE decision = "REJECT"
    <3>1. Change(c, n, [WithoutSignoffs(r) EXCEPT !.status = "DRAFT"])
      BY <1>6, <2>1 DEF AdminSignoff, r
    <3>2. /\ [WithoutSignoffs(r) EXCEPT !.status = "DRAFT"].status = "DRAFT"
          /\ [WithoutSignoffs(r) EXCEPT !.status = "DRAFT"].current <=> r.current
      BY <1>1 DEF Revision, WithoutSignoffs
    <3> QED BY <1>2, <3>1, <3>2, ChangeOrdered DEF r
  <2>2. CASE decision # "REJECT"
    <3>1. PICK s : s # "NONE" /\ Change(c, n, [r EXCEPT !.admin = actor, !.status = s])
      BY <1>6, <2>2 DEF AdminSignoff, r
    <3>2. /\ [r EXCEPT !.admin = actor, !.status = s].status = s
          /\ [r EXCEPT !.admin = actor, !.status = s].current <=> r.current
      BY <1>1 DEF Revision
    <3> QED BY <1>2, <3>1, <3>2, ChangeOrdered DEF r
  <2> QED BY <2>1, <2>2
<1>7. ASSUME NEW decision \in Decisions, ChiefEngineerDecide(actor, c, n, decision)
      PROVE  AllOrdered'
  <2>1. CASE decision = "REJECT"
    <3>1. Change(c, n, [WithoutSignoffs(r) EXCEPT !.status = "DRAFT"])
      BY <1>7, <2>1 DEF ChiefEngineerDecide, r
    <3>2. /\ [WithoutSignoffs(r) EXCEPT !.status = "DRAFT"].status = "DRAFT"
          /\ [WithoutSignoffs(r) EXCEPT !.status = "DRAFT"].current <=> r.current
      BY <1>1 DEF Revision, WithoutSignoffs
    <3> QED BY <1>2, <3>1, <3>2, ChangeOrdered DEF r
  <2>2. CASE decision # "REJECT"
    <3>1. PICK s : s # "NONE" /\ Change(c, n, [r EXCEPT !.chief = actor, !.status = s])
      BY <1>7, <2>2 DEF ChiefEngineerDecide, r
    <3>2. /\ [r EXCEPT !.chief = actor, !.status = s].status = s
          /\ [r EXCEPT !.chief = actor, !.status = s].current <=> r.current
      BY <1>1 DEF Revision
    <3> QED BY <1>2, <3>1, <3>2, ChangeOrdered DEF r
  <2> QED BY <2>1, <2>2
<1> QED BY <1>3, <1>4, <1>5, <1>6, <1>7 DEF Reviewing, AutoAssignReviewer

LEMMA RetiringOrdered ==
  ASSUME AllOrdered, CatalogueInv, NEW actor \in Users, NEW c \in Codes,
         Retiring(actor, c)
  PROVE  AllOrdered'
<1>1. ASSUME NEW n \in RevNo, Withdraw(actor, c, n)
      PROVE  AllOrdered'
  <2>1. rev[c][n].status \in OpenStates /\ Ordered(rev[c])
    BY <1>1 DEF Withdraw, AllOrdered
  <2>2. \A d \in Codes \ {c} : rev'[d] = rev[d]
    BY <1>1 DEF Withdraw, CatalogueInv, SoundRevisions
  <2> DEFINE hasPrior == n > 1 /\ Exists(c, n - 1)
             new(m) == IF m = n THEN NoRevision
                       ELSE IF m = n - 1 /\ hasPrior
                            THEN [rev[c][m] EXCEPT !.current = TRUE]
                            ELSE rev[c][m]
  <2>3. ASSUME NEW m \in RevNo PROVE rev'[c][m] = new(m)
    <3>1. rev' = [rev EXCEPT ![c] = [j \in RevNo |-> new(j)]]
      BY <1>1 DEF Withdraw
    <3> HIDE DEF new
    <3> QED BY <3>1 DEF CatalogueInv, SoundRevisions
  <2>4. rev'[c][n].status = "NONE"
    <3>1. rev'[c][n] = NoRevision
      BY <2>3
    <3> QED BY <3>1 DEF NoRevision
  <2>5. ASSUME NEW m \in RevNo \ {n}
        PROVE  /\ rev'[c][m].status = rev[c][m].status
               /\ m # n - 1 => (rev'[c][m].current <=> rev[c][m].current)
               /\ m = n - 1 => rev'[c][m].current
    <3>1. rev[c][m] \in Revision
      BY DEF CatalogueInv, SoundRevisions
    <3>2. m = n - 1 => n > 1 /\ Exists(c, n - 1)
      BY <2>1 DEF Ordered, Exists, OpenStates, RevNo
    <3> QED BY <2>3, <3>1, <3>2 DEF Revision
  <2>6. Ordered(rev'[c])
    BY <2>1, <2>4, <2>5, TakingAwayKeeps
  <2> QED BY <2>2, <2>6, OneCodeOrdered
<1>2. ASSUME NEW n \in RevNo, Archive(actor, c, n) \/ Reinstate(actor, c, n)
      PROVE  AllOrdered'
  <2>1. rev[c][n] \in Revision /\ rev[c][n].status # "NONE"
    BY <1>2 DEF Archive, Reinstate, CatalogueInv, SoundRevisions
  <2>2. PICK s \in {"ARCHIVED", "RELEASED"} : Change(c, n, [rev[c][n] EXCEPT !.status = s])
    BY <1>2 DEF Archive, Reinstate
  <2>3. /\ [rev[c][n] EXCEPT !.status = s].status = s
        /\ [rev[c][n] EXCEPT !.status = s].current <=> rev[c][n].current
    BY <2>1 DEF Revision
  <2> QED BY <2>1, <2>2, <2>3, ChangeOrdered DEF OpenStates
<1>3. ASSUME DeleteSandbox(actor, c)
      PROVE  AllOrdered'
  <2>1. \A d \in Codes \ {c} : rev'[d] = rev[d]
    BY <1>3 DEF DeleteSandbox, CatalogueInv, SoundRevisions
  <2>2. \A m \in RevNo : rev'[c][m].status = "NONE"
    BY <1>3 DEF DeleteSandbox, CatalogueInv, SoundRevisions, NoRevision
  <2> QED BY <2>1, <2>2, BlankIsOrdered, OneCodeOrdered
<1> QED BY <1>1, <1>2, <1>3 DEF Retiring

\* A publication moves only Approved, Released and Deprecated revisions on.
LEMMA ReleasesOrdered ==
  ASSUME AllOrdered, CatalogueInv, ReleasesNext
  PROVE  AllOrdered'
<1>1. ASSUME NEW actor \in Users, NEW i \in ReleaseIds, Publish(actor, i)
      PROVE  AllOrdered'
  <2>1. ASSUME NEW c \in Codes, NEW n \in RevNo
        PROVE  /\ rev'[c][n].status = "NONE" <=> rev[c][n].status = "NONE"
               /\ rev'[c][n].current <=> rev[c][n].current
               /\ rev'[c][n].status \in OpenStates => rev[c][n].status \in OpenStates
    <3>1. rev[c][n] \in Revision
      BY DEF CatalogueInv, SoundRevisions
    <3>2. <<c, n>> \in release[i].items => rev[c][n].status # "NONE"
      BY <1>1 DEF Publish, Status
    <3> QED BY <1>1, <3>1, <3>2 DEF Publish, Revision, OpenStates
  <2> QED BY <2>1, MovingOnKeeps DEF AllOrdered, Ordered
<1>2. CASE UNCHANGED rev
  BY <1>2 DEF AllOrdered, Ordered
<1> QED BY <1>1, <1>2 DEF ReleasesNext, CreateRelease, SetItems, DeleteRelease

-----------------------------------------------------------------------------

\* The rows of every code are in order, whatever is opened, withdrawn and retired:
\* the fact about the revision numbers that the theorems below rest on.
THEOREM RevisionsAreOrdered == Spec => []AllOrdered
<1>1. Init => AllOrdered
  <2>1. NoRevision.status = "NONE"
    BY DEF NoRevision
  <2> QED BY <2>1 DEF Init, CatalogueInit, AllOrdered, Ordered
<1>2. AllOrdered /\ NumberingInv /\ GovernanceInv /\ [Next]_vars => AllOrdered'
  <2> SUFFICES ASSUME AllOrdered, NumberingInv, GovernanceInv, [Next]_vars
               PROVE  AllOrdered'
    OBVIOUS
  <2>1. CatalogueInv
    BY DEF GovernanceInv, CatalogueInv
  <2>2. UNCHANGED rev => AllOrdered'
    BY DEF AllOrdered, Ordered
  <2>3. ASSUME RequestsNext PROVE AllOrdered'
    BY <2>1, <2>2, <2>3, DraftingOrdered, ReviewingOrdered, RetiringOrdered
    DEF RequestsNext, DeleteWithdrawn
  <2> QED BY <2>1, <2>2, <2>3, ReleasesOrdered DEF Next, vars
<1> QED BY <1>1, <1>2, InvariantHolds, NumberingInvariantHolds, PTL DEF Spec

\* BR-002, BR-003: for any number of codes and revisions, the revisions of a
\* code are numbered without a gap, exactly the newest is current and only it
\* may be open, through every order of opening, withdrawing and retiring them.
THEOREM TheNewestIsCurrent == Spec => []NewestIsCurrent
<1>1. AllOrdered => NewestIsCurrent
  BY DEF AllOrdered, Ordered, NewestIsCurrent, Exists
<1> QED BY <1>1, RevisionsAreOrdered, PTL

-----------------------------------------------------------------------------
(* The mark of an empty shell and the number of a code agree with its      *)
(* revisions: NumberedAndMarked is what one step owes one code, and a step *)
(* either leaves the code as it was, or enters, restores or empties it.    *)

\* Has a revision that was submitted.
Entered(row) == \E n \in RevNo : row[n].status \notin {"NONE", "DRAFT"}

Empty(row) == \A n \in RevNo : row[n].status = "NONE"

\* The inductive part: nothing was submitted without a number.
MarkingInv ==
  \A c \in Codes :
    /\ Entered(rev[c]) => code[c].number # NoNumber
    /\ code[c].kind = "REAL" => (code[c].withdrawn <=> Empty(rev[c]))

NumberedAndMarked(c) ==
  /\ Entered(rev'[c]) => code'[c].number # NoNumber
  /\ code'[c].kind = "REAL" => (code'[c].withdrawn <=> Empty(rev'[c]))
  /\ code[c].kind = "REAL" /\ code[c].number # NoNumber =>
       code'[c].number = code[c].number \/ (code'[c].deleted /\ Empty(rev[c]))

\* The revisions move on, and the code is the same in what matters here.
LEMMA MovingOnMarked ==
  ASSUME MarkingInv, NEW c \in Codes,
         \A n \in RevNo : /\ rev'[c][n].status = "NONE" <=> rev[c][n].status = "NONE"
                          /\ rev'[c][n].status \notin {"NONE", "DRAFT"} =>
                               rev[c][n].status \notin {"NONE", "DRAFT"},
         code'[c].kind = code[c].kind, code'[c].number = code[c].number,
         code'[c].withdrawn <=> code[c].withdrawn
  PROVE  NumberedAndMarked(c)
<1>1. Entered(rev'[c]) => Entered(rev[c])
  BY DEF Entered
<1>2. Empty(rev'[c]) <=> Empty(rev[c])
  BY DEF Empty
<1>3. Entered(rev'[c]) => code'[c].number # NoNumber
  BY <1>1 DEF MarkingInv
<1>4. code'[c].kind = "REAL" => (code'[c].withdrawn <=> Empty(rev'[c]))
  BY <1>2 DEF MarkingInv
<1> QED BY <1>3, <1>4 DEF NumberedAndMarked

LEMMA UntouchedMarked ==
  ASSUME MarkingInv, NEW c \in Codes, rev'[c] = rev[c], code'[c] = code[c]
  PROVE  NumberedAndMarked(c)
BY MovingOnMarked

\* One row of an unchanged code is replaced.
LEMMA ChangeMarked ==
  ASSUME MarkingInv, CatalogueInv, NEW c \in Codes, NEW n \in RevNo, NEW r, Change(c, n, r),
         UNCHANGED code, rev[c][n].status # "NONE", r.status # "NONE",
         r.status # "DRAFT" => rev[c][n].status # "DRAFT"
  PROVE  \A d \in Codes : NumberedAndMarked(d)
<1>1. \A d \in Codes, m \in RevNo : rev'[d][m] = IF d = c /\ m = n THEN r ELSE rev[d][m]
  BY DEF Change, CatalogueInv, SoundRevisions
<1> QED BY <1>1, MovingOnMarked

\* A revision is opened: of a new code or of one that is there.
LEMMA OpenMarked ==
  ASSUME MarkingInv, CatalogueInv, NEW c \in Codes, NEW k \in RevNo, NEW r, Open(c, k, r),
         r.status = "DRAFT",
         \A d \in Codes \ {c} : code'[d] = code[d],
         Entered(rev[c]) => code'[c].number # NoNumber,
         code'[c].kind = "REAL" => ~code'[c].withdrawn,
         code[c].kind = "REAL" => code'[c].number = code[c].number
  PROVE  \A d \in Codes : NumberedAndMarked(d)
<1>1. ASSUME NEW d \in Codes \ {c} PROVE NumberedAndMarked(d)
  <2>1. rev'[d] = rev[d]
    BY DEF Open, CatalogueInv, SoundRevisions
  <2> QED BY <2>1, UntouchedMarked
<1>2. ASSUME NEW m \in RevNo
      PROVE  rev'[c][m].status = IF m = k THEN "DRAFT" ELSE rev[c][m].status
  <2>1. rev'[c][m] = IF m = k THEN r ELSE [rev[c][m] EXCEPT !.current = FALSE]
    BY DEF Open, CatalogueInv, SoundRevisions
  <2>2. rev[c][m] \in Revision
    BY DEF CatalogueInv, SoundRevisions
  <2> QED BY <2>1, <2>2 DEF Revision
<1>3. (Entered(rev'[c]) => Entered(rev[c])) /\ ~Empty(rev'[c])
  BY <1>2 DEF Entered, Empty
<1>4. code'[c].kind = "REAL" => (code'[c].withdrawn <=> Empty(rev'[c]))
  BY <1>3
<1>5. NumberedAndMarked(c)
  BY <1>3, <1>4 DEF NumberedAndMarked
<1> QED BY <1>1, <1>5

LEMMA DraftingMarked ==
  ASSUME MarkingInv, NumberingInv, CatalogueInv, NEW actor \in Users, NEW c \in Codes,
         Drafting(actor, c)
  PROVE  \A d \in Codes : NumberedAndMarked(d)
<1>1. 1 \in RevNo
  BY CatalogueAssumption DEF RevNo
<1>2. code[c].kind = "NONE" => ~Entered(rev[c])
  BY BlankRows DEF Entered
<1>3. ASSUME NEW b \in Bands, NEW platforms \in BOOLEAN,
             NEW reserved \in NumbersOf(b) \union {NoNumber},
             CreateDraft(actor, c, b, reserved, platforms)
      PROVE  \A d \in Codes : NumberedAndMarked(d)
  <2>1. /\ \A d \in Codes \ {c} : code'[d] = code[d]
        /\ ~code'[c].withdrawn /\ code[c].kind = "NONE"
    BY <1>3 DEF CreateDraft, CatalogueInv
  <2> QED BY <1>1, <1>2, <1>3, <2>1, NewDraftFields, OpenMarked DEF CreateDraft
<1>4. ASSUME NEW source \in Codes, CreatePlatformVariant(actor, source, c)
      PROVE  \A d \in Codes : NumberedAndMarked(d)
  <2>1. code[source].band \in Bands
    BY DEF CatalogueInv, Code
  <2> QED BY <1>3, <1>4, <2>1 DEF CreatePlatformVariant
<1>5. ASSUME NEW n \in RevNo, NEW platforms \in BOOLEAN,
             CreateRevision(actor, c, n, platforms)
      PROVE  \A d \in Codes : NumberedAndMarked(d)
  <2>1. /\ \A d \in Codes \ {c} : code'[d] = code[d]
        /\ ~code'[c].withdrawn /\ code'[c].number = code[c].number
    BY <1>5 DEF CreateRevision, CatalogueInv, Code
  <2>2. Entered(rev[c]) => code'[c].number # NoNumber
    BY <2>1 DEF MarkingInv
  <2> QED BY <1>5, <2>1, <2>2, NewDraftFields, OpenMarked DEF CreateRevision
<1>6. ASSUME NEW n \in RevNo, CreateDeprecationRequest(actor, c, n)
      PROVE  \A d \in Codes : NumberedAndMarked(d)
  <2>1. PICK m \in RevNo : /\ rev[c][m].status = "RELEASED"
                           /\ Open(c, n, NewDraft(actor, rev[c][m].platforms, TRUE, TRUE))
                           /\ UNCHANGED code
    BY <1>6 DEF CreateDeprecationRequest
  <2>2. Entered(rev[c]) /\ ~Empty(rev[c])
    BY <2>1 DEF Entered, Empty
  <2>3. code'[c].number # NoNumber /\ (code'[c].kind = "REAL" => ~code'[c].withdrawn)
    BY <2>1, <2>2 DEF MarkingInv
  <2>4. (\A d \in Codes \ {c} : code'[d] = code[d]) /\ code'[c].number = code[c].number
    BY <2>1
  <2> QED BY <2>1, <2>3, <2>4, NewDraftFields, OpenMarked
<1>7. ASSUME NEW k \in 0 .. SandboxLast, NEW platforms \in BOOLEAN,
             CreateSandbox(actor, c, k, platforms)
      PROVE  \A d \in Codes : NumberedAndMarked(d)
  <2>1. /\ \A d \in Codes \ {c} : code'[d] = code[d]
        /\ code'[c].kind = "SANDBOX" /\ code[c].kind = "NONE"
    BY <1>7 DEF CreateSandbox, CatalogueInv, NoCode
  <2>2. k # NoNumber /\ code'[c].number = k
    BY <1>7, CatalogueAssumption DEF CreateSandbox, CatalogueInv, NoCode, NoNumber
  <2> QED BY <1>1, <1>2, <1>7, <2>1, <2>2, NewDraftFields, OpenMarked DEF CreateSandbox
<1>8. ASSUME NEW n \in RevNo, NEW platforms \in BOOLEAN,
             UpdateDraft(actor, c, n, platforms) \/ SignDomain(actor, c, n)
      PROVE  \A d \in Codes : NumberedAndMarked(d)
  <2>1. rev[c][n] \in Revision /\ rev[c][n].status # "NONE" /\ UNCHANGED code
    BY <1>8 DEF UpdateDraft, SignDomain, IsRequest, Exists, CatalogueInv, SoundRevisions
  <2>2. \/ Change(c, n, [rev[c][n] EXCEPT !.platforms = platforms])
        \/ Change(c, n, [rev[c][n] EXCEPT !.controls = actor])
    BY <1>8 DEF UpdateDraft, SignDomain
  <2>3. /\ [rev[c][n] EXCEPT !.platforms = platforms].status = rev[c][n].status
        /\ [rev[c][n] EXCEPT !.controls = actor].status = rev[c][n].status
    BY <2>1 DEF Revision
  <2> QED BY <2>1, <2>2, <2>3, ChangeMarked
<1> QED BY <1>3, <1>4, <1>5, <1>6, <1>7, <1>8 DEF Drafting

LEMMA ReviewingMarked ==
  ASSUME MarkingInv, CatalogueInv, NEW actor \in Users, NEW c \in Codes, NEW n \in RevNo,
         Reviewing(actor, c, n)
  PROVE  \A d \in Codes : NumberedAndMarked(d)
<1> DEFINE r == rev[c][n]
<1>1. r \in Revision
  BY DEF CatalogueInv, SoundRevisions
<1> HIDE DEF r
<1>2. [WithoutSignoffs(r) EXCEPT !.status = "DRAFT"].status = "DRAFT"
  BY <1>1 DEF Revision, WithoutSignoffs
\* A decision replaces a submitted revision by one that is there.
<1>3. ASSUME NEW s, Change(c, n, s), s.status # "NONE", UNCHANGED code,
             r.status \in {"REVIEW", "PENDING_APPROVAL"}
      PROVE  \A d \in Codes : NumberedAndMarked(d)
  BY <1>3, ChangeMarked DEF r
<1>4. ASSUME NEW k \in AllNumbers \union 0 .. SandboxLast, NEW auto,
             Submit(actor, c, n, k, auto)
      PROVE  \A d \in Codes : NumberedAndMarked(d)
  <2>1. PICK u : Change(c, n, [r EXCEPT !.status = "REVIEW", !.assigned = u])
    BY <1>4 DEF Submit, r
  <2>2. /\ \A d \in Codes \ {c} : rev'[d] = rev[d] /\ code'[d] = code[d]
        /\ code'[c] = [code[c] EXCEPT !.number = k] /\ code[c] \in Code
    BY <1>4, <2>1 DEF Submit, Change, CatalogueInv, SoundRevisions
  <2>3. /\ code'[c].kind = code[c].kind /\ code'[c].number = k
        /\ code'[c].withdrawn = code[c].withdrawn
    BY <2>2 DEF Code
  <2>4. k # NoNumber
    BY CatalogueAssumption DEF AllNumbers, NumbersOf, NoNumber
  <2>5. code[c].number # NoNumber => k = code[c].number
    BY <1>4 DEF Submit, IssuedOnSubmit
  <2>6. rev[c][n].status # "NONE" /\ rev'[c][n].status # "NONE"
    <3>1. rev'[c][n] = [r EXCEPT !.status = "REVIEW", !.assigned = u]
      BY <2>1 DEF Change, CatalogueInv, SoundRevisions
    <3> QED BY <1>1, <1>4, <3>1 DEF Submit, Revision
  <2>7. ~Empty(rev[c]) /\ ~Empty(rev'[c])
    BY <2>6 DEF Empty
  <2>8. code'[c].kind = "REAL" => (code'[c].withdrawn <=> Empty(rev'[c]))
    BY <2>3, <2>7 DEF MarkingInv
  <2>9. NumberedAndMarked(c)
    BY <2>3, <2>4, <2>5, <2>8 DEF NumberedAndMarked
  <2> QED BY <2>2, <2>9, UntouchedMarked
<1>5. ASSUME NEW reviewer, AssignReviewer(actor, c, n, reviewer)
      PROVE  \A d \in Codes : NumberedAndMarked(d)
  <2>1. /\ Change(c, n, [r EXCEPT !.assigned = reviewer]) /\ UNCHANGED code
        /\ r.status # "NONE"
    BY <1>5 DEF AssignReviewer, r
  <2>2. [r EXCEPT !.assigned = reviewer].status = r.status
    BY <1>1 DEF Revision
  <2> QED BY <2>1, <2>2, ChangeMarked DEF r
<1>6. ASSUME NEW decision, ReviewerSignoff(actor, c, n, decision)
      PROVE  \A d \in Codes : NumberedAndMarked(d)
  <2>1. r.status = "REVIEW" /\ UNCHANGED code
    BY <1>6 DEF ReviewerSignoff, ReviewerMayDecide, r
  <2>2. CASE decision = "REJECT"
    BY <1>2, <1>3, <1>6, <2>1, <2>2 DEF ReviewerSignoff, r
  <2>3. CASE decision # "REJECT"
    <3>1. PICK s : /\ s # "NONE"
                   /\ Change(c, n, [r EXCEPT !.reviewer = actor, !.status = s])
      BY <1>6, <2>3 DEF ReviewerSignoff, r
    <3>2. [r EXCEPT !.reviewer = actor, !.status = s].status = s
      BY <1>1 DEF Revision
    <3> QED BY <1>3, <2>1, <3>1, <3>2
  <2> QED BY <2>2, <2>3
<1>7. ASSUME NEW decision, AdminSignoff(actor, c, n, decision)
      PROVE  \A d \in Codes : NumberedAndMarked(d)
  <2>1. r.status = "REVIEW" /\ UNCHANGED code
    BY <1>7 DEF AdminSignoff, AdminMayDecide, r
  <2>2. CASE decision = "REJECT"
    BY <1>2, <1>3, <1>7, <2>1, <2>2 DEF AdminSignoff, r
  <2>3. CASE decision # "REJECT"
    <3>1. PICK s : /\ s # "NONE"
                   /\ Change(c, n, [r EXCEPT !.admin = actor, !.status = s])
      BY <1>7, <2>3 DEF AdminSignoff, r
    <3>2. [r EXCEPT !.admin = actor, !.status = s].status = s
      BY <1>1 DEF Revision
    <3> QED BY <1>3, <2>1, <3>1, <3>2
  <2> QED BY <2>2, <2>3
<1>8. ASSUME NEW decision, ChiefEngineerDecide(actor, c, n, decision)
      PROVE  \A d \in Codes : NumberedAndMarked(d)
  <2>1. r.status = "PENDING_APPROVAL" /\ UNCHANGED code
    BY <1>8 DEF ChiefEngineerDecide, ChiefMayDecide, r
  <2>2. CASE decision = "REJECT"
    BY <1>2, <1>3, <1>8, <2>1, <2>2 DEF ChiefEngineerDecide, r
  <2>3. CASE decision # "REJECT"
    <3>1. PICK s : /\ s # "NONE"
                   /\ Change(c, n, [r EXCEPT !.chief = actor, !.status = s])
      BY <1>8, <2>3 DEF ChiefEngineerDecide, r
    <3>2. [r EXCEPT !.chief = actor, !.status = s].status = s
      BY <1>1 DEF Revision
    <3> QED BY <1>3, <2>1, <3>1, <3>2
  <2> QED BY <2>2, <2>3
<1> QED BY <1>4, <1>5, <1>6, <1>7, <1>8 DEF Reviewing, AutoAssignReviewer

LEMMA RetiringMarked ==
  ASSUME MarkingInv, AllOrdered, CatalogueInv, NEW actor \in Users, NEW c \in Codes,
         Retiring(actor, c)
  PROVE  \A d \in Codes : NumberedAndMarked(d)
<1>1. ASSUME NEW n \in RevNo, Withdraw(actor, c, n)
      PROVE  \A d \in Codes : NumberedAndMarked(d)
  <2> DEFINE hasPrior == n > 1 /\ Exists(c, n - 1)
  <2>1. /\ \A d \in Codes \ {c} : rev'[d] = rev[d] /\ code'[d] = code[d]
        /\ code[c] \in Code
    BY <1>1 DEF Withdraw, CatalogueInv, SoundRevisions
  <2>2. ASSUME NEW m \in RevNo
        PROVE  rev'[c][m].status = IF m = n THEN "NONE" ELSE rev[c][m].status
    <3>1. \/ m = n /\ rev'[c][m] = NoRevision
          \/ m # n /\ rev'[c][m] \in {rev[c][m], [rev[c][m] EXCEPT !.current = TRUE]}
      BY <1>1 DEF Withdraw, CatalogueInv, SoundRevisions
    <3>2. rev[c][m] \in Revision
      BY DEF CatalogueInv, SoundRevisions
    <3> QED BY <3>1, <3>2 DEF Revision, NoRevision
  <2>3. /\ code'[c].kind = code[c].kind /\ code'[c].number = code[c].number
        /\ code'[c].withdrawn = IF hasPrior THEN code[c].withdrawn ELSE TRUE
    BY <1>1, <2>1 DEF Withdraw, CatalogueInv, Code
  <2>4. rev[c][n].status \in OpenStates /\ Ordered(rev[c])
    BY <1>1 DEF Withdraw, AllOrdered
  <2>5. Empty(rev'[c]) <=> ~hasPrior
    <3>1. RevNo \subseteq Int /\ \A m \in RevNo : m > 1 => m - 1 \in RevNo
      BY CatalogueAssumption DEF RevNo
    <3>2. \A m \in RevNo : rev[c][m].status # "NONE" <=> m <= n
      BY <2>4, <3>1 DEF Ordered, OpenStates
    <3>3. hasPrior <=> n > 1
      BY <3>1, <3>2 DEF Exists
    <3>4. \A m \in RevNo : m >= 1
      BY DEF RevNo
    <3> QED BY <2>2, <3>1, <3>2, <3>3, <3>4 DEF Empty
  <2>6. ~Empty(rev[c]) /\ (Entered(rev'[c]) => Entered(rev[c]))
    BY <2>2, <2>4 DEF Empty, Entered, OpenStates
  <2> HIDE DEF hasPrior
  <2>7. code'[c].kind = "REAL" => (code'[c].withdrawn <=> Empty(rev'[c]))
    BY <2>3, <2>5, <2>6 DEF MarkingInv
  <2>8. Entered(rev'[c]) => code'[c].number # NoNumber
    BY <2>3, <2>6 DEF MarkingInv
  <2>9. NumberedAndMarked(c)
    BY <2>3, <2>7, <2>8 DEF NumberedAndMarked
  <2> QED BY <2>1, <2>9, UntouchedMarked
<1>2. ASSUME NEW n \in RevNo, Archive(actor, c, n) \/ Reinstate(actor, c, n)
      PROVE  \A d \in Codes : NumberedAndMarked(d)
  <2>1. rev[c][n] \in Revision /\ rev[c][n].status = "DEPRECATED" /\ UNCHANGED code
    BY <1>2 DEF Archive, Reinstate, CatalogueInv, SoundRevisions
  <2>2. PICK s \in {"ARCHIVED", "RELEASED"} : Change(c, n, [rev[c][n] EXCEPT !.status = s])
    BY <1>2 DEF Archive, Reinstate
  <2>3. [rev[c][n] EXCEPT !.status = s].status = s
    BY <2>1 DEF Revision
  <2> QED BY <2>1, <2>2, <2>3, ChangeMarked
<1>3. ASSUME DeleteSandbox(actor, c)
      PROVE  \A d \in Codes : NumberedAndMarked(d)
  <2>1. \A d \in Codes \ {c} : rev'[d] = rev[d] /\ code'[d] = code[d]
    BY <1>3 DEF DeleteSandbox, CatalogueInv, SoundRevisions
  <2>2. code'[c].kind = "NONE" /\ code[c].kind = "SANDBOX"
    BY <1>3 DEF DeleteSandbox, CatalogueInv, NoCode
  <2>3. ~Entered(rev'[c])
    BY <1>3 DEF DeleteSandbox, CatalogueInv, SoundRevisions, NoRevision, Entered
  <2>4. NumberedAndMarked(c)
    BY <2>2, <2>3 DEF NumberedAndMarked
  <2> QED BY <2>1, <2>4, UntouchedMarked
<1> QED BY <1>1, <1>2, <1>3 DEF Retiring

LEMMA DeletionMarked ==
  ASSUME MarkingInv, CatalogueInv, NEW actor, NEW selected, DeleteWithdrawn(actor, selected)
  PROVE  \A d \in Codes : NumberedAndMarked(d)
<1>1. SUFFICES ASSUME NEW d \in Codes PROVE NumberedAndMarked(d)
  OBVIOUS
<1>2. code[d] \in Code /\ rev'[d] = rev[d]
  BY DEF DeleteWithdrawn, CatalogueInv
<1>3. CASE ~(d \in selected /\ MayErase(d))
  <2>1. code'[d] = code[d]
    BY <1>3 DEF DeleteWithdrawn
  <2> QED BY <1>2, <2>1, UntouchedMarked
<1>4. CASE d \in selected /\ MayErase(d)
  <2>1. /\ code'[d].kind = code[d].kind /\ code'[d].deleted
        /\ code'[d].withdrawn = code[d].withdrawn
    BY <1>2, <1>4 DEF DeleteWithdrawn, Code
  <2>2. Empty(rev[d]) /\ ~Entered(rev[d]) /\ Empty(rev'[d]) /\ ~Entered(rev'[d])
    BY <1>2, <1>4 DEF MayErase, HasRevision, Exists, Empty, Entered
  <2>3. code'[d].kind = "REAL" => (code'[d].withdrawn <=> Empty(rev'[d]))
    BY <1>4, <2>1, <2>2 DEF MayErase
  <2> QED BY <2>1, <2>2, <2>3 DEF NumberedAndMarked
<1> QED BY <1>3, <1>4

LEMMA ReleasesMarked ==
  ASSUME MarkingInv, CatalogueInv, ReleasesNext, UNCHANGED code
  PROVE  \A d \in Codes : NumberedAndMarked(d)
<1>1. ASSUME NEW actor \in Users, NEW i \in ReleaseIds, Publish(actor, i)
      PROVE  \A d \in Codes : NumberedAndMarked(d)
  <2>1. ASSUME NEW d \in Codes, NEW m \in RevNo
        PROVE  /\ rev'[d][m].status = "NONE" <=> rev[d][m].status = "NONE"
               /\ rev'[d][m].status \notin {"NONE", "DRAFT"} =>
                    rev[d][m].status \notin {"NONE", "DRAFT"}
    <3>1. rev[d][m] \in Revision
      BY DEF CatalogueInv, SoundRevisions
    <3>2. <<d, m>> \in release[i].items => rev[d][m].status \notin {"NONE", "DRAFT"}
      BY <1>1 DEF Publish, Status
    <3> QED BY <1>1, <3>1, <3>2 DEF Publish, Revision
  <2> QED BY <2>1, MovingOnMarked
<1>2. UNCHANGED rev => \A d \in Codes : NumberedAndMarked(d)
  BY UntouchedMarked
<1> QED BY <1>1, <1>2 DEF ReleasesNext, CreateRelease, SetItems, DeleteRelease

\* What every step owes every code.
LEMMA StepMarked ==
  MarkingInv /\ AllOrdered /\ NumberingInv /\ GovernanceInv /\ [Next]_vars
    => \A d \in Codes : NumberedAndMarked(d)
<1> SUFFICES ASSUME MarkingInv, AllOrdered, NumberingInv, GovernanceInv, [Next]_vars
             PROVE  \A d \in Codes : NumberedAndMarked(d)
  OBVIOUS
<1>1. CatalogueInv
  BY DEF GovernanceInv, CatalogueInv
<1>2. UNCHANGED <<code, rev>> => \A d \in Codes : NumberedAndMarked(d)
  BY UntouchedMarked
<1>3. ASSUME RequestsNext PROVE \A d \in Codes : NumberedAndMarked(d)
  BY <1>1, <1>3, DraftingMarked, ReviewingMarked, RetiringMarked, DeletionMarked
  DEF RequestsNext
<1> QED BY <1>1, <1>2, <1>3, ReleasesMarked DEF Next, vars

LEMMA MarkingInvariant == Spec => []MarkingInv
<1>1. Init => MarkingInv
  BY DEF Init, CatalogueInit, MarkingInv, NoCode, NoRevision, Entered, Empty
<1>2. (\A d \in Codes : NumberedAndMarked(d)) => MarkingInv'
  BY DEF NumberedAndMarked, MarkingInv
<1> QED BY <1>1, <1>2, StepMarked, RevisionsAreOrdered, InvariantHolds,
           NumberingInvariantHolds, PTL DEF Spec

\* BR-026: for any number of codes and revisions, a code is marked withdrawn
\* exactly while it is an empty shell: the list the erasure works from is complete,
\* and nothing in use is on it.
THEOREM ShellsAreExactlyTheMarked == Spec => []ShellsAreMarked
<1>1. MarkingInv => ShellsAreMarked
  BY DEF MarkingInv, ShellsAreMarked, Empty, HasRevision, Exists
<1> QED BY <1>1, MarkingInvariant, PTL

\* BR-001: for any number of codes, revisions and bands, nothing enters review
\* without a number, and only the erasure of an empty shell takes a number away.
THEOREM NumbersAreForGood == Spec => IdentityIsFixed
<1>1. MarkingInv /\ AllOrdered /\ NumberingInv /\ GovernanceInv /\ [Next]_vars =>
        [\A c \in Codes :
           /\ (\E n \in RevNo : rev'[c][n].status \notin {"NONE", "DRAFT"}) =>
                code'[c].number # NoNumber
           /\ code[c].kind = "REAL" /\ code[c].number # NoNumber =>
                \/ code'[c].number = code[c].number
                \/ code'[c].deleted /\ ~HasRevision(c)]_vars
  BY StepMarked DEF NumberedAndMarked, Entered, Empty, HasRevision, Exists
<1> QED BY <1>1, MarkingInvariant, RevisionsAreOrdered, InvariantHolds,
           NumberingInvariantHolds, PTL DEF Spec, IdentityIsFixed

-----------------------------------------------------------------------------
(* What was decided stays.  A new revision must not be written over an old *)
(* one (the ids and numbers it takes are blank), and a sandbox code must   *)
(* not be deleted with a decided revision (that has a request).            *)

\* The decided revisions are decided, by the same people, after the step.
RevisionsStand ==
  \A c \in Codes, n \in RevNo :
    rev[c][n].status \in Decided =>
      /\ rev'[c][n].status \in Decided
      /\ Signed(rev'[c][n]) = Signed(rev[c][n])

PublishedStand ==
  \A i \in ReleaseIds :
    release[i].status = "PUBLISHED" => release'[i] = release[i]

-----------------------------------------------------------------------------

\* One row is replaced.
LEMMA ChangeStands ==
  ASSUME CatalogueInv, NEW c \in Codes, NEW n \in RevNo, NEW r, Change(c, n, r),
         rev[c][n].status \in Decided =>
           r.status \in Decided /\ Signed(r) = Signed(rev[c][n])
  PROVE  RevisionsStand
<1>1. \A d \in Codes, m \in RevNo :
        rev'[d][m] = IF d = c /\ m = n THEN r ELSE rev[d][m]
  BY DEF Change, CatalogueInv, SoundRevisions
<1> QED BY <1>1 DEF RevisionsStand

\* A revision is opened where none was.
LEMMA OpenStands ==
  ASSUME CatalogueInv, NEW c \in Codes, NEW n, NEW r, Open(c, n, r),
         n \in RevNo => rev[c][n].status = "NONE"
  PROVE  RevisionsStand
<1>1. SUFFICES ASSUME NEW d \in Codes, NEW m \in RevNo, rev[d][m].status \in Decided
               PROVE  /\ rev'[d][m].status \in Decided
                      /\ Signed(rev'[d][m]) = Signed(rev[d][m])
  BY DEF RevisionsStand
<1>2. CASE d # c
  <2>1. rev'[d][m] = rev[d][m]
    BY <1>2 DEF Open, CatalogueInv, SoundRevisions
  <2> QED BY <1>1, <2>1
<1>3. CASE d = c
  <2>1. m # n
    BY <1>1, <1>3 DEF Decided
  <2>2. rev'[d][m] = [rev[d][m] EXCEPT !.current = FALSE]
    BY <1>3, <2>1 DEF Open, CatalogueInv, SoundRevisions
  <2>3. rev[d][m] \in Revision
    BY DEF CatalogueInv, SoundRevisions
  <2> QED BY <1>1, <2>2, <2>3 DEF Signed, Revision
<1> QED BY <1>2, <1>3

LEMMA DraftingStands ==
  ASSUME NumberingInv, CatalogueInv, NEW actor \in Users, NEW c \in Codes,
         Drafting(actor, c)
  PROVE  RevisionsStand
<1>1. ASSUME NEW b \in Bands, NEW platforms \in BOOLEAN,
             NEW reserved \in NumbersOf(b) \union {NoNumber},
             CreateDraft(actor, c, b, reserved, platforms)
      PROVE  RevisionsStand
  BY <1>1, BlankRows, OpenStands DEF CreateDraft
<1>2. ASSUME NEW source \in Codes, CreatePlatformVariant(actor, source, c)
      PROVE  RevisionsStand
  <2>1. code[source].band \in Bands
    BY DEF CatalogueInv, Code
  <2> QED BY <1>1, <1>2, <2>1 DEF CreatePlatformVariant
<1>3. ASSUME NEW n \in RevNo, NEW r, IsNextRevision(c, n), Open(c, n, r)
      PROVE  RevisionsStand
  <2>1. n \in Nat
    BY DEF RevNo
  <2>2. rev[c][n].status = "NONE"
    BY <1>3, <2>1 DEF IsNextRevision, Exists
  <2> QED BY <1>3, <2>2, OpenStands
<1>4. ASSUME NEW n \in RevNo, NEW platforms \in BOOLEAN,
             CreateRevision(actor, c, n, platforms)
      PROVE  RevisionsStand
  BY <1>3, <1>4 DEF CreateRevision
<1>5. ASSUME NEW n \in RevNo, CreateDeprecationRequest(actor, c, n)
      PROVE  RevisionsStand
  BY <1>3, <1>5 DEF CreateDeprecationRequest
<1>6. ASSUME NEW k \in 0 .. SandboxLast, NEW platforms \in BOOLEAN,
             CreateSandbox(actor, c, k, platforms)
      PROVE  RevisionsStand
  BY <1>6, BlankRows, OpenStands DEF CreateSandbox
<1>7. ASSUME NEW n \in RevNo, NEW platforms \in BOOLEAN,
             UpdateDraft(actor, c, n, platforms)
      PROVE  RevisionsStand
  <2>1. rev[c][n].status \notin Decided
    BY <1>7 DEF UpdateDraft, Decided
  <2> QED BY <1>7, <2>1, ChangeStands DEF UpdateDraft
<1>8. ASSUME NEW n \in RevNo, SignDomain(actor, c, n)
      PROVE  RevisionsStand
  <2> DEFINE r == [rev[c][n] EXCEPT !.controls = actor]
  <2>1. rev[c][n] \in Revision
    BY DEF CatalogueInv, SoundRevisions
  <2>2. r.status = rev[c][n].status /\ Signed(r) = Signed(rev[c][n])
    BY <2>1 DEF Signed, Revision
  <2>3. Change(c, n, r)
    BY <1>8 DEF SignDomain
  <2> HIDE DEF r
  <2> QED BY <2>2, <2>3, ChangeStands
<1> QED BY <1>1, <1>2, <1>4, <1>5, <1>6, <1>7, <1>8 DEF Drafting

\* Nobody submits, assigns, signs or decides what was decided.
LEMMA ReviewingStands ==
  ASSUME CatalogueInv, NEW actor \in Users, NEW c \in Codes, NEW n \in RevNo,
         Reviewing(actor, c, n)
  PROVE  RevisionsStand
<1>1. rev[c][n].status \notin Decided
  BY DEF Reviewing, Submit, AutoAssignReviewer, AssignReviewer, ReviewerSignoff,
         AdminSignoff, ChiefEngineerDecide, ReviewerMayDecide, AdminMayDecide,
         ChiefMayDecide, Decided
<1>2. \E r : Change(c, n, r)
  BY DEF Reviewing, Submit, AutoAssignReviewer, AssignReviewer, ReviewerSignoff,
         AdminSignoff, ChiefEngineerDecide
<1> QED BY <1>1, <1>2, ChangeStands

LEMMA RetiringStands ==
  ASSUME CatalogueInv, NEW actor \in Users, NEW c \in Codes, Retiring(actor, c)
  PROVE  RevisionsStand
<1>1. ASSUME NEW n \in RevNo, Withdraw(actor, c, n)
      PROVE  RevisionsStand
  <2>1. SUFFICES ASSUME NEW d \in Codes, NEW m \in RevNo, rev[d][m].status \in Decided
                 PROVE  /\ rev'[d][m].status \in Decided
                        /\ Signed(rev'[d][m]) = Signed(rev[d][m])
    BY DEF RevisionsStand
  <2>2. rev[c][n].status \notin Decided
    BY <1>1 DEF Withdraw, OpenStates, Decided
  <2>3. rev'[d][m] \in {rev[d][m], [rev[d][m] EXCEPT !.current = TRUE]}
    BY <1>1, <2>1, <2>2 DEF Withdraw, CatalogueInv, SoundRevisions
  <2>4. rev[d][m] \in Revision
    BY DEF CatalogueInv, SoundRevisions
  <2> QED BY <2>1, <2>3, <2>4 DEF Signed, Revision
<1>2. ASSUME NEW n \in RevNo, NEW s \in Decided,
             Change(c, n, [rev[c][n] EXCEPT !.status = s])
      PROVE  RevisionsStand
  <2> DEFINE r == [rev[c][n] EXCEPT !.status = s]
  <2>1. rev[c][n] \in Revision
    BY DEF CatalogueInv, SoundRevisions
  <2>2. r.status \in Decided /\ Signed(r) = Signed(rev[c][n])
    BY <2>1 DEF Signed, Revision
  <2> HIDE DEF r
  <2>3. Change(c, n, r)
    BY <1>2 DEF r
  <2> QED BY <2>2, <2>3, ChangeStands
<1>3. ASSUME NEW n \in RevNo, Archive(actor, c, n) \/ Reinstate(actor, c, n)
      PROVE  RevisionsStand
  BY <1>2, <1>3 DEF Archive, Reinstate, Decided
<1>4. ASSUME DeleteSandbox(actor, c)
      PROVE  RevisionsStand
  <2>1. \A n \in RevNo : rev[c][n].status \notin Decided
    BY <1>4 DEF DeleteSandbox, IsRequest, Exists, CatalogueInv, SoundRevisions,
                Sound, Decided
  <2>2. \A d \in Codes \ {c}, m \in RevNo : rev'[d][m] = rev[d][m]
    BY <1>4 DEF DeleteSandbox, CatalogueInv, SoundRevisions
  <2> QED BY <2>1, <2>2 DEF RevisionsStand
<1> QED BY <1>1, <1>3, <1>4 DEF Retiring

LEMMA UnchangedStand ==
  /\ UNCHANGED rev => RevisionsStand
  /\ UNCHANGED release => PublishedStand
BY DEF RevisionsStand, PublishedStand

LEMMA RequestsStand ==
  ASSUME NumberingInv, CatalogueInv, RequestsNext
  PROVE  RevisionsStand
BY DraftingStands, ReviewingStands, RetiringStands, UnchangedStand
DEF RequestsNext, DeleteWithdrawn

LEMMA ReleasesStand ==
  ASSUME CatalogueInv, ReleasesTypeOK, ReleasesNext
  PROVE  RevisionsStand /\ PublishedStand
<1> USE DEF ReleasesTypeOK
<1>1. ASSUME NEW actor \in Users, NEW i \in ReleaseIds, CreateRelease(actor, i)
      PROVE  RevisionsStand /\ PublishedStand
  BY <1>1, UnchangedStand DEF CreateRelease, PublishedStand
<1>2. ASSUME NEW actor \in Users, NEW i \in ReleaseIds, NEW items, SetItems(actor, i, items)
      PROVE  RevisionsStand /\ PublishedStand
  BY <1>2, UnchangedStand DEF SetItems, PublishedStand
<1>3. ASSUME NEW actor \in Users, NEW i \in ReleaseIds, DeleteRelease(actor, i)
      PROVE  RevisionsStand /\ PublishedStand
  BY <1>3, UnchangedStand DEF DeleteRelease, PublishedStand
<1>4. ASSUME NEW actor \in Users, NEW i \in ReleaseIds, Publish(actor, i)
      PROVE  RevisionsStand /\ PublishedStand
  <2>1. PublishedStand
    BY <1>4 DEF Publish, PublishedStand
  <2>2. SUFFICES ASSUME NEW d \in Codes, NEW m \in RevNo, rev[d][m].status \in Decided
                 PROVE  /\ rev'[d][m].status \in Decided
                        /\ Signed(rev'[d][m]) = Signed(rev[d][m])
    BY <2>1 DEF RevisionsStand
  <2>3. rev'[d][m] \in {rev[d][m], [rev[d][m] EXCEPT !.status = "RELEASED"]}
    BY <1>4 DEF Publish
  <2>4. rev[d][m] \in Revision
    BY DEF CatalogueInv, SoundRevisions
  <2> QED BY <2>2, <2>3, <2>4 DEF Signed, Revision, Decided
<1> QED BY <1>1, <1>2, <1>3, <1>4 DEF ReleasesNext

-----------------------------------------------------------------------------

\* BR-007: no operation, by whomever and whenever, deletes a decided revision,
\* reopens it, changes who decided it, or touches a published release.
THEOREM WhatWasDecidedStays == Spec => DecisionsStand
<1>1. NumberingInv /\ GovernanceInv /\ [Next]_vars => [RevisionsStand /\ PublishedStand]_vars
  <2> SUFFICES ASSUME NumberingInv, GovernanceInv, Next
               PROVE  RevisionsStand /\ PublishedStand
    OBVIOUS
  <2>1. CatalogueInv /\ ReleasesTypeOK
    BY DEF GovernanceInv, CatalogueInv
  <2> QED BY <2>1, RequestsStand, ReleasesStand, UnchangedStand DEF Next
<1>2. NumberingInv /\ GovernanceInv /\ [Next]_vars =>
        [/\ \A c \in Codes, n \in RevNo :
              rev[c][n].status \in Decided =>
                /\ rev'[c][n].status \in Decided
                /\ Signed(rev'[c][n]) = Signed(rev[c][n])
         /\ \A i \in ReleaseIds :
              release[i].status = "PUBLISHED" => release'[i] = release[i]]_vars
  BY <1>1 DEF RevisionsStand, PublishedStand
<1> QED
  BY <1>2, InvariantHolds, NumberingInvariantHolds, PTL DEF Spec, DecisionsStand

-----------------------------------------------------------------------------
(* Releases and their revisions.                                           *)

\* What an operation on requests leaves alone: Approved and Released revisions.
\* What it makes Released was to be deprecated.
Claimable == {"APPROVED", "RELEASED"}

ReleasableStand ==
  \A c \in Codes, n \in RevNo :
    /\ rev[c][n].status \in Claimable =>
         /\ rev'[c][n].status = rev[c][n].status
         /\ rev'[c][n].deprecation = rev[c][n].deprecation
    /\ rev'[c][n].status = "RELEASED" =>
         rev[c][n].status = "RELEASED" \/ rev'[c][n].deprecation

-----------------------------------------------------------------------------
(* Requests                                                                *)

\* Only a row changes that no release may hold.
LEMMA ChangeReleasable ==
  ASSUME CatalogueInv, NEW c \in Codes, NEW n \in RevNo, NEW r, Change(c, n, r),
         rev[c][n].status \notin Claimable,
         r.status = "RELEASED" => r.deprecation
  PROVE  ReleasableStand
<1>1. \A d \in Codes, m \in RevNo :
        rev'[d][m] = IF d = c /\ m = n THEN r ELSE rev[d][m]
  BY DEF Change, CatalogueInv, SoundRevisions
<1> QED BY <1>1 DEF ReleasableStand

LEMMA OpenReleasable ==
  ASSUME CatalogueInv, NEW c \in Codes, NEW n, NEW r, Open(c, n, r),
         n \in RevNo => rev[c][n].status = "NONE", r.status = "DRAFT"
  PROVE  ReleasableStand
<1>1. ASSUME NEW d \in Codes \ {c}, NEW m \in RevNo PROVE rev'[d][m] = rev[d][m]
  BY DEF Open, CatalogueInv, SoundRevisions
<1>2. ASSUME NEW m \in RevNo, m # n
      PROVE  /\ rev'[c][m].status = rev[c][m].status
             /\ rev'[c][m].deprecation = rev[c][m].deprecation
  <2>1. rev'[c][m] = [rev[c][m] EXCEPT !.current = FALSE] /\ rev[c][m] \in Revision
    BY <1>2 DEF Open, CatalogueInv, SoundRevisions
  <2> QED BY <2>1 DEF Revision
<1>3. n \in RevNo => rev'[c][n].status = "DRAFT"
  BY DEF Open, CatalogueInv, SoundRevisions
<1> QED BY <1>1, <1>2, <1>3 DEF ReleasableStand, Claimable

LEMMA DraftingReleasable ==
  ASSUME NumberingInv, CatalogueInv, NEW actor \in Users, NEW c \in Codes,
         Drafting(actor, c)
  PROVE  ReleasableStand
<1>1. ASSUME NEW platforms, NEW deprecation, NEW cr
      PROVE  NewDraft(actor, platforms, deprecation, cr).status = "DRAFT"
  BY DEF NewDraft, NoRevision
<1>2. ASSUME NEW b \in Bands, NEW platforms \in BOOLEAN,
             NEW reserved \in NumbersOf(b) \union {NoNumber},
             CreateDraft(actor, c, b, reserved, platforms)
      PROVE  ReleasableStand
  BY <1>1, <1>2, BlankRows, OpenReleasable DEF CreateDraft
<1>3. ASSUME NEW source \in Codes, CreatePlatformVariant(actor, source, c)
      PROVE  ReleasableStand
  <2>1. code[source].band \in Bands
    BY DEF CatalogueInv, Code
  <2> QED BY <1>2, <1>3, <2>1 DEF CreatePlatformVariant
<1>4. ASSUME NEW n \in RevNo, NEW r, IsNextRevision(c, n), Open(c, n, r), r.status = "DRAFT"
      PROVE  ReleasableStand
  <2>1. n \in Nat
    BY DEF RevNo
  <2>2. rev[c][n].status = "NONE"
    BY <1>4, <2>1 DEF IsNextRevision, Exists
  <2> QED BY <1>4, <2>2, OpenReleasable
<1>5. ASSUME NEW n \in RevNo, NEW platforms \in BOOLEAN,
             CreateRevision(actor, c, n, platforms)
      PROVE  ReleasableStand
  BY <1>1, <1>4, <1>5 DEF CreateRevision
<1>6. ASSUME NEW n \in RevNo, CreateDeprecationRequest(actor, c, n)
      PROVE  ReleasableStand
  BY <1>1, <1>4, <1>6 DEF CreateDeprecationRequest
<1>7. ASSUME NEW k \in 0 .. SandboxLast, NEW platforms \in BOOLEAN,
             CreateSandbox(actor, c, k, platforms)
      PROVE  ReleasableStand
  BY <1>1, <1>7, BlankRows, OpenReleasable DEF CreateSandbox
<1>8. ASSUME NEW n \in RevNo, NEW platforms \in BOOLEAN,
             UpdateDraft(actor, c, n, platforms)
      PROVE  ReleasableStand
  <2> DEFINE r == [rev[c][n] EXCEPT !.platforms = platforms]
  <2>1. rev[c][n] \in Revision /\ rev[c][n].status = "DRAFT"
    BY <1>8 DEF UpdateDraft, CatalogueInv, SoundRevisions
  <2>2. r.status = "DRAFT" /\ Change(c, n, r)
    BY <1>8, <2>1 DEF UpdateDraft, Revision
  <2> HIDE DEF r
  <2> QED BY <2>1, <2>2, ChangeReleasable DEF Claimable
<1>9. ASSUME NEW n \in RevNo, SignDomain(actor, c, n)
      PROVE  ReleasableStand
  <2>1. rev[c][n] \in Revision
    BY DEF CatalogueInv, SoundRevisions
  <2>2. ASSUME NEW d \in Codes, NEW m \in RevNo
        PROVE  /\ rev'[d][m].status = rev[d][m].status
               /\ rev'[d][m].deprecation = rev[d][m].deprecation
    <3>1. rev'[d][m] = IF d = c /\ m = n THEN [rev[c][n] EXCEPT !.controls = actor]
                       ELSE rev[d][m]
      BY <1>9 DEF SignDomain, Change, CatalogueInv, SoundRevisions
    <3> QED BY <2>1, <3>1 DEF Revision
  <2> QED BY <2>2 DEF ReleasableStand
<1> QED BY <1>2, <1>3, <1>5, <1>6, <1>7, <1>8, <1>9 DEF Drafting

LEMMA ReviewingReleasable ==
  ASSUME CatalogueInv, NEW actor \in Users, NEW c \in Codes, NEW n \in RevNo,
         Reviewing(actor, c, n)
  PROVE  ReleasableStand
<1> DEFINE r == rev[c][n]
<1>1. r \in Revision
  BY DEF CatalogueInv, SoundRevisions
<1>2. r.status \in OpenStates
  BY DEF Reviewing, Submit, AutoAssignReviewer, AssignReviewer, ReviewerSignoff,
         AdminSignoff, ChiefEngineerDecide, ReviewerMayDecide, AdminMayDecide,
         ChiefMayDecide, OpenStates
<1> HIDE DEF r
<1>3. \E s : Change(c, n, s) /\ s.status # "RELEASED"
  <2>1. ASSUME NEW u PROVE [r EXCEPT !.status = "REVIEW", !.assigned = u].status = "REVIEW"
    BY <1>1 DEF Revision
  <2>2. ASSUME NEW u PROVE [r EXCEPT !.assigned = u].status = r.status
    BY <1>1 DEF Revision
  <2>3. [WithoutSignoffs(r) EXCEPT !.status = "DRAFT"].status = "DRAFT"
    BY <1>1 DEF Revision, WithoutSignoffs
  <2>4. ASSUME NEW u, NEW s
        PROVE  /\ [r EXCEPT !.reviewer = u, !.status = s].status = s
               /\ [r EXCEPT !.admin = u, !.status = s].status = s
               /\ [r EXCEPT !.chief = u, !.status = s].status = s
    BY <1>1 DEF Revision
  <2>5. ASSUME NEW k, NEW auto, Submit(actor, c, n, k, auto)
        PROVE  \E s : Change(c, n, s) /\ s.status # "RELEASED"
    BY <2>1, <2>5 DEF Submit, r
  <2>6. ASSUME NEW reviewer, AssignReviewer(actor, c, n, reviewer)
        PROVE  \E s : Change(c, n, s) /\ s.status # "RELEASED"
    BY <1>2, <2>2, <2>6 DEF AssignReviewer, r, OpenStates
  <2>7. ASSUME NEW decision, ReviewerSignoff(actor, c, n, decision)
        PROVE  \E s : Change(c, n, s) /\ s.status # "RELEASED"
    <3>1. CASE decision = "REJECT"
      BY <2>3, <2>7, <3>1 DEF ReviewerSignoff, r
    <3>2. CASE decision # "REJECT"
      <4>1. PICK s : /\ s # "RELEASED"
                     /\ Change(c, n, [r EXCEPT !.reviewer = actor, !.status = s])
        BY <2>7, <3>2 DEF ReviewerSignoff, r
      <4> QED BY <2>4, <4>1
    <3> QED BY <3>1, <3>2
  <2>8. ASSUME NEW decision, AdminSignoff(actor, c, n, decision)
        PROVE  \E s : Change(c, n, s) /\ s.status # "RELEASED"
    <3>1. CASE decision = "REJECT"
      BY <2>3, <2>8, <3>1 DEF AdminSignoff, r
    <3>2. CASE decision # "REJECT"
      <4>1. PICK s : /\ s # "RELEASED"
                     /\ Change(c, n, [r EXCEPT !.admin = actor, !.status = s])
        BY <2>8, <3>2 DEF AdminSignoff, r
      <4> QED BY <2>4, <4>1
    <3> QED BY <3>1, <3>2
  <2>9. ASSUME NEW decision, ChiefEngineerDecide(actor, c, n, decision)
        PROVE  \E s : Change(c, n, s) /\ s.status # "RELEASED"
    <3>1. CASE decision = "REJECT"
      BY <2>3, <2>9, <3>1 DEF ChiefEngineerDecide, r
    <3>2. CASE decision # "REJECT"
      <4>1. PICK s : /\ s # "RELEASED"
                     /\ Change(c, n, [r EXCEPT !.chief = actor, !.status = s])
        BY <2>9, <3>2 DEF ChiefEngineerDecide, r
      <4> QED BY <2>4, <4>1
    <3> QED BY <3>1, <3>2
  <2> QED BY <2>5, <2>6, <2>7, <2>8, <2>9 DEF Reviewing, AutoAssignReviewer
<1>4. rev[c][n].status \notin Claimable
  BY <1>2 DEF r, OpenStates, Claimable
<1> QED BY <1>3, <1>4, ChangeReleasable

LEMMA RetiringReleasable ==
  ASSUME CatalogueInv, NEW actor \in Users, NEW c \in Codes, Retiring(actor, c)
  PROVE  ReleasableStand
<1>1. ASSUME NEW n \in RevNo, Withdraw(actor, c, n)
      PROVE  ReleasableStand
  <2>1. rev[c][n].status \notin Claimable /\ NoRevision.status = "NONE"
    BY <1>1 DEF Withdraw, OpenStates, Claimable, NoRevision
  <2>2. ASSUME NEW d \in Codes, NEW m \in RevNo
        PROVE  \/ d = c /\ m = n /\ rev'[d][m] = NoRevision
               \/ /\ rev'[d][m].status = rev[d][m].status
                  /\ rev'[d][m].deprecation = rev[d][m].deprecation
    <3>1. rev'[d][m] = IF d = c /\ m = n THEN NoRevision
                       ELSE IF d = c /\ m = n - 1 /\ n > 1 /\ Exists(c, n - 1)
                            THEN [rev[d][m] EXCEPT !.current = TRUE]
                            ELSE rev[d][m]
      BY <1>1 DEF Withdraw, CatalogueInv, SoundRevisions
    <3>2. rev[d][m] \in Revision
      BY DEF CatalogueInv, SoundRevisions
    <3> QED BY <3>1, <3>2 DEF Revision
  <2> QED BY <2>1, <2>2 DEF ReleasableStand
<1>2. ASSUME NEW n \in RevNo, Archive(actor, c, n) \/ Reinstate(actor, c, n)
      PROVE  ReleasableStand
  <2>1. /\ rev[c][n].status = "DEPRECATED" /\ rev[c][n].deprecation
        /\ rev[c][n] \in Revision
    BY <1>2 DEF Archive, Reinstate, CatalogueInv, SoundRevisions, Sound
  <2>2. PICK s \in {"ARCHIVED", "RELEASED"} : Change(c, n, [rev[c][n] EXCEPT !.status = s])
    BY <1>2 DEF Archive, Reinstate
  <2>3. [rev[c][n] EXCEPT !.status = s].deprecation
    BY <2>1 DEF Revision
  <2> QED BY <2>1, <2>2, <2>3, ChangeReleasable DEF Claimable
<1>3. ASSUME DeleteSandbox(actor, c)
      PROVE  ReleasableStand
  <2>1. \A n \in RevNo : rev[c][n].status \notin Claimable
    BY <1>3 DEF DeleteSandbox, IsRequest, Exists, CatalogueInv, SoundRevisions,
                Sound, Claimable
  <2>2. \A d \in Codes, m \in RevNo : rev'[d][m] = IF d = c THEN NoRevision ELSE rev[d][m]
    BY <1>3 DEF DeleteSandbox, CatalogueInv, SoundRevisions
  <2>3. NoRevision.status = "NONE"
    BY DEF NoRevision
  <2> QED BY <2>1, <2>2, <2>3 DEF ReleasableStand
<1> QED BY <1>1, <1>2, <1>3 DEF Retiring

LEMMA RequestsReleasable ==
  ASSUME NumberingInv, CatalogueInv, RequestsNext
  PROVE  ReleasableStand
<1>1. UNCHANGED rev => ReleasableStand
  BY DEF ReleasableStand
<1> QED BY <1>1, DraftingReleasable, ReviewingReleasable, RetiringReleasable
        DEF RequestsNext, DeleteWithdrawn

-----------------------------------------------------------------------------
(* Releases                                                                *)

\* The revisions that releases hold are revisions.
LEMMA ItemsAreRows ==
  ASSUME ReleasesTypeOK, NEW i \in ReleaseIds, NEW p \in release[i].items
  PROVE  p \in Codes \X RevNo
BY DEF ReleasesTypeOK, Release

LEMMA RequestsAgree ==
  ASSUME ReleasesAgree, ReleasesTypeOK, ReleasableStand, UNCHANGED release
  PROVE  ReleasesAgree'
<1>1. ASSUME NEW i \in ReleaseIds, NEW p \in release'[i].items
      PROVE  /\ Status(p)' = IF release'[i].status = "PUBLISHED" THEN "RELEASED" ELSE "APPROVED"
             /\ Holders(p)' = {i}
  <2>1. p \in release[i].items /\ p \in Codes \X RevNo
    BY <1>1, ItemsAreRows
  <2>2. Status(p) \in Claimable
    BY <2>1 DEF ReleasesAgree, Claimable
  <2>3. Status(p)' = Status(p)
    BY <2>1, <2>2 DEF Status, ReleasableStand
  <2>4. Holders(p)' = Holders(p)
    BY DEF Holders
  <2> QED BY <2>1, <2>3, <2>4 DEF ReleasesAgree
<1>2. ASSUME NEW c \in Codes, NEW n \in RevNo,
             rev'[c][n].status = "RELEASED", ~rev'[c][n].deprecation
      PROVE  \E i \in Holders(<<c, n>>)' : release'[i].status = "PUBLISHED"
  <2>1. rev[c][n].status = "RELEASED" /\ ~rev[c][n].deprecation
    BY <1>2 DEF ReleasableStand, Claimable
  <2> QED BY <2>1 DEF ReleasesAgree, Holders
<1> QED BY <1>1, <1>2 DEF ReleasesAgree

LEMMA ReleasesStepAgrees ==
  ASSUME ReleasesAgree, ReleasesTypeOK, CatalogueInv, ReleasesNext
  PROVE  ReleasesAgree'
<1> USE DEF ReleasesTypeOK
<1>1. ASSUME NEW actor \in Users, NEW i \in ReleaseIds, CreateRelease(actor, i)
      PROVE  ReleasesAgree'
  <2>1. \A j \in ReleaseIds : /\ release'[j].items = release[j].items
                              /\ release'[j].status = "PUBLISHED" <=> release[j].status = "PUBLISHED"
    BY <1>1 DEF CreateRelease, Release
  <2>2. UNCHANGED rev
    BY <1>1 DEF CreateRelease
  <2> QED BY <2>1, <2>2 DEF ReleasesAgree, Holders, Status
\* The items of a release in the making are replaced; the others are as before.
<1>2. ASSUME NEW i \in ReleaseIds, release[i].status # "PUBLISHED", UNCHANGED rev,
             \A j \in ReleaseIds \ {i} : release'[j] = release[j],
             release'[i].status # "PUBLISHED",
             \A p \in release'[i].items : Status(p) = "APPROVED" /\ Holders(p) \subseteq {i}
      PROVE  ReleasesAgree'
  <2>1. ASSUME NEW j \in ReleaseIds, NEW p \in release'[j].items
        PROVE  /\ Status(p)' = IF release'[j].status = "PUBLISHED" THEN "RELEASED" ELSE "APPROVED"
               /\ Holders(p)' = {j}
    <3>1. CASE j = i
      <4>1. \A k \in ReleaseIds \ {i} : p \notin release'[k].items
        BY <1>2, <2>1, <3>1 DEF Holders
      <4> QED BY <1>2, <2>1, <3>1, <4>1 DEF Holders, Status
    <3>2. CASE j # i
      <4>1. p \in release[j].items /\ Holders(p) = {j}
        BY <1>2, <2>1, <3>2 DEF ReleasesAgree
      <4>2. p \notin release'[i].items
        BY <1>2, <3>2, <4>1
      <4>3. Holders(p)' = {j}
        BY <1>2, <3>2, <4>1, <4>2 DEF Holders
      <4> QED BY <1>2, <3>2, <4>1, <4>3 DEF ReleasesAgree, Status
    <3> QED BY <3>1, <3>2
  <2>2. ASSUME NEW c \in Codes, NEW n \in RevNo,
               rev'[c][n].status = "RELEASED", ~rev'[c][n].deprecation
        PROVE  \E j \in Holders(<<c, n>>)' : release'[j].status = "PUBLISHED"
    <3>1. PICK j \in Holders(<<c, n>>) : release[j].status = "PUBLISHED"
      BY <1>2, <2>2 DEF ReleasesAgree
    <3>2. j \in ReleaseIds \ {i}
      BY <1>2, <3>1 DEF Holders
    <3> QED BY <1>2, <3>1, <3>2 DEF Holders
  <2> QED BY <2>1, <2>2 DEF ReleasesAgree
<1>3. ASSUME NEW actor \in Users, NEW i \in ReleaseIds, NEW items, SetItems(actor, i, items)
      PROVE  ReleasesAgree'
  BY <1>2, <1>3 DEF SetItems, MayInclude, Release
<1>4. ASSUME NEW actor \in Users, NEW i \in ReleaseIds, DeleteRelease(actor, i)
      PROVE  ReleasesAgree'
  BY <1>2, <1>4 DEF DeleteRelease, Release
<1>5. ASSUME NEW actor \in Users, NEW i \in ReleaseIds, Publish(actor, i)
      PROVE  ReleasesAgree'
  <2>1. \A p : Holders(p)' = Holders(p)
    BY <1>5 DEF Publish, Holders, Release
  <2>2. \A j \in ReleaseIds : /\ release'[j].items = release[j].items
                              /\ release'[j].status =
                                   IF j = i THEN "PUBLISHED" ELSE release[j].status
    BY <1>5 DEF Publish, Release
  <2>3. release[i].status = "BUILDING"
    BY <1>5 DEF Publish
  <2>4. ASSUME NEW c \in Codes, NEW n \in RevNo
        PROVE  /\ rev'[c][n].status = IF <<c, n>> \in release[i].items THEN "RELEASED"
                                      ELSE rev[c][n].status
               /\ rev'[c][n].deprecation = rev[c][n].deprecation
    <3>1. rev[c][n] \in Revision
      BY DEF CatalogueInv, SoundRevisions
    <3> QED BY <1>5, <3>1 DEF Publish, Revision
  <2>5. ASSUME NEW j \in ReleaseIds, NEW p \in release'[j].items
        PROVE  /\ Status(p)' = IF release'[j].status = "PUBLISHED" THEN "RELEASED" ELSE "APPROVED"
               /\ Holders(p)' = {j}
    <3>1. p \in release[j].items /\ p \in Codes \X RevNo
      BY <2>2, <2>5, ItemsAreRows
    <3>2. Holders(p) = {j}
      BY <3>1 DEF ReleasesAgree
    <3>3. p \in release[i].items <=> j = i
      BY <3>1, <3>2 DEF Holders
    <3>4. p = <<p[1], p[2]>>
      BY <3>1
    <3>5. Status(p)' = IF j = i THEN "RELEASED" ELSE Status(p)
      BY <2>4, <3>1, <3>3, <3>4 DEF Status
    <3> QED BY <2>1, <2>2, <3>1, <3>2, <3>5 DEF ReleasesAgree
  <2>6. ASSUME NEW c \in Codes, NEW n \in RevNo,
               rev'[c][n].status = "RELEASED", ~rev'[c][n].deprecation
        PROVE  \E j \in Holders(<<c, n>>)' : release'[j].status = "PUBLISHED"
    <3>1. CASE <<c, n>> \in release[i].items
      BY <2>1, <2>2, <3>1 DEF Holders
    <3>2. CASE <<c, n>> \notin release[i].items
      <4>1. rev[c][n].status = "RELEASED" /\ ~rev[c][n].deprecation
        BY <2>4, <2>6, <3>2
      <4>2. PICK j \in Holders(<<c, n>>) : release[j].status = "PUBLISHED"
        BY <4>1 DEF ReleasesAgree
      <4> QED BY <2>1, <2>2, <4>2 DEF Holders
    <3> QED BY <3>1, <3>2
  <2> QED BY <2>5, <2>6 DEF ReleasesAgree
<1> QED BY <1>1, <1>3, <1>4, <1>5 DEF ReleasesNext

-----------------------------------------------------------------------------

\* BR-004, BR-007, FR-043: with any number of releases in the making, a revision
\* is in at most one, Approved until it is published and Released from then on.
THEOREM ReleasesAndRevisionsAgree == Spec => []ReleasesAgree
<1>1. Init => ReleasesAgree
  <2>1. NoRevision.status = "NONE"
    BY DEF NoRevision
  <2> QED BY <2>1 DEF Init, CatalogueInit, ReleasesInit, ReleasesAgree
<1>2. ReleasesAgree /\ NumberingInv /\ GovernanceInv /\ [Next]_vars => ReleasesAgree'
  <2> SUFFICES ASSUME ReleasesAgree, NumberingInv, GovernanceInv, [Next]_vars
               PROVE  ReleasesAgree'
    OBVIOUS
  <2>1. CatalogueInv /\ ReleasesTypeOK
    BY DEF GovernanceInv, CatalogueInv
  <2>2. UNCHANGED rev => ReleasableStand
    BY DEF ReleasableStand
  <2> QED BY <2>1, <2>2, RequestsReleasable, RequestsAgree, ReleasesStepAgrees
          DEF Next, vars
<1> QED BY <1>1, <1>2, InvariantHolds, NumberingInvariantHolds, PTL DEF Spec

-----------------------------------------------------------------------------
(* The refinement.                                                         *)

\* What the lifecycle sees of the catalogue.
StatusSeen == [c \in Codes |-> [n \in RevNo |-> rev[c][n].status]]

SignedSeen == [c \in Codes |-> [n \in RevNo |-> Signed(rev[c][n])]]

\* Revision `n` of `c` looks the same after the step.
LooksTheSame(c, n) ==
  rev'[c][n].status = rev[c][n].status /\ Signed(rev'[c][n]) = Signed(rev[c][n])

\* It moves to the state `to` and carries the entries `by`, and nothing else moves.
OnlyMoves(c, n, to, by) ==
  /\ rev'[c][n].status = to /\ Signed(rev'[c][n]) = by
  /\ \A d \in Codes, m \in RevNo : d # c \/ m # n => LooksTheSame(d, m)

NothingMoves == \A d \in Codes, m \in RevNo : LooksTheSame(d, m)

-----------------------------------------------------------------------------
(* What is seen                                                            *)

LEMMA OneEntryDiffers ==
  ASSUME NEW A, NEW B, NEW S, NEW T,
         S = [a \in A |-> [b \in B |-> S[a][b]]], T = [a \in A |-> [b \in B |-> T[a][b]]],
         NEW c \in A, NEW n \in B, NEW x, T[c][n] = x,
         \A a \in A, b \in B : a # c \/ b # n => T[a][b] = S[a][b]
  PROVE  T = [S EXCEPT ![c][n] = x]
<1> DEFINE row == [S[c] EXCEPT ![n] = x]
<1>1. S[c] = [b \in B |-> S[c][b]] /\ T[c] = [b \in B |-> T[c][b]]
  OBVIOUS
<1>2. row = [b \in B |-> IF b = n THEN x ELSE S[c][b]]
  BY <1>1
<1>3. row = T[c]
  BY <1>1, <1>2
<1> HIDE DEF row
<1>4. \A a \in A : a # c => S[a] = T[a]
  OBVIOUS
<1>5. T = [S EXCEPT ![c] = row]
  BY <1>3, <1>4
<1> QED BY <1>5, Zenon DEF row

LEMMA MovesAreSeen ==
  ASSUME NEW c \in Codes, NEW n \in RevNo, NEW to, NEW by, OnlyMoves(c, n, to, by)
  PROVE  Abstract!Moves(c, n, to, by)
<1>1. /\ StatusSeen = [d \in Codes |-> [m \in RevNo |-> StatusSeen[d][m]]]
      /\ StatusSeen' = [d \in Codes |-> [m \in RevNo |-> StatusSeen'[d][m]]]
      /\ StatusSeen'[c][n] = to
      /\ \A d \in Codes, m \in RevNo : d # c \/ m # n => StatusSeen'[d][m] = StatusSeen[d][m]
  BY DEF StatusSeen, OnlyMoves, LooksTheSame
<1>2. StatusSeen' = [StatusSeen EXCEPT ![c][n] = to]
  BY <1>1, OneEntryDiffers
<1>3. /\ SignedSeen = [d \in Codes |-> [m \in RevNo |-> SignedSeen[d][m]]]
      /\ SignedSeen' = [d \in Codes |-> [m \in RevNo |-> SignedSeen'[d][m]]]
      /\ SignedSeen'[c][n] = by
      /\ \A d \in Codes, m \in RevNo : d # c \/ m # n => SignedSeen'[d][m] = SignedSeen[d][m]
  BY DEF SignedSeen, OnlyMoves, LooksTheSame
<1>4. SignedSeen' = [SignedSeen EXCEPT ![c][n] = by]
  BY <1>3, OneEntryDiffers
<1> QED BY <1>2, <1>4 DEF Abstract!Moves, StatusSeen, SignedSeen

LEMMA NothingIsSeen ==
  ASSUME NothingMoves
  PROVE  UNCHANGED <<StatusSeen, SignedSeen>>
BY DEF NothingMoves, LooksTheSame, StatusSeen, SignedSeen

\* Entries by their parts.
Entries(author, reviewer, admin, chief) ==
  {e \in {<<"AUTHOR", author>>, <<"REVIEWER", reviewer>>,
          <<"ADMIN", admin>>, <<"CHIEF", chief>>} : e[2] # Nobody}

LEMMA EntriesOf ==
  ASSUME NEW a, NEW v, NEW d, NEW f
  PROVE  /\ \A e : e \in Entries(a, v, d, f) <=>
              \/ e = <<"AUTHOR", a>> /\ a # Nobody
              \/ e = <<"REVIEWER", v>> /\ v # Nobody
              \/ e = <<"ADMIN", d>> /\ d # Nobody
              \/ e = <<"CHIEF", f>> /\ f # Nobody
         /\ \A e \in Entries(a, v, d, f) : \E p \in Abstract!Parts : \E u : e = <<p, u>> /\ u # Nobody
BY DEF Entries, Abstract!Parts

LEMMA SignedIsEntries ==
  ASSUME NEW r
  PROVE  Signed(r) = Entries(r.author, r.reviewer, r.admin, r.chief)
BY DEF Signed, Entries

\* The entries after a sign-off and after a rejection, and whether a part has signed.
WithEntry(entries, part, u) == {e \in entries : e[1] # part} \union {<<part, u>>}

AuthorOnly(entries) == {e \in entries : e[1] = "AUTHOR"}

HasEntry(entries, part) == \E e \in entries : e[1] = part

\* A new sign-off replaces the entry of its part; without the sign-offs the author is left.
LEMMA NewEntry ==
  ASSUME NEW a, NEW v, NEW d, NEW f, NEW u, u # Nobody
  PROVE  /\ WithEntry(Entries(a, v, d, f), "REVIEWER", u) = Entries(a, u, d, f)
         /\ WithEntry(Entries(a, v, d, f), "ADMIN", u) = Entries(a, v, u, f)
         /\ WithEntry(Entries(a, v, d, f), "CHIEF", u) = Entries(a, v, d, u)
<1>1. \A e : e \in Entries(a, u, d, f) <=>
        (e \in Entries(a, v, d, f) /\ e[1] # "REVIEWER") \/ e = <<"REVIEWER", u>>
  BY EntriesOf
<1>2. \A e : e \in Entries(a, v, u, f) <=>
        (e \in Entries(a, v, d, f) /\ e[1] # "ADMIN") \/ e = <<"ADMIN", u>>
  BY EntriesOf
<1>3. \A e : e \in Entries(a, v, d, u) <=>
        (e \in Entries(a, v, d, f) /\ e[1] # "CHIEF") \/ e = <<"CHIEF", u>>
  BY EntriesOf
<1> QED BY ONLY <1>1, <1>2, <1>3 DEF WithEntry

LEMMA AuthorsEntry ==
  ASSUME NEW a, NEW v, NEW d
  PROVE  AuthorOnly(Entries(a, v, d, Nobody)) = Entries(a, Nobody, Nobody, Nobody)
<1>1. \A e : e \in Entries(a, Nobody, Nobody, Nobody) <=>
        e \in Entries(a, v, d, Nobody) /\ e[1] = "AUTHOR"
  BY EntriesOf
<1> QED BY ONLY <1>1 DEF AuthorOnly

LEMMA FewEntries ==
  /\ \A u : u # Nobody => Entries(u, Nobody, Nobody, Nobody) = {<<"AUTHOR", u>>}
  /\ Entries(Nobody, Nobody, Nobody, Nobody) = {}
BY EntriesOf

LEMMA WhoSigned ==
  ASSUME NEW a, NEW v, NEW d, NEW f
  PROVE  /\ HasEntry(Entries(a, v, d, f), "REVIEWER") <=> v # Nobody
         /\ HasEntry(Entries(a, v, d, f), "ADMIN") <=> d # Nobody
<1>1. /\ v # Nobody => <<"REVIEWER", v>> \in Entries(a, v, d, f)
      /\ d # Nobody => <<"ADMIN", d>> \in Entries(a, v, d, f)
      /\ \A e \in Entries(a, v, d, f) : /\ e[1] = "REVIEWER" => v # Nobody
                                        /\ e[1] = "ADMIN" => d # Nobody
  BY EntriesOf
<1>2. <<"REVIEWER", v>>[1] = "REVIEWER" /\ <<"ADMIN", d>>[1] = "ADMIN"
  OBVIOUS
<1> QED BY ONLY <1>1, <1>2 DEF HasEntry

-----------------------------------------------------------------------------
(* Ways of writing the table                                               *)

\* A row is replaced.
LEMMA ChangeMoves ==
  ASSUME CatalogueInv, NEW c \in Codes, NEW n \in RevNo, NEW r, Change(c, n, r)
  PROVE  /\ OnlyMoves(c, n, r.status, Signed(r))
         /\ r.status = rev[c][n].status /\ Signed(r) = Signed(rev[c][n]) => NothingMoves
<1>1. \A d \in Codes, m \in RevNo :
        rev'[d][m] = IF d = c /\ m = n THEN r ELSE rev[d][m]
  BY DEF Change, CatalogueInv, SoundRevisions
<1> QED BY <1>1 DEF OnlyMoves, NothingMoves, LooksTheSame

\* The current flag is not seen.
LEMMA CurrentIsNotSeen ==
  ASSUME NEW r \in Revision, NEW b
  PROVE  [r EXCEPT !.current = b].status = r.status /\ Signed([r EXCEPT !.current = b]) = Signed(r)
BY DEF Signed, Revision

\* A revision is opened.
LEMMA OpenMoves ==
  ASSUME CatalogueInv, NEW c \in Codes, NEW k, NEW r, Open(c, k, r)
  PROVE  /\ k \in RevNo => OnlyMoves(c, k, r.status, Signed(r))
         /\ k \notin RevNo => NothingMoves
<1>1. ASSUME NEW d \in Codes, NEW m \in RevNo, d # c \/ m # k
      PROVE  LooksTheSame(d, m)
  <2>1. rev'[d][m] = rev[d][m] \/ rev'[d][m] = [rev[d][m] EXCEPT !.current = FALSE]
    BY <1>1 DEF Open, CatalogueInv, SoundRevisions
  <2>2. rev[d][m] \in Revision
    BY DEF CatalogueInv, SoundRevisions
  <2> QED BY <2>1, <2>2, CurrentIsNotSeen DEF LooksTheSame
<1>2. k \in RevNo => rev'[c][k] = r
  BY DEF Open, CatalogueInv, SoundRevisions
<1> QED BY <1>1, <1>2 DEF OnlyMoves, NothingMoves

-----------------------------------------------------------------------------
(* Operations                                                              *)

\* A step of the lifecycle, or none.
Implements == Abstract!Next \/ UNCHANGED <<StatusSeen, SignedSeen>>

\* The next revision of a code is opened, while none is under way.
LEMMA OpeningImplements ==
  ASSUME CatalogueInv, NEW actor \in Users, NEW c \in Codes, NEW k, NEW r, Open(c, k, r),
         r.status = "DRAFT", Signed(r) = {<<"AUTHOR", actor>>}, ~HasOpenRevision(c),
         k \in RevNo => \A n \in RevNo : rev[c][n].status # "NONE" <=> n < k
  PROVE  Implements
<1>1. CASE k \notin RevNo
  BY <1>1, OpenMoves, NothingIsSeen DEF Implements
<1>2. CASE k \in RevNo
  <2>1. Abstract!Moves(c, k, "DRAFT", {<<"AUTHOR", actor>>})
    BY <1>2, OpenMoves, MovesAreSeen
  <2>2. \A m \in RevNo : rev[c][m].status \notin Abstract!UnderWay
    BY DEF HasOpenRevision, OpenStates, Abstract!UnderWay
  <2>3. \A m \in RevNo : m >= k <=> rev[c][m].status = "NONE"
    BY <1>2 DEF RevNo
  <2>4. Abstract!Begin(c, k, actor)
    BY <1>2, <2>1, <2>2, <2>3 DEF Abstract!Begin
  <2> QED BY <1>2, <2>4 DEF Implements, Abstract!Next
<1> QED BY <1>1, <1>2

LEMMA NewDraftSigned ==
  ASSUME NEW actor \in Users, NEW platforms, NEW deprecation, NEW cr
  PROVE  /\ NewDraft(actor, platforms, deprecation, cr).status = "DRAFT"
         /\ Signed(NewDraft(actor, platforms, deprecation, cr)) = {<<"AUTHOR", actor>>}
<1> DEFINE r == NewDraft(actor, platforms, deprecation, cr)
<1>1. /\ r.status = "DRAFT" /\ r.author = actor
      /\ r.reviewer = Nobody /\ r.admin = Nobody /\ r.chief = Nobody
  BY DEF NewDraft, NoRevision
<1>2. actor # Nobody
  BY AccountsAssumption
<1> HIDE DEF r
<1>3. Signed(r) = {<<"AUTHOR", actor>>}
  BY <1>1, <1>2, SignedIsEntries, FewEntries
<1> QED BY <1>1, <1>3 DEF r

\* One revision changes, and looks the same.
LEMMA QuietChangeImplements ==
  ASSUME CatalogueInv, NEW c \in Codes, NEW n \in RevNo, NEW r, Change(c, n, r),
         r.status = rev[c][n].status, Signed(r) = Signed(rev[c][n])
  PROVE  Implements
BY ChangeMoves, NothingIsSeen DEF Implements

\* The fields a decision or a query asks for, but no signature.
LEMMA MinorFields ==
  ASSUME NEW r \in Revision, NEW x
  PROVE  /\ [r EXCEPT !.platforms = x].status = r.status
         /\ Signed([r EXCEPT !.platforms = x]) = Signed(r)
         /\ [r EXCEPT !.controls = x].status = r.status
         /\ Signed([r EXCEPT !.controls = x]) = Signed(r)
         /\ [r EXCEPT !.assigned = x].status = r.status
         /\ Signed([r EXCEPT !.assigned = x]) = Signed(r)
BY DEF Signed, Revision

LEMMA DraftingImplements ==
  ASSUME AllOrdered, NumberingInv, CatalogueInv, NEW actor \in Users, NEW c \in Codes,
         Drafting(actor, c)
  PROVE  Implements
<1>1. ASSUME NEW r, code[c].kind = "NONE", Open(c, 1, r), r.status = "DRAFT",
             Signed(r) = {<<"AUTHOR", actor>>}
      PROVE  Implements
  <2>1. \A n \in RevNo : rev[c][n].status = "NONE" /\ ~(n < 1)
    BY <1>1, BlankRows DEF RevNo
  <2>2. ~HasOpenRevision(c)
    BY <2>1 DEF HasOpenRevision, OpenStates
  <2> QED BY <1>1, <2>1, <2>2, OpeningImplements
<1>2. ASSUME NEW b \in Bands, NEW platforms \in BOOLEAN,
             NEW reserved \in NumbersOf(b) \union {NoNumber},
             CreateDraft(actor, c, b, reserved, platforms)
      PROVE  Implements
  BY <1>1, <1>2, NewDraftSigned DEF CreateDraft
<1>3. ASSUME NEW source \in Codes, CreatePlatformVariant(actor, source, c)
      PROVE  Implements
  <2>1. code[source].band \in Bands
    BY DEF CatalogueInv, Code
  <2> QED BY <1>2, <1>3, <2>1 DEF CreatePlatformVariant
<1>4. ASSUME NEW n \in RevNo, NEW r, IsNextRevision(c, n), ~HasOpenRevision(c),
             Open(c, n, r), r.status = "DRAFT", Signed(r) = {<<"AUTHOR", actor>>}
      PROVE  Implements
  <2>1. RevNo \subseteq Int /\ \A m \in RevNo : m > 1 => m - 1 \in RevNo
    BY CatalogueAssumption DEF RevNo
  <2>2. \A m \in RevNo : rev[c][m].status # "NONE" => m < n
    BY <1>4 DEF IsNextRevision, Exists
  <2>3. ASSUME NEW m \in RevNo, m < n PROVE rev[c][m].status # "NONE"
    <3>1. n > 1 /\ n - 1 \in RevNo /\ (m < n - 1 \/ m = n - 1)
      BY <2>1, <2>3 DEF RevNo
    <3>2. rev[c][n - 1].status # "NONE"
      BY <1>4, <3>1 DEF IsNextRevision, Exists
    <3> QED BY <3>1, <3>2 DEF AllOrdered, Ordered
  <2> QED BY <1>4, <2>2, <2>3, OpeningImplements
<1>5. ASSUME NEW n \in RevNo, NEW platforms \in BOOLEAN,
             CreateRevision(actor, c, n, platforms)
      PROVE  Implements
  BY <1>4, <1>5, NewDraftSigned DEF CreateRevision
<1>6. ASSUME NEW n \in RevNo, CreateDeprecationRequest(actor, c, n)
      PROVE  Implements
  BY <1>4, <1>6, NewDraftSigned DEF CreateDeprecationRequest
<1>7. ASSUME NEW k \in 0 .. SandboxLast, NEW platforms \in BOOLEAN,
             CreateSandbox(actor, c, k, platforms)
      PROVE  Implements
  BY <1>1, <1>7, NewDraftSigned DEF CreateSandbox
<1>8. ASSUME NEW n \in RevNo, NEW platforms \in BOOLEAN,
             UpdateDraft(actor, c, n, platforms) \/ SignDomain(actor, c, n)
      PROVE  Implements
  <2>1. rev[c][n] \in Revision
    BY DEF CatalogueInv, SoundRevisions
  <2>2. \/ Change(c, n, [rev[c][n] EXCEPT !.platforms = platforms])
        \/ Change(c, n, [rev[c][n] EXCEPT !.controls = actor])
    BY <1>8 DEF UpdateDraft, SignDomain
  <2> QED BY <2>1, <2>2, MinorFields, QuietChangeImplements
<1> QED BY <1>2, <1>3, <1>5, <1>6, <1>7, <1>8 DEF Drafting

-----------------------------------------------------------------------------
(* Review.  A revision that is under way carries no decision of a Chief    *)
(* Engineer, so that only the author and the sign-offs are in the way.     *)

LEMMA LifecycleSees ==
  ASSUME NEW c \in Codes, NEW n \in RevNo
  PROVE  StatusSeen[c][n] = rev[c][n].status /\ SignedSeen[c][n] = Signed(rev[c][n])
BY DEF StatusSeen, SignedSeen

\* What is left of the entries when one part is taken out is nobody who may not sign.
LEMMA MaySignBecause ==
  ASSUME NEW c \in Codes, NEW n \in RevNo, NEW u \in Users,
         rev[c][n].chief = Nobody, u # rev[c][n].author
  PROVE  /\ u # rev[c][n].admin => Abstract!MaySign(u, c, n, "REVIEWER")
         /\ u # rev[c][n].reviewer => Abstract!MaySign(u, c, n, "ADMIN")
         /\ u \notin {rev[c][n].reviewer, rev[c][n].admin} => Abstract!MaySign(u, c, n, "CHIEF")
BY AccountsAssumption DEF Abstract!MaySign, Abstract!Others, Signed

\* The sign-off of one part is recorded, and the other part may have signed before.
LEMMA ReviewerSignoffSeen ==
  ASSUME CatalogueInv, NEW c \in Codes, NEW n \in RevNo, NEW u \in Users, NEW x, Change(c, n, x),
         rev[c][n].status = "REVIEW", rev[c][n].chief = Nobody,
         u # rev[c][n].author, u # rev[c][n].admin,
         x.status = IF rev[c][n].admin = Nobody THEN "REVIEW" ELSE "PENDING_APPROVAL",
         x.author = rev[c][n].author, x.reviewer = u, x.admin = rev[c][n].admin, x.chief = Nobody
  PROVE  Implements
<1> DEFINE entries == SignedSeen[c][n]
           to == IF HasEntry(entries, "ADMIN") THEN "PENDING_APPROVAL" ELSE "REVIEW"
           by == WithEntry(entries, "REVIEWER", u)
<1>1. Abstract!MaySign(u, c, n, "REVIEWER") /\ u # Nobody
  BY MaySignBecause, AccountsAssumption
<1>2. /\ entries = Entries(rev[c][n].author, rev[c][n].reviewer, rev[c][n].admin, Nobody)
      /\ Signed(x) = Entries(rev[c][n].author, u, rev[c][n].admin, Nobody)
  BY LifecycleSees, SignedIsEntries
<1> HIDE DEF entries
<1>3. to = x.status /\ by = Signed(x)
  BY <1>1, <1>2, NewEntry, WhoSigned
<1> HIDE DEF to, by
<1>4. OnlyMoves(c, n, x.status, Signed(x))
  BY ChangeMoves
<1>5. Abstract!Moves(c, n, x.status, Signed(x))
  BY <1>4, MovesAreSeen
<1>6. Abstract!HasSigned(c, n, "ADMIN") <=> HasEntry(entries, "ADMIN")
  BY DEF Abstract!HasSigned, HasEntry, SignedSeen, entries
<1>7. Abstract!Others(c, n, "REVIEWER") \union {<<"REVIEWER", u>>} = by
  BY DEF Abstract!Others, WithEntry, SignedSeen, entries, by
<1>8. x.status = IF Abstract!HasSigned(c, n, "ADMIN") THEN "PENDING_APPROVAL" ELSE "REVIEW"
  BY <1>3, <1>6 DEF to
<1>9. Signed(x) = Abstract!Others(c, n, "REVIEWER") \union {<<"REVIEWER", u>>}
  BY <1>3, <1>7
<1>10. StatusSeen[c][n] = "REVIEW" /\ "ADMIN" \in {"REVIEWER", "ADMIN"} \ {"REVIEWER"}
  BY LifecycleSees
<1>11. Abstract!SignOff(c, n, "REVIEWER", u)
  BY <1>1, <1>5, <1>8, <1>9, <1>10, Zenon DEF Abstract!SignOff, Abstract!Moves, StatusSeen
<1> QED BY <1>11 DEF Implements, Abstract!Next

LEMMA AdminSignoffSeen ==
  ASSUME CatalogueInv, NEW c \in Codes, NEW n \in RevNo, NEW u \in Users, NEW x, Change(c, n, x),
         rev[c][n].status = "REVIEW", rev[c][n].chief = Nobody,
         u # rev[c][n].author, u # rev[c][n].reviewer,
         x.status = IF rev[c][n].reviewer = Nobody THEN "REVIEW" ELSE "PENDING_APPROVAL",
         x.author = rev[c][n].author, x.admin = u, x.reviewer = rev[c][n].reviewer, x.chief = Nobody
  PROVE  Implements
<1> DEFINE entries == SignedSeen[c][n]
           to == IF HasEntry(entries, "REVIEWER") THEN "PENDING_APPROVAL" ELSE "REVIEW"
           by == WithEntry(entries, "ADMIN", u)
<1>1. Abstract!MaySign(u, c, n, "ADMIN") /\ u # Nobody
  BY MaySignBecause, AccountsAssumption
<1>2. /\ entries = Entries(rev[c][n].author, rev[c][n].reviewer, rev[c][n].admin, Nobody)
      /\ Signed(x) = Entries(rev[c][n].author, rev[c][n].reviewer, u, Nobody)
  BY LifecycleSees, SignedIsEntries
<1> HIDE DEF entries
<1>3. to = x.status /\ by = Signed(x)
  BY <1>1, <1>2, NewEntry, WhoSigned
<1> HIDE DEF to, by
<1>4. OnlyMoves(c, n, x.status, Signed(x))
  BY ChangeMoves
<1>5. Abstract!Moves(c, n, x.status, Signed(x))
  BY <1>4, MovesAreSeen
<1>6. Abstract!HasSigned(c, n, "REVIEWER") <=> HasEntry(entries, "REVIEWER")
  BY DEF Abstract!HasSigned, HasEntry, SignedSeen, entries
<1>7. Abstract!Others(c, n, "ADMIN") \union {<<"ADMIN", u>>} = by
  BY DEF Abstract!Others, WithEntry, SignedSeen, entries, by
<1>8. x.status = IF Abstract!HasSigned(c, n, "REVIEWER") THEN "PENDING_APPROVAL" ELSE "REVIEW"
  BY <1>3, <1>6 DEF to
<1>9. Signed(x) = Abstract!Others(c, n, "ADMIN") \union {<<"ADMIN", u>>}
  BY <1>3, <1>7
<1>10. StatusSeen[c][n] = "REVIEW" /\ "REVIEWER" \in {"REVIEWER", "ADMIN"} \ {"ADMIN"}
  BY LifecycleSees
<1>11. Abstract!SignOff(c, n, "ADMIN", u)
  BY <1>1, <1>5, <1>8, <1>9, <1>10, Zenon DEF Abstract!SignOff, Abstract!Moves, StatusSeen
<1> QED BY <1>11 DEF Implements, Abstract!Next

LEMMA ApprovalSeen ==
  ASSUME CatalogueInv, NEW c \in Codes, NEW n \in RevNo, NEW u \in Users, NEW x, Change(c, n, x),
         rev[c][n].status = "PENDING_APPROVAL", rev[c][n].chief = Nobody,
         u \notin {rev[c][n].author, rev[c][n].reviewer, rev[c][n].admin},
         x.status \in {"APPROVED", "DEPRECATED"}, x.author = rev[c][n].author,
         x.reviewer = rev[c][n].reviewer, x.admin = rev[c][n].admin, x.chief = u
  PROVE  Implements
<1> DEFINE entries == SignedSeen[c][n]
           by == WithEntry(entries, "CHIEF", u)
<1>1. Abstract!MaySign(u, c, n, "CHIEF") /\ u # Nobody
  BY MaySignBecause, AccountsAssumption
<1>2. /\ entries = Entries(rev[c][n].author, rev[c][n].reviewer, rev[c][n].admin, Nobody)
      /\ Signed(x) = Entries(rev[c][n].author, rev[c][n].reviewer, rev[c][n].admin, u)
  BY LifecycleSees, SignedIsEntries
<1> HIDE DEF entries
<1>3. by = Signed(x)
  BY <1>1, <1>2, NewEntry
<1> HIDE DEF by
<1>4. OnlyMoves(c, n, x.status, Signed(x))
  BY ChangeMoves
<1>5. Abstract!Moves(c, n, x.status, Signed(x))
  BY <1>4, MovesAreSeen
<1>6. Signed(x) = Abstract!Others(c, n, "CHIEF") \union {<<"CHIEF", u>>}
  BY <1>3 DEF Abstract!Others, WithEntry, SignedSeen, entries, by
<1>7. StatusSeen[c][n] = "PENDING_APPROVAL"
  BY LifecycleSees
<1>8. Abstract!Approve(c, n, u)
  BY <1>1, <1>5, <1>6, <1>7, Zenon DEF Abstract!Approve, Abstract!Moves, StatusSeen
<1> QED BY <1>8 DEF Implements, Abstract!Next

\* A rejection leaves the author's entry.
LEMMA RejectionSeen ==
  ASSUME CatalogueInv, NEW c \in Codes, NEW n \in RevNo, NEW x, Change(c, n, x),
         rev[c][n].status \in {"REVIEW", "PENDING_APPROVAL"}, rev[c][n].chief = Nobody,
         x.status = "DRAFT", x.author = rev[c][n].author,
         x.reviewer = Nobody, x.admin = Nobody, x.chief = Nobody
  PROVE  Implements
<1> DEFINE entries == SignedSeen[c][n]
           by == AuthorOnly(entries)
<1>1. /\ entries = Entries(rev[c][n].author, rev[c][n].reviewer, rev[c][n].admin, Nobody)
      /\ Signed(x) = Entries(rev[c][n].author, Nobody, Nobody, Nobody)
  BY LifecycleSees, SignedIsEntries
<1> HIDE DEF entries
<1>2. by = Signed(x)
  BY <1>1, AuthorsEntry
<1> HIDE DEF by
<1>3. OnlyMoves(c, n, "DRAFT", Signed(x))
  BY ChangeMoves
<1>4. Abstract!Moves(c, n, "DRAFT", Signed(x))
  BY <1>3, MovesAreSeen
<1>5. Signed(x) = {e \in SignedSeen[c][n] : e[1] = "AUTHOR"}
  BY <1>2 DEF AuthorOnly, entries, by
<1>6. StatusSeen[c][n] \in {"REVIEW", "PENDING_APPROVAL"}
  BY LifecycleSees
<1>7. Abstract!Reject(c, n)
  BY <1>4, <1>5, <1>6, Zenon DEF Abstract!Reject, Abstract!Moves, StatusSeen, SignedSeen
<1> QED BY <1>7 DEF Implements, Abstract!Next


LEMMA ReviewingImplements ==
  ASSUME CatalogueInv, NEW actor \in Users, NEW c \in Codes, NEW n \in RevNo,
         Reviewing(actor, c, n)
  PROVE  Implements
<1> DEFINE r == rev[c][n]
<1>1. r \in Revision
  BY DEF CatalogueInv, SoundRevisions
<1>2. r.status \in OpenStates => r.chief = Nobody
  BY DEF CatalogueInv, SoundRevisions, Sound, Decided, OpenStates
<1> HIDE DEF r
\* A rejection, at any of the three points.
<1>3. ASSUME r.status \in {"REVIEW", "PENDING_APPROVAL"},
             Change(c, n, [WithoutSignoffs(r) EXCEPT !.status = "DRAFT"])
      PROVE  Implements
  <2>1. PICK x : x = [WithoutSignoffs(r) EXCEPT !.status = "DRAFT"]
    OBVIOUS
  <2>2. Change(c, n, x) /\ r.chief = Nobody
    BY <1>2, <1>3, <2>1 DEF OpenStates
  <2>3. /\ x.status = "DRAFT" /\ x.author = r.author
        /\ x.reviewer = Nobody /\ x.admin = Nobody /\ x.chief = r.chief
    BY <1>1, <2>1 DEF Revision, WithoutSignoffs
  <2> QED BY <1>3, <2>2, <2>3, RejectionSeen DEF r
<1>4. ASSUME NEW k \in AllNumbers \union 0 .. SandboxLast, NEW auto \in BOOLEAN,
             Submit(actor, c, n, k, auto)
      PROVE  Implements
  <2>1. PICK u : Change(c, n, [r EXCEPT !.status = "REVIEW", !.assigned = u])
    BY <1>4 DEF Submit, r
  <2>2. PICK x : x = [r EXCEPT !.status = "REVIEW", !.assigned = u]
    OBVIOUS
  <2>3. x.status = "REVIEW" /\ Signed(x) = Signed(r)
    BY <1>1, <2>2 DEF Revision, Signed
  <2>4. Change(c, n, x)
    BY <2>1, <2>2, Zenon
  <2>5. OnlyMoves(c, n, "REVIEW", Signed(x))
    BY <2>3, <2>4, ChangeMoves
  <2>6. Abstract!Moves(c, n, "REVIEW", Signed(x))
    BY <2>5, MovesAreSeen
  <2>7. StatusSeen[c][n] = "DRAFT" /\ SignedSeen[c][n] = Signed(x)
    BY <1>4, <2>3, LifecycleSees DEF Submit, r
  <2>8. Abstract!SubmitForReview(c, n)
    BY <2>6, <2>7, Zenon DEF Abstract!SubmitForReview, Abstract!Moves, StatusSeen, SignedSeen
  <2> QED BY <2>8 DEF Implements, Abstract!Next
<1>5. ASSUME NEW reviewer, AssignReviewer(actor, c, n, reviewer)
      PROVE  Implements
  <2>1. Change(c, n, [r EXCEPT !.assigned = reviewer])
    BY <1>5 DEF AssignReviewer, r
  <2> QED BY <1>1, <2>1, MinorFields, QuietChangeImplements DEF r
<1>6. ASSUME AutoAssignReviewer(actor, c, n)
      PROVE  Implements
  BY <1>5, <1>6 DEF AutoAssignReviewer
<1>7. ASSUME NEW decision \in Decisions, ReviewerSignoff(actor, c, n, decision)
      PROVE  Implements
  <2>1. r.status = "REVIEW" /\ actor # r.author /\ actor # r.admin /\ r.chief = Nobody
    BY <1>2, <1>7 DEF ReviewerSignoff, ReviewerMayDecide, OpenStates, r
  <2>2. CASE decision = "REJECT"
    BY <1>3, <1>7, <2>1, <2>2 DEF ReviewerSignoff, r
  <2>3. CASE decision # "REJECT"
    <3>1. PICK x : x = [r EXCEPT !.reviewer = actor,
            !.status = IF r.admin = Nobody THEN "REVIEW" ELSE "PENDING_APPROVAL"]
      OBVIOUS
    <3>2. Change(c, n, x)
      BY <1>7, <2>3, <3>1, Zenon DEF ReviewerSignoff, r
    <3>3. /\ x.status = IF r.admin = Nobody THEN "REVIEW" ELSE "PENDING_APPROVAL"
          /\ x.author = r.author
          /\ x.reviewer = actor /\ x.admin = r.admin /\ x.chief = Nobody
      BY <1>1, <2>1, <3>1 DEF Revision
    <3> QED BY <2>1, <3>2, <3>3, ReviewerSignoffSeen DEF r
  <2> QED BY <2>2, <2>3
<1>8. ASSUME NEW decision \in Decisions, AdminSignoff(actor, c, n, decision)
      PROVE  Implements
  <2>1. r.status = "REVIEW" /\ actor # r.author /\ actor # r.reviewer /\ r.chief = Nobody
    BY <1>2, <1>8 DEF AdminSignoff, AdminMayDecide, OpenStates, r
  <2>2. CASE decision = "REJECT"
    BY <1>3, <1>8, <2>1, <2>2 DEF AdminSignoff, r
  <2>3. CASE decision # "REJECT"
    <3>1. PICK x : x = [r EXCEPT !.admin = actor,
            !.status = IF r.reviewer = Nobody THEN "REVIEW" ELSE "PENDING_APPROVAL"]
      OBVIOUS
    <3>2. Change(c, n, x)
      BY <1>8, <2>3, <3>1, Zenon DEF AdminSignoff, r
    <3>3. /\ x.status = IF r.reviewer = Nobody THEN "REVIEW" ELSE "PENDING_APPROVAL"
          /\ x.author = r.author
          /\ x.reviewer = r.reviewer /\ x.admin = actor /\ x.chief = Nobody
      BY <1>1, <2>1, <3>1 DEF Revision
    <3> QED BY <2>1, <3>2, <3>3, AdminSignoffSeen DEF r
  <2> QED BY <2>2, <2>3
<1>9. ASSUME NEW decision \in Decisions, ChiefEngineerDecide(actor, c, n, decision)
      PROVE  Implements
  <2>1. /\ r.status = "PENDING_APPROVAL" /\ r.chief = Nobody
        /\ actor \notin {r.author, r.reviewer, r.admin}
    BY <1>2, <1>9 DEF ChiefEngineerDecide, ChiefMayDecide, OpenStates, r
  <2>2. CASE decision = "REJECT"
    BY <1>3, <1>9, <2>1, <2>2 DEF ChiefEngineerDecide, r
  <2>3. CASE decision # "REJECT"
    <3>1. PICK x : x = [r EXCEPT !.chief = actor,
            !.status = IF r.deprecation THEN "DEPRECATED" ELSE "APPROVED"]
      OBVIOUS
    <3>2. Change(c, n, x)
      BY <1>9, <2>3, <3>1, Zenon DEF ChiefEngineerDecide, r
    <3>3. /\ x.status \in {"APPROVED", "DEPRECATED"} /\ x.author = r.author
          /\ x.reviewer = r.reviewer /\ x.admin = r.admin /\ x.chief = actor
      BY <1>1, <3>1 DEF Revision
    <3> QED BY <2>1, <3>2, <3>3, ApprovalSeen DEF r
  <2> QED BY <2>2, <2>3
<1> QED BY <1>4, <1>5, <1>6, <1>7, <1>8, <1>9 DEF Reviewing

-----------------------------------------------------------------------------
(* Withdrawal, retirement and publication                                  *)

LEMMA BlankIsUnsigned ==
  /\ NoRevision.status = "NONE" /\ Signed(NoRevision) = {}
  /\ \A r : Sound(r) /\ r.status = "NONE" => Signed(r) = {}
<1>1. ASSUME NEW r, r.author = Nobody, r.reviewer = Nobody, r.admin = Nobody, r.chief = Nobody
      PROVE  Signed(r) = {}
  BY <1>1, SignedIsEntries, FewEntries
<1> QED BY <1>1 DEF NoRevision, Sound, Decided

\* A row is emptied, and nothing else moves.
LEMMA AbandonmentSeen ==
  ASSUME NEW c \in Codes, NEW n \in RevNo, rev[c][n].status \in OpenStates,
         OnlyMoves(c, n, "NONE", {})
  PROVE  Implements
<1>1. Abstract!Moves(c, n, "NONE", {})
  BY MovesAreSeen
<1>2. StatusSeen[c][n] \in Abstract!UnderWay
  BY LifecycleSees DEF Abstract!UnderWay, OpenStates
<1>3. Abstract!Abandon(c, n)
  BY <1>1, <1>2, Zenon DEF Abstract!Abandon, StatusSeen
<1> QED BY <1>3 DEF Implements, Abstract!Next

LEMMA RetiringImplements ==
  ASSUME AllOrdered, CatalogueInv, NEW actor \in Users, NEW c \in Codes, Retiring(actor, c)
  PROVE  Implements
<1>1. ASSUME NEW n \in RevNo, Withdraw(actor, c, n)
      PROVE  Implements
  <2>1. rev'[c][n] = NoRevision
    BY <1>1 DEF Withdraw, CatalogueInv, SoundRevisions
  <2>2. ASSUME NEW d \in Codes, NEW m \in RevNo, d # c \/ m # n
        PROVE  LooksTheSame(d, m)
    <3>1. rev'[d][m] = rev[d][m] \/ rev'[d][m] = [rev[d][m] EXCEPT !.current = TRUE]
      BY <1>1, <2>2 DEF Withdraw, CatalogueInv, SoundRevisions
    <3>2. rev[d][m] \in Revision
      BY DEF CatalogueInv, SoundRevisions
    <3> QED BY <3>1, <3>2, CurrentIsNotSeen DEF LooksTheSame
  <2>3. OnlyMoves(c, n, "NONE", {})
    BY <2>1, <2>2, BlankIsUnsigned DEF OnlyMoves
  <2>4. rev[c][n].status \in OpenStates
    BY <1>1 DEF Withdraw
  <2> QED BY <2>3, <2>4, AbandonmentSeen
<1>2. ASSUME NEW n \in RevNo, Archive(actor, c, n) \/ Reinstate(actor, c, n)
      PROVE  Implements
  <2>1. rev[c][n].status = "DEPRECATED" /\ rev[c][n] \in Revision
    BY <1>2 DEF Archive, Reinstate, CatalogueInv, SoundRevisions
  <2>2. PICK s \in {"ARCHIVED", "RELEASED"} : Change(c, n, [rev[c][n] EXCEPT !.status = s])
    BY <1>2 DEF Archive, Reinstate
  <2>3. PICK x : x = [rev[c][n] EXCEPT !.status = s]
    OBVIOUS
  <2>4. x.status = s /\ Signed(x) = Signed(rev[c][n])
    BY <2>1, <2>3 DEF Revision, Signed
  <2>5. Change(c, n, x)
    BY <2>2, <2>3, Zenon
  <2>6. OnlyMoves(c, n, s, Signed(x))
    BY <2>4, <2>5, ChangeMoves
  <2>7. Abstract!Moves(c, n, s, Signed(x))
    BY <2>6, MovesAreSeen
  <2>8. StatusSeen[c][n] = "DEPRECATED" /\ SignedSeen[c][n] = Signed(x)
    BY <2>1, <2>4, LifecycleSees
  <2>9. Abstract!Retire(c, n)
    BY <2>7, <2>8, Zenon DEF Abstract!Retire, Abstract!Moves, StatusSeen, SignedSeen
  <2> QED BY <2>9 DEF Implements, Abstract!Next
\* What has no change request is a draft, and there is at most one of these.
<1>3. ASSUME DeleteSandbox(actor, c)
      PROVE  Implements
  <2>1. \A d \in Codes, m \in RevNo : rev'[d][m] = IF d = c THEN NoRevision ELSE rev[d][m]
    BY <1>3 DEF DeleteSandbox, CatalogueInv, SoundRevisions
  <2>2. ASSUME NEW m \in RevNo PROVE Sound(rev[c][m]) /\ rev[c][m].status \in {"NONE", "DRAFT"}
    BY <1>3 DEF DeleteSandbox, IsRequest, Exists, CatalogueInv, SoundRevisions, Sound
  <2>3. \A m \in RevNo : rev[c][m].status = "NONE" => LooksTheSame(c, m)
    BY <2>1, <2>2, BlankIsUnsigned DEF LooksTheSame
  <2>4. \A d \in Codes, m \in RevNo : d # c => LooksTheSame(d, m)
    BY <2>1 DEF LooksTheSame
  <2>5. CASE \A m \in RevNo : rev[c][m].status = "NONE"
    BY <2>3, <2>4, <2>5, NothingIsSeen DEF NothingMoves, Implements
  <2>6. ASSUME NEW n \in RevNo, rev[c][n].status # "NONE"
        PROVE  Implements
    <3>1. rev[c][n].status \in OpenStates
      BY <2>2, <2>6 DEF OpenStates
    <3>2. ASSUME NEW m \in RevNo, m # n PROVE rev[c][m].status = "NONE"
      BY <2>2, <2>6, <3>2 DEF AllOrdered, Ordered, OpenStates, RevNo
    <3>3. OnlyMoves(c, n, "NONE", {})
      BY <2>1, <2>3, <2>4, <3>2, BlankIsUnsigned DEF OnlyMoves
    <3> QED BY <3>1, <3>3, AbandonmentSeen
  <2> QED BY <2>5, <2>6
<1> QED BY <1>1, <1>2, <1>3 DEF Retiring

\* What a release in the making holds is Approved, so that it is released as a
\* whole.
LEMMA ReleasesImplement ==
  ASSUME ReleasesAgree, ReleasesTypeOK, CatalogueInv, ReleasesNext
  PROVE  Implements
<1>1. ASSUME NEW actor \in Users, NEW i \in ReleaseIds, Publish(actor, i)
      PROVE  Implements
  <2>1. PICK S : S = release[i].items
    OBVIOUS
  <2>2. S \in SUBSET (Codes \X RevNo)
    BY <2>1 DEF ReleasesTypeOK, Release
  <2>3. \A p \in S : rev[p[1]][p[2]].status = "APPROVED" /\ p[1] \in Codes /\ p[2] \in RevNo
    BY <1>1, <2>1, <2>2 DEF ReleasesAgree, Status, Publish
  <2>4. ASSUME NEW c \in Codes, NEW n \in RevNo
        PROVE  /\ rev'[c][n].status = IF <<c, n>> \in S THEN "RELEASED" ELSE rev[c][n].status
               /\ Signed(rev'[c][n]) = Signed(rev[c][n])
    <3>1. rev'[c][n] = IF <<c, n>> \in S THEN [rev[c][n] EXCEPT !.status = "RELEASED"]
                       ELSE rev[c][n]
      BY <1>1, <2>1 DEF Publish
    <3>2. rev[c][n] \in Revision
      BY DEF CatalogueInv, SoundRevisions
    <3> QED BY <3>1, <3>2 DEF Revision, Signed
  <2>5. StatusSeen' = [c \in Codes |-> [n \in RevNo |->
                         IF <<c, n>> \in S THEN "RELEASED" ELSE StatusSeen[c][n]]]
    BY <2>4 DEF StatusSeen
  <2>6. SignedSeen' = SignedSeen
    BY <2>4 DEF SignedSeen
  <2>7. \A p \in S : StatusSeen[p[1]][p[2]] = "APPROVED"
    BY <2>3 DEF StatusSeen
  <2>8. Abstract!ReleaseTogether(S)
    BY <2>5, <2>6, <2>7, Zenon DEF Abstract!ReleaseTogether, StatusSeen, SignedSeen
  <2> QED BY <2>2, <2>8 DEF Implements, Abstract!Next
<1>2. UNCHANGED rev => Implements
  BY DEF Implements, StatusSeen, SignedSeen
<1> QED BY <1>1, <1>2 DEF ReleasesNext, CreateRelease, SetItems, DeleteRelease

-----------------------------------------------------------------------------

\* BR-003, BR-004, BR-005: for any number of people, codes, revisions and
\* releases, every run of the services is a run of the lifecycle the handbook
\* draws, however the operations interleave.
THEOREM ServicesImplementLifecycle == Spec => ImplementsLifecycle
<1>1. Init => Abstract!Init
  BY BlankIsUnsigned DEF Init, CatalogueInit, Abstract!Init
<1>2. AllOrdered /\ ReleasesAgree /\ NumberingInv /\ GovernanceInv /\ [Next]_vars
        => [Abstract!Next]_(Abstract!lifecycleVars)
  <2> SUFFICES ASSUME AllOrdered, ReleasesAgree, NumberingInv, GovernanceInv, [Next]_vars
               PROVE  Implements
    BY DEF Implements, Abstract!lifecycleVars, StatusSeen, SignedSeen
  <2>1. CatalogueInv /\ ReleasesTypeOK
    BY DEF GovernanceInv, CatalogueInv
  <2>2. UNCHANGED rev => Implements
    BY DEF Implements, StatusSeen, SignedSeen
  <2>3. ASSUME RequestsNext PROVE Implements
    BY <2>1, <2>2, <2>3, DraftingImplements, ReviewingImplements, RetiringImplements
    DEF RequestsNext, DeleteWithdrawn
  <2> QED BY <2>1, <2>2, <2>3, ReleasesImplement DEF Next, vars
<1> QED BY <1>1, <1>2, InvariantHolds, NumberingInvariantHolds, RevisionsAreOrdered,
           ReleasesAndRevisionsAgree, PTL
        DEF Spec, ImplementsLifecycle, Abstract!Spec
=============================================================================
