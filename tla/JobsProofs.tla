----------------------------- MODULE JobsProofs ------------------------------
(***************************************************************************)
(* What the run of Jobs checks on a small server holds for all programs,   *)
(* files, people, subgroups, languages, subscribers and feeds: the counts  *)
(* of an import are true, an import writes Drafts and nothing else, a      *)
(* sample sees every subgroup, a package is whole, a Release is told once  *)
(* and a reader of the feed misses nothing.                                *)
(*                                                                         *)
(* Each part has an inductive invariant of its own: it holds at the start, *)
(* each step of the part keeps it, and it says what the run looks for.     *)
(* The steps of the other parts do not touch its variables.                *)
(***************************************************************************)
EXTENDS Jobs, FiniteSetTheorems, SequenceTheorems, TLAPS

-----------------------------------------------------------------------------
(* A finite set as a sequence: each member once.                           *)

Lists(f, S) ==
  /\ f \in [1 .. Cardinality(S) -> S]
  /\ \A a, b \in 1 .. Cardinality(S) : f[a] = f[b] => a = b
  /\ \A x \in S : \E a \in 1 .. Cardinality(S) : f[a] = x

LEMMA SetsAreListed ==
  ASSUME NEW S, IsFiniteSet(S)
  PROVE  /\ \E f \in [1 .. Cardinality(S) -> S] :
              \A a, b \in DOMAIN f : f[a] = f[b] => a = b
         /\ \A f \in [1 .. Cardinality(S) -> S] :
              (\A a, b \in DOMAIN f : f[a] = f[b] => a = b) => Lists(f, S)
<1> DEFINE n == Cardinality(S)
<1>1. n \in Nat /\ ExistsBijection(1 .. n, S)
  BY FS_CardinalityType
<1>2. IsFiniteSet(1 .. n) /\ Cardinality(1 .. n) = n
  BY <1>1, FS_Interval
<1>3. PICK g \in Bijection(1 .. n, S) : TRUE
  BY <1>1 DEF ExistsBijection
<1>4. /\ g \in [1 .. n -> S]
      /\ \A a, b \in DOMAIN g : g[a] = g[b] => a = b
  BY <1>3 DEF Bijection, Injection, IsInjective
<1>5. ASSUME NEW f \in [1 .. n -> S], \A a, b \in DOMAIN f : f[a] = f[b] => a = b
      PROVE  Lists(f, S)
  <2>1. f \in Injection(1 .. n, S)
    BY <1>5 DEF Injection, IsInjective
  <2>2. f \in Surjection(1 .. n, S)
    BY <2>1, <1>2, FS_Injection
  <2>3. \A x \in S : \E a \in 1 .. n : f[a] = x
    BY <2>2 DEF Surjection
  <2> QED BY <1>5, <2>3 DEF Lists
<1> QED BY <1>4, <1>5

-----------------------------------------------------------------------------
(* Imports of programs.  The work a job has left, what it brought in and   *)
(* what it refused make up what was chosen, each number once; a code a job *)
(* brought in has no merely approved row once the job has recorded it.     *)

RowStates == {"NONE", "PROPOSED", "APPROVED", "ISSUED", "REJECTED"}

ImportRecord ==
  [status : {"NONE", "PENDING", "VALIDATING", "COMPLETE", "FAILED"}, alive : BOOLEAN,
   preview : Previews \union {NoJob}, named : BOOLEAN, work : Seq(Programs!Item),
   stage : Programs!Stages, gone : BOOLEAN, count : Nat, created : Nat]

StagedFits(s) ==
  /\ s = [user |-> s.user, program |-> s.program, old |-> s.old]
  /\ s.user \in Importers \union {Nobody}
  /\ DOMAIN s.program \subseteq ProgramNumbers
  /\ \A k \in DOMAIN s.program : s.program[k] \in ProgramTexts

\* The numbers that S has for a job.
NumbersOf(j, S) == {k \in ProgramNumbers : <<j, k>> \in S}

\* Each number is in the work once, and neither done nor refused already.
WorkIsFresh(w, j, done, failed) ==
  /\ \A a, b \in 1 .. Len(w) : w[a].number = w[b].number => a = b
  /\ \A a \in 1 .. Len(w) : <<j, w[a].number>> \notin done /\ <<j, w[a].number>> \notin failed

AllCounted(r, j, done, failed) ==
  /\ r.created = Cardinality(NumbersOf(j, done))
  /\ r.created + Cardinality(NumbersOf(j, failed)) + Len(r.work) = r.count
  /\ r.status = "COMPLETE" => r.work = <<>>

\* A code that the job brought in is the one in hand, or done with.
OwnsWhatItMade(r, j, codesNow, rowsNow) ==
  /\ \A a \in 1 .. Len(r.work) : codesNow[r.work[a].number].reserved = j =>
       a = 1 /\ r.stage \in {"JOIN", "RECORD"} /\ r.work[1].action = "create"
  /\ r.stage = "RECORD" /\ r.work # <<>> /\ codesNow[r.work[1].number].reserved = j =>
       rowsNow[r.work[1].number] # "APPROVED"

NothingDone(r, j, done, failed, codesNow) ==
  r.status = "NONE" =>
    /\ NumbersOf(j, done) = {} /\ NumbersOf(j, failed) = {}
    /\ \A k \in ProgramNumbers : codesNow[k].reserved # j

ImportFits(r, j, done, failed, codesNow, rowsNow) ==
  /\ WorkIsFresh(r.work, j, done, failed)
  /\ AllCounted(r, j, done, failed)
  /\ OwnsWhatItMade(r, j, codesNow, rowsNow)
  /\ NothingDone(r, j, done, failed, codesNow)

ProgramsTyped ==
  /\ code \in [ProgramNumbers -> Programs!Code]
  /\ row \in [ProgramNumbers -> RowStates]
  /\ staged = [p \in Previews |-> staged[p]] /\ \A p \in Previews : StagedFits(staged[p])
  /\ job \in [ImportJobs -> ImportRecord]
  /\ sources \subseteq ImportJobs \X ProgramNumbers
  /\ applied \subseteq ImportJobs \X ProgramNumbers
  /\ refused \subseteq ImportJobs \X ProgramNumbers
  /\ \A k \in ProgramNumbers : code[k].state = "NONE" => code[k].reserved = NoJob

ProgramsInv ==
  /\ ProgramsTyped
  /\ \A j \in ImportJobs : ImportFits(job[j], j, sources, refused, code, row)
  /\ Programs!ImportedRowsAreFrozen

LEMMA ProgramConstants ==
  /\ NoJob \notin ImportJobs /\ Nobody \notin Importers /\ "" \notin ProgramTexts
  /\ Rows0 \in [ProgramNumbers -> {"NONE", "PROPOSED", "APPROVED"}]
  /\ IsFiniteSet(ProgramNumbers)
BY ProgramsAssumption DEF Programs!ImportAssumption, Programs!IsFiniteSet, IsFiniteSet

LEMMA NoCodeIsACode ==
  /\ Programs!NoCode \in Programs!Code /\ Programs!NoCode.reserved = NoJob
  /\ Programs!NoCode.state = "NONE"
BY DEF Programs!NoCode, Programs!Code, Programs!States

\* A set of numbers that gains one, or stays.
LEMMA OneNumberMore ==
  ASSUME NEW j, NEW k \in ProgramNumbers, NEW S
  PROVE  /\ NumbersOf(j, S) \in SUBSET ProgramNumbers /\ IsFiniteSet(NumbersOf(j, S))
         /\ Cardinality(NumbersOf(j, S)) \in Nat
         /\ <<j, k>> \notin S =>
              Cardinality(NumbersOf(j, S \union {<<j, k>>})) = Cardinality(NumbersOf(j, S)) + 1
         /\ \A i : i # j => NumbersOf(i, S \union {<<j, k>>}) = NumbersOf(i, S)
<1>1. NumbersOf(j, S) \in SUBSET ProgramNumbers
  BY DEF NumbersOf
<1>2. IsFiniteSet(NumbersOf(j, S)) /\ Cardinality(NumbersOf(j, S)) \in Nat
  BY <1>1, ProgramConstants, FS_Subset, FS_CardinalityType
<1>3. ASSUME <<j, k>> \notin S
      PROVE  Cardinality(NumbersOf(j, S \union {<<j, k>>})) = Cardinality(NumbersOf(j, S)) + 1
  <2>1. NumbersOf(j, S \union {<<j, k>>}) = NumbersOf(j, S) \union {k} /\ k \notin NumbersOf(j, S)
    BY <1>3 DEF NumbersOf
  <2> QED BY <2>1, <1>2, FS_AddElement
<1>4. \A i : i # j => NumbersOf(i, S \union {<<j, k>>}) = NumbersOf(i, S)
  BY DEF NumbersOf
<1> QED BY <1>1, <1>2, <1>3, <1>4

\* What a job that has work left is about, and what is left after that.
LEMMA RestOfWork ==
  ASSUME NEW w \in Seq(Programs!Item), w # <<>>
  PROVE  /\ Head(w) = w[1] /\ w[1] \in Programs!Item /\ Tail(w) \in Seq(Programs!Item)
         /\ Len(w) \in Nat /\ Len(Tail(w)) = Len(w) - 1 /\ 1 \in 1 .. Len(w)
         /\ \A a \in 1 .. Len(Tail(w)) :
              a + 1 \in 1 .. Len(w) /\ a + 1 # 1 /\ Tail(w)[a] = w[a + 1]
OBVIOUS

LEMMA ProgramsBegin == Programs!Init => ProgramsInv
<1> SUFFICES ASSUME Programs!Init PROVE ProgramsInv
  OBVIOUS
<1>1. /\ code = [k \in ProgramNumbers |-> Programs!NoCode] /\ row = Rows0
      /\ staged = [p \in Previews |-> Programs!NoUpload]
      /\ job = [j \in ImportJobs |-> Programs!Unused]
      /\ sources = {} /\ applied = {} /\ refused = {}
  BY DEF Programs!Init
<1>2. /\ Programs!Unused \in ImportRecord /\ Programs!Unused.work = <<>>
      /\ Programs!Unused.created = 0 /\ Programs!Unused.count = 0
      /\ Programs!Unused.status = "NONE"
  BY DEF Programs!Unused, ImportRecord, Programs!Stages
<1>3. StagedFits(Programs!NoUpload)
  BY DEF Programs!NoUpload, StagedFits
<1>4. ProgramsTyped
  <2>1. code \in [ProgramNumbers -> Programs!Code] /\ \A k \in ProgramNumbers : code[k].reserved = NoJob
    BY <1>1, NoCodeIsACode
  <2>2. row \in [ProgramNumbers -> RowStates]
    BY <1>1, ProgramConstants DEF RowStates
  <2>3. staged = [p \in Previews |-> staged[p]] /\ \A p \in Previews : StagedFits(staged[p])
    BY <1>1, <1>3
  <2>4. job \in [ImportJobs -> ImportRecord]
    BY <1>1, <1>2
  <2> QED BY <1>1, <2>1, <2>2, <2>3, <2>4 DEF ProgramsTyped
<1>5. ASSUME NEW j \in ImportJobs
      PROVE  ImportFits(job[j], j, sources, refused, code, row)
  <2>1. NumbersOf(j, {}) = {} /\ Cardinality({}) = 0 /\ Len(<<>>) = 0
    BY FS_EmptySet DEF NumbersOf
  <2>2. job[j] = Programs!Unused
    BY <1>1
  <2>3. \A k \in ProgramNumbers : code[k].reserved # j
    BY <1>1, NoCodeIsACode, ProgramConstants
  <2>4. WorkIsFresh(job[j].work, j, sources, refused)
    BY <1>2, <2>1, <2>2 DEF WorkIsFresh
  <2>5. AllCounted(job[j], j, sources, refused)
    <3>1. /\ Cardinality(NumbersOf(j, sources)) = 0 /\ Cardinality(NumbersOf(j, refused)) = 0
          /\ Len(job[j].work) = 0 /\ job[j].created = 0 /\ job[j].count = 0
          /\ job[j].work = <<>>
      BY <1>1, <1>2, <2>1, <2>2
    <3> QED BY <3>1 DEF AllCounted
  <2>6. OwnsWhatItMade(job[j], j, code, row)
    BY <1>2, <2>1, <2>2 DEF OwnsWhatItMade
  <2>7. NothingDone(job[j], j, sources, refused, code)
    BY <1>1, <2>1, <2>3 DEF NothingDone
  <2> QED BY <2>4, <2>5, <2>6, <2>7 DEF ImportFits
<1>6. Programs!ImportedRowsAreFrozen
  BY <1>1 DEF Programs!ImportedRowsAreFrozen
<1> QED BY <1>4, <1>5, <1>6 DEF ProgramsInv

\* A job whose worker moves on without a program.
Moves(r, s) ==
  /\ s.work = r.work /\ s.created = r.created /\ s.count = r.count
  /\ \/ s.stage = r.stage
     \/ r.stage = "NAME" /\ s.stage = "APPLY"
  /\ s.status = "NONE" => r.status = "NONE"
  /\ s.status = "COMPLETE" => r.work = <<>>

\* A code that loses its job, and a row that is approved with no code for it, do not
\* matter to the jobs.
LEMMA OwnsStill ==
  ASSUME NEW r \in ImportRecord, NEW s \in ImportRecord, Moves(r, s), NEW j \in ImportJobs,
         OwnsWhatItMade(r, j, code, row),
         \A k \in ProgramNumbers : code'[k].reserved = j =>
           code[k].reserved = j /\ (row'[k] = "APPROVED" => row[k] = "APPROVED")
  PROVE  OwnsWhatItMade(s, j, code', row')
<1>1. j # NoJob /\ s.work = r.work /\ r.work \in Seq(Programs!Item)
  BY ProgramConstants DEF Moves, ImportRecord
<1> DEFINE w == r.work
<1>2. \A a \in 1 .. Len(w) : w[a].number \in ProgramNumbers
  <2>1. w \in Seq(Programs!Item)
    BY <1>1
  <2> HIDE DEF w
  <2>2. \A a \in 1 .. Len(w) : w[a] \in Programs!Item
    BY <2>1
  <2> QED BY <2>2 DEF Programs!Item
<1>3. w # <<>> => w[1].number \in ProgramNumbers
  <2>1. w # <<>> => w[1] \in Programs!Item
    BY <1>1, RestOfWork
  <2> QED BY <2>1 DEF Programs!Item
<1>4. ASSUME NEW a \in 1 .. Len(w), code'[w[a].number].reserved = j
      PROVE  a = 1 /\ s.stage \in {"JOIN", "RECORD"} /\ w[1].action = "create"
  <2>1. code[w[a].number].reserved = j
    BY <1>1, <1>2, <1>4
  <2> QED BY <2>1 DEF OwnsWhatItMade, Moves
<1>5. ASSUME s.stage = "RECORD", w # <<>>, code'[w[1].number].reserved = j
      PROVE  row'[w[1].number] # "APPROVED"
  <2>1. code[w[1].number].reserved = j /\ r.stage = "RECORD"
    BY <1>1, <1>3, <1>5 DEF Moves
  <2>2. row[w[1].number] # "APPROVED"
    BY <2>1, <1>5 DEF OwnsWhatItMade
  <2> QED BY <2>2, <1>1, <1>3, <1>5
<1> QED BY <1>1, <1>4, <1>5 DEF OwnsWhatItMade

LEMMA NoProgramIsDone ==
  ASSUME ProgramsInv, UNCHANGED <<sources, applied, refused>>,
         code' \in [ProgramNumbers -> Programs!Code],
         row' \in [ProgramNumbers -> RowStates],
         job' \in [ImportJobs -> ImportRecord],
         staged' = [p \in Previews |-> staged'[p]], \A p \in Previews : StagedFits(staged'[p]),
         \A j \in ImportJobs : Moves(job[j], job'[j]),
         \A k \in ProgramNumbers : /\ code'[k].reserved \in {code[k].reserved, NoJob}
                                   /\ code'[k].state = "NONE" => code'[k].reserved = NoJob
                                   /\ row'[k] = "APPROVED" => row[k] = "APPROVED" \/ code'[k].reserved = NoJob
  PROVE  ProgramsInv'
<1>1. ProgramsTyped'
  BY DEF ProgramsInv, ProgramsTyped
<1>2. ASSUME NEW j \in ImportJobs
      PROVE  ImportFits(job'[j], j, sources', refused', code', row')
  <2> DEFINE r == job[j]
             s == job'[j]
  <2>1. /\ r \in ImportRecord /\ s \in ImportRecord /\ Moves(r, s) /\ j # NoJob
        /\ ImportFits(r, j, sources, refused, code, row)
    BY ProgramConstants DEF ProgramsInv, ProgramsTyped
  <2> HIDE DEF r, s
  <2>2. WorkIsFresh(s.work, j, sources', refused')
    BY <2>1 DEF Moves, ImportFits
  <2>3. AllCounted(s, j, sources', refused')
    BY <2>1 DEF Moves, ImportFits, AllCounted
  <2>4. OwnsWhatItMade(s, j, code', row')
    BY <2>1, OwnsStill DEF ImportFits
  <2>5. NothingDone(s, j, sources', refused', code')
    BY <2>1 DEF Moves, ImportFits, NothingDone
  <2>6. ImportFits(s, j, sources', refused', code', row')
    BY <2>2, <2>3, <2>4, <2>5 DEF ImportFits
  <2> QED BY <2>6 DEF s
<1>3. Programs!ImportedRowsAreFrozen'
  <2> SUFFICES ASSUME NEW k \in ProgramNumbers, <<code'[k].reserved, k>> \in sources'
               PROVE  row'[k] # "APPROVED"
    BY DEF Programs!ImportedRowsAreFrozen
  <2>1. code'[k].reserved # NoJob
    <3>1. <<code'[k].reserved, k>> \in ImportJobs \X ProgramNumbers
      BY DEF ProgramsInv, ProgramsTyped
    <3> QED BY <3>1, ProgramConstants
  <2>2. code'[k].reserved = code[k].reserved
    BY <2>1
  <2>3. row[k] # "APPROVED"
    BY <2>2 DEF ProgramsInv, Programs!ImportedRowsAreFrozen
  <2> QED BY <2>1, <2>3
<1>4. (\A j \in ImportJobs : ImportFits(job[j], j, sources, refused, code, row))'
  BY <1>2
<1> QED BY <1>1, <1>3, <1>4 DEF ProgramsInv

-----------------------------------------------------------------------------
(* The preview, the change sets and what others do.                        *)

\* Steps that leave the codes, the rows and the jobs alone.
LEMMA PreviewsKeep ==
  ASSUME ProgramsInv,
         UNCHANGED <<code, row, job, sources, applied, refused>>,
         staged' = [p \in Previews |-> staged'[p]], \A p \in Previews : StagedFits(staged'[p])
  PROVE  ProgramsInv'
<1>1. \A j \in ImportJobs : Moves(job[j], job'[j])
  BY DEF ProgramsInv, ImportFits, AllCounted, Moves
<1>2. /\ code' \in [ProgramNumbers -> Programs!Code]
      /\ row' \in [ProgramNumbers -> RowStates]
      /\ job' \in [ImportJobs -> ImportRecord]
      /\ \A k \in ProgramNumbers : code[k].state = "NONE" => code[k].reserved = NoJob
  BY DEF ProgramsInv, ProgramsTyped
<1> QED BY <1>1, <1>2, NoProgramIsDone

LEMMA StagingKeeps ==
  ASSUME ProgramsInv
  PROVE  /\ \A user \in Importers, p \in Previews : \A S \in SUBSET ProgramNumbers :
              \A program \in [S -> ProgramTexts] : Programs!Preview(user, p, program) => ProgramsInv'
         /\ \A p \in Previews : Programs!UploadAges(p) \/ Programs!Discard(p) => ProgramsInv'
         /\ \A j \in ImportJobs : Programs!CloseSet(j) => ProgramsInv'
<1>1. /\ staged = [p \in Previews |-> staged[p]]
      /\ \A p \in Previews : StagedFits(staged[p])
      /\ StagedFits(Programs!NoUpload)
  BY DEF ProgramsInv, ProgramsTyped, Programs!NoUpload, StagedFits
<1>2. ASSUME NEW user \in Importers, NEW p \in Previews, NEW S \in SUBSET ProgramNumbers,
             NEW program \in [S -> ProgramTexts], Programs!Preview(user, p, program)
      PROVE  ProgramsInv'
  <2> DEFINE new == [user |-> user, program |-> program, old |-> FALSE]
  <2>1. StagedFits(new)
    BY DEF StagedFits
  <2>2. staged' = [q \in Previews |-> IF q = p THEN new
                                     ELSE IF staged[q].old THEN Programs!NoUpload ELSE staged[q]]
    BY <1>2 DEF Programs!Preview
  <2> HIDE DEF new
  <2>3. staged' = [q \in Previews |-> staged'[q]] /\ \A q \in Previews : StagedFits(staged'[q])
    BY <1>1, <2>1, <2>2
  <2> QED BY <1>2, <2>3, PreviewsKeep DEF Programs!Preview
<1>3. ASSUME NEW p \in Previews, Programs!UploadAges(p) \/ Programs!Discard(p)
      PROVE  ProgramsInv'
  <2> DEFINE aged == [staged[p] EXCEPT !.old = TRUE]
  <2>1. StagedFits(aged)
    <3> DEFINE s == staged[p]
               a == s.user
               b == s.program
    <3>1. /\ s = [user |-> a, program |-> b, old |-> s.old]
          /\ StagedFits(s)
      BY <1>1 DEF StagedFits
    <3>2. aged = [s EXCEPT !.old = TRUE] /\ s.user = a /\ s.program = b
      OBVIOUS
    <3> HIDE DEF s, a, b, aged
    <3>3. aged = [user |-> a, program |-> b, old |-> TRUE]
      BY <3>1, <3>2
    <3> QED BY <3>1, <3>2, <3>3 DEF StagedFits
  <2>2. staged' = [staged EXCEPT ![p] = aged] \/ staged' = [staged EXCEPT ![p] = Programs!NoUpload]
    BY <1>3 DEF Programs!UploadAges, Programs!Discard
  <2> HIDE DEF aged
  <2>3. \E new : StagedFits(new) /\ staged' = [staged EXCEPT ![p] = new]
    BY <1>1, <2>1, <2>2
  <2>4. staged' = [q \in Previews |-> staged'[q]] /\ \A q \in Previews : StagedFits(staged'[q])
    BY <1>1, <2>3
  <2> QED BY <1>3, <2>4, PreviewsKeep DEF Programs!UploadAges, Programs!Discard
<1>4. ASSUME NEW j \in ImportJobs, Programs!CloseSet(j)
      PROVE  ProgramsInv'
  BY <1>1, <1>4, PreviewsKeep DEF Programs!CloseSet
<1> QED BY <1>2, <1>3, <1>4

\* One code changes, and no job's work.
LEMMA OneCodeChanges ==
  ASSUME ProgramsInv, NEW k \in ProgramNumbers, NEW c \in Programs!Code,
         code' = [code EXCEPT ![k] = c], c.reserved \in {code[k].reserved, NoJob},
         c.state = "NONE" => c.reserved = NoJob,
         UNCHANGED <<row, staged, sources, applied, refused>>,
         job' \in [ImportJobs -> ImportRecord],
         \A j \in ImportJobs : Moves(job[j], job'[j])
  PROVE  ProgramsInv'
<1>1. /\ code \in [ProgramNumbers -> Programs!Code] /\ row \in [ProgramNumbers -> RowStates]
      /\ staged = [p \in Previews |-> staged[p]] /\ \A p \in Previews : StagedFits(staged[p])
      /\ \A i \in ProgramNumbers : code[i].state = "NONE" => code[i].reserved = NoJob
  BY DEF ProgramsInv, ProgramsTyped
<1>2. /\ code' \in [ProgramNumbers -> Programs!Code] /\ row' \in [ProgramNumbers -> RowStates]
      /\ staged' = [p \in Previews |-> staged'[p]] /\ \A p \in Previews : StagedFits(staged'[p])
  BY <1>1
<1>3. ASSUME NEW i \in ProgramNumbers
      PROVE  /\ code'[i].reserved \in {code[i].reserved, NoJob}
             /\ code'[i].state = "NONE" => code'[i].reserved = NoJob
             /\ row'[i] = "APPROVED" => row[i] = "APPROVED" \/ code'[i].reserved = NoJob
  BY <1>1
<1> QED BY <1>2, <1>3, NoProgramIsDone

LEMMA JobsStand ==
  ASSUME ProgramsInv, UNCHANGED job
  PROVE  job' \in [ImportJobs -> ImportRecord] /\ \A j \in ImportJobs : Moves(job[j], job'[j])
BY DEF ProgramsInv, ProgramsTyped, ImportFits, AllCounted, Moves

LEMMA OthersKeep ==
  ASSUME ProgramsInv, NEW k \in ProgramNumbers
  PROVE  /\ \A words \in ProgramTexts :
              Programs!EditDraft(k, words) \/ Programs!TakeNumber(k, words) => ProgramsInv'
         /\ Programs!Submit(k) \/ Programs!DeleteShell(k) => ProgramsInv'
         /\ \A state \in {"DRAFT", "DECIDED"} : Programs!Decide(k, state) => ProgramsInv'
<1>1. code[k] \in Programs!Code
  BY DEF ProgramsInv, ProgramsTyped
<1> DEFINE Fits(c) == /\ c \in Programs!Code /\ c.reserved \in {code[k].reserved, NoJob}
                      /\ c.state = "NONE" => c.reserved = NoJob
<1>2. ASSUME UNCHANGED <<row, staged, job, sources, applied, refused>>,
             \E c : Fits(c) /\ code' = [code EXCEPT ![k] = c]
      PROVE  ProgramsInv'
  BY <1>2, JobsStand, OneCodeChanges
<1>3. Fits(Programs!NoCode)
  BY NoCodeIsACode
<1>4. ASSUME NEW words \in ProgramTexts, Programs!EditDraft(k, words)
      PROVE  ProgramsInv'
  <2> DEFINE c == [code[k] EXCEPT !.text = words]
  <2>1. Fits(c)
    BY <1>1, <1>4 DEF Programs!Code, Programs!EditDraft
  <2>2. /\ UNCHANGED <<row, staged, job, sources, applied, refused>>
        /\ code' = [code EXCEPT ![k] = c]
    BY <1>4 DEF Programs!EditDraft, Programs!Becoming
  <2> HIDE DEF c, Fits
  <2> QED BY <2>1, <2>2, <1>2
<1>5. ASSUME NEW words \in ProgramTexts, Programs!TakeNumber(k, words)
      PROVE  ProgramsInv'
  <2> DEFINE c == [Programs!NoCode EXCEPT !.state = "REVIEW", !.issued = TRUE, !.text = words]
  <2>1. Fits(c)
    BY NoCodeIsACode DEF Programs!Code, Programs!States
  <2>2. /\ UNCHANGED <<row, staged, job, sources, applied, refused>>
        /\ code' = [code EXCEPT ![k] = c]
    BY <1>5 DEF Programs!TakeNumber, Programs!Becoming
  <2> HIDE DEF c, Fits
  <2> QED BY <2>1, <2>2, <1>2
<1>6. CASE Programs!Submit(k)
  <2> DEFINE c == [code[k] EXCEPT !.state = "REVIEW", !.issued = TRUE]
  <2>1. Fits(c)
    BY <1>1, <1>6 DEF Programs!Code, Programs!States, Programs!Submit
  <2>2. /\ UNCHANGED <<row, staged, job, sources, applied, refused>>
        /\ code' = [code EXCEPT ![k] = c]
    BY <1>6 DEF Programs!Submit, Programs!Becoming
  <2> HIDE DEF c, Fits
  <2> QED BY <2>1, <2>2, <1>2
<1>7. CASE Programs!DeleteShell(k)
  <2>1. /\ UNCHANGED <<row, staged, job, sources, applied, refused>>
        /\ code' = [code EXCEPT ![k] = Programs!NoCode]
    BY <1>7 DEF Programs!DeleteShell, Programs!Becoming
  <2> HIDE DEF Fits
  <2> QED BY <2>1, <1>2, <1>3
<1>8. ASSUME NEW state \in {"DRAFT", "DECIDED"}, Programs!Decide(k, state)
      PROVE  ProgramsInv'
  <2> DEFINE c == [code[k] EXCEPT !.state = state]
  <2>1. Fits(c)
    BY <1>1, <1>8 DEF Programs!Code, Programs!States, Programs!Decide
  <2>2. /\ UNCHANGED <<row, staged, job, sources, applied, refused>>
        /\ code' = [code EXCEPT ![k] = c]
    BY <1>8 DEF Programs!Decide, Programs!Becoming
  <2> HIDE DEF c, Fits
  <2> QED BY <2>1, <2>2, <1>2
<1> QED BY <1>4, <1>5, <1>6, <1>7, <1>8

LEMMA MappingMoves ==
  ASSUME ProgramsInv, NEW k \in ProgramNumbers, NEW reject \in BOOLEAN,
         Programs!ChangeMapping(k, reject)
  PROVE  ProgramsInv'
<1>1. /\ code \in [ProgramNumbers -> Programs!Code] /\ row \in [ProgramNumbers -> RowStates]
      /\ staged = [p \in Previews |-> staged[p]] /\ \A p \in Previews : StagedFits(staged[p])
      /\ \A i \in ProgramNumbers : code[i].state = "NONE" => code[i].reserved = NoJob
  BY DEF ProgramsInv, ProgramsTyped
<1>2. UNCHANGED <<code, staged, job, sources, applied, refused>>
  BY DEF Programs!ChangeMapping
<1>3. \E s \in RowStates : row' = [row EXCEPT ![k] = s] /\ (s = "APPROVED" => code[k].state = "NONE")
  <2> DEFINE s == IF reject THEN "REJECTED" ELSE IF code[k].state # "NONE" THEN "ISSUED" ELSE "APPROVED"
  <2>1. row' = [row EXCEPT ![k] = s]
    BY DEF Programs!ChangeMapping
  <2>2. s \in RowStates /\ (s = "APPROVED" => code[k].state = "NONE")
    BY DEF RowStates
  <2> HIDE DEF s
  <2> QED BY <2>1, <2>2
<1>4. row' \in [ProgramNumbers -> RowStates] /\ code' \in [ProgramNumbers -> Programs!Code]
  BY <1>1, <1>2, <1>3
<1>5. ASSUME NEW i \in ProgramNumbers
      PROVE  /\ code'[i].reserved \in {code[i].reserved, NoJob}
             /\ code'[i].state = "NONE" => code'[i].reserved = NoJob
             /\ row'[i] = "APPROVED" => row[i] = "APPROVED" \/ code'[i].reserved = NoJob
  BY <1>1, <1>2, <1>3
<1>6. staged' = [p \in Previews |-> staged'[p]] /\ \A p \in Previews : StagedFits(staged'[p])
  BY <1>1, <1>2
<1> QED BY <1>2, <1>4, <1>5, <1>6, JobsStand, NoProgramIsDone

LEMMA CodeIsWithdrawn ==
  ASSUME ProgramsInv, NEW k \in ProgramNumbers, Programs!Withdraw(k)
  PROVE  ProgramsInv'
<1>1. code[k] \in Programs!Code /\ job \in [ImportJobs -> ImportRecord]
  BY DEF ProgramsInv, ProgramsTyped
<1>2. \E c \in Programs!Code : /\ code' = [code EXCEPT ![k] = c]
                               /\ c.reserved \in {code[k].reserved, NoJob}
                               /\ c.state = "NONE" => c.reserved = NoJob
  <2> DEFINE fallen == [code[k] EXCEPT !.state = "DECIDED", !.text = code[k].decided,
                                       !.decided = "", !.inSet = NoJob]
             shell == [code[k] EXCEPT !.state = "WITHDRAWN", !.text = "", !.inSet = NoJob]
  <2>1. fallen \in Programs!Code /\ fallen.reserved = code[k].reserved /\ fallen.state # "NONE"
    BY <1>1 DEF Programs!Code, Programs!States
  <2>2. shell \in Programs!Code /\ shell.reserved = code[k].reserved /\ shell.state # "NONE"
    BY <1>1 DEF Programs!Code, Programs!States
  <2>3. \/ code' = [code EXCEPT ![k] = fallen]
        \/ code' = [code EXCEPT ![k] = shell]
        \/ code' = [code EXCEPT ![k] = Programs!NoCode]
    BY DEF Programs!Withdraw, Programs!Becoming
  <2> HIDE DEF fallen, shell
  <2> QED BY <2>1, <2>2, <2>3, NoCodeIsACode
<1>3. ASSUME NEW j \in ImportJobs
      PROVE  job'[j] \in ImportRecord /\ Moves(job[j], job'[j])
  <2> DEFINE new == [job[j] EXCEPT !.gone = TRUE]
  <2>1. job[j] \in ImportRecord /\ (job[j].status = "COMPLETE" => job[j].work = <<>>)
    BY <1>1 DEF ProgramsInv, ImportFits, AllCounted
  <2>2. new \in ImportRecord /\ Moves(job[j], new) /\ Moves(job[j], job[j])
    BY <2>1 DEF ImportRecord, Moves
  <2>3. job'[j] = new \/ job'[j] = job[j]
    BY DEF Programs!Withdraw
  <2> HIDE DEF new
  <2> QED BY <2>1, <2>2, <2>3
<1>4. job' \in [ImportJobs -> ImportRecord]
  <2>1. job' = [j \in ImportJobs |-> job'[j]]
    BY DEF Programs!Withdraw
  <2> QED BY <2>1, <1>3
<1> QED BY <1>2, <1>3, <1>4, OneCodeChanges DEF Programs!Withdraw

-----------------------------------------------------------------------------
(* The worker.                                                             *)

LEMMA JobsMoveOn ==
  ASSUME ProgramsInv
  PROVE  /\ Programs!Restart => ProgramsInv'
         /\ \A j \in ImportJobs :
              /\ Programs!OpenChangeSet(j) => ProgramsInv' /\ UNCHANGED code
              /\ Programs!Begin(j) \/ Programs!Fail(j) \/ Programs!Complete(j)
                   => ProgramsInv' /\ UNCHANGED code
<1>1. /\ code \in [ProgramNumbers -> Programs!Code] /\ row \in [ProgramNumbers -> RowStates]
      /\ staged = [p \in Previews |-> staged[p]] /\ \A p \in Previews : StagedFits(staged[p])
      /\ \A i \in ProgramNumbers : code[i].state = "NONE" => code[i].reserved = NoJob
      /\ job \in [ImportJobs -> ImportRecord]
      /\ \A j \in ImportJobs : job[j].status = "COMPLETE" => job[j].work = <<>>
      /\ StagedFits(Programs!NoUpload)
  BY DEF ProgramsInv, ProgramsTyped, ImportFits, AllCounted, Programs!NoUpload, StagedFits
<1>2. ASSUME UNCHANGED <<code, row, sources, applied, refused>>,
             staged' = [p \in Previews |-> staged'[p]], \A p \in Previews : StagedFits(staged'[p]),
             job' \in [ImportJobs -> ImportRecord], \A j \in ImportJobs : Moves(job[j], job'[j])
      PROVE  ProgramsInv'
  BY <1>1, <1>2, NoProgramIsDone
<1>3. CASE Programs!Restart
  <2>1. /\ UNCHANGED <<code, row, staged, sources, applied, refused>>
        /\ job' = [j \in ImportJobs |-> [job[j] EXCEPT !.alive = FALSE]]
    BY <1>3 DEF Programs!Restart
  <2>2. ASSUME NEW j \in ImportJobs
        PROVE  job'[j] \in ImportRecord /\ Moves(job[j], job'[j])
    <3> DEFINE new == [job[j] EXCEPT !.alive = FALSE]
    <3>1. job'[j] = new
      BY <2>1
    <3>2. new \in ImportRecord /\ Moves(job[j], new)
      BY <1>1 DEF ImportRecord, Moves
    <3> HIDE DEF new
    <3> QED BY <3>1, <3>2
  <2>3. job' \in [ImportJobs -> ImportRecord]
    <3>1. job' = [j \in ImportJobs |-> job'[j]]
      BY <2>1
    <3> QED BY <3>1, <2>2
  <2> QED BY <1>1, <1>2, <2>1, <2>2, <2>3
<1>4. ASSUME NEW j \in ImportJobs, NEW new \in ImportRecord, Moves(job[j], new),
             job' = [job EXCEPT ![j] = new]
      PROVE  job' \in [ImportJobs -> ImportRecord] /\ \A i \in ImportJobs : Moves(job[i], job'[i])
  <2>1. \A i \in ImportJobs : Moves(job[i], job[i])
    BY <1>1 DEF Moves
  <2> QED BY <2>1, <1>1, <1>4
<1>5. ASSUME NEW j \in ImportJobs, Programs!OpenChangeSet(j)
      PROVE  ProgramsInv' /\ UNCHANGED code
  <2> DEFINE dead == [job[j] EXCEPT !.alive = FALSE]
             open == [job[j] EXCEPT !.stage = "APPLY"]
  <2>1. /\ dead \in ImportRecord /\ Moves(job[j], dead)
        /\ open \in ImportRecord /\ Moves(job[j], open)
    BY <1>1, <1>5 DEF ImportRecord, Moves, Programs!Stages, Programs!OpenChangeSet
  <2>2. UNCHANGED <<code, row, sources, applied, refused>>
    BY <1>5 DEF Programs!OpenChangeSet
  <2>3. \/ job' = [job EXCEPT ![j] = dead] /\ staged' = staged
        \/ job' = [job EXCEPT ![j] = open]
           /\ staged' = [staged EXCEPT ![job[j].preview] = Programs!NoUpload]
    BY <1>5 DEF Programs!OpenChangeSet
  <2> HIDE DEF dead, open
  <2>4. staged' = [p \in Previews |-> staged'[p]] /\ \A p \in Previews : StagedFits(staged'[p])
    BY <1>1, <2>3
  <2> QED BY <1>2, <1>4, <2>1, <2>2, <2>3, <2>4
<1>6. ASSUME NEW j \in ImportJobs, Programs!Begin(j) \/ Programs!Fail(j) \/ Programs!Complete(j)
      PROVE  ProgramsInv' /\ UNCHANGED code
  <2> DEFINE begun == [job[j] EXCEPT !.status = "VALIDATING"]
             failed == [job[j] EXCEPT !.status = "FAILED", !.alive = FALSE]
             over == [job[j] EXCEPT !.status = "COMPLETE", !.alive = FALSE]
  <2>1. /\ begun \in ImportRecord /\ Moves(job[j], begun)
        /\ failed \in ImportRecord /\ Moves(job[j], failed)
        /\ over \in ImportRecord /\ (job[j].work = <<>> => Moves(job[j], over))
    BY <1>1 DEF ImportRecord, Moves
  <2>2. UNCHANGED <<code, row, staged, sources, applied, refused>>
    BY <1>6 DEF Programs!Begin, Programs!Fail, Programs!Complete
  <2>3. \/ job' = [job EXCEPT ![j] = begun]
        \/ job' = [job EXCEPT ![j] = failed]
        \/ job' = [job EXCEPT ![j] = over] /\ job[j].work = <<>>
    BY <1>6 DEF Programs!Begin, Programs!Fail, Programs!Complete
  <2> HIDE DEF begun, failed, over
  <2>4. staged' = [p \in Previews |-> staged'[p]] /\ \A p \in Previews : StagedFits(staged'[p])
    BY <1>1, <2>2
  <2> QED BY <1>2, <1>4, <2>1, <2>2, <2>3, <2>4
<1> QED BY <1>3, <1>5, <1>6

\* A step of one job: the others do not meet its numbers.
LEMMA OneJobWorks ==
  ASSUME ProgramsInv, NEW j \in ImportJobs, NEW k \in ProgramNumbers, NEW new \in ImportRecord,
         job' = [job EXCEPT ![j] = new], staged' = staged,
         code' \in [ProgramNumbers -> Programs!Code], row' \in [ProgramNumbers -> RowStates],
         sources' \in {sources, sources \union {<<j, k>>}},
         applied' \in {applied, applied \union {<<j, k>>}},
         refused' \in {refused, refused \union {<<j, k>>}},
         \A q \in ProgramNumbers : /\ code'[q].state = "NONE" => code'[q].reserved = NoJob
                                   /\ code'[q].reserved \in {code[q].reserved, NoJob, j}
                                   /\ row'[q] = "APPROVED" => row[q] = "APPROVED",
         ImportFits(new, j, sources', refused', code', row'),
         Programs!ImportedRowsAreFrozen'
  PROVE  ProgramsInv'
<1>1. ProgramsTyped'
  BY DEF ProgramsInv, ProgramsTyped
<1>2. ASSUME NEW i \in ImportJobs
      PROVE  ImportFits(job'[i], i, sources', refused', code', row')
  <2> DEFINE r == job[i]
  <2>1. CASE i = j
    BY <2>1 DEF ProgramsInv, ProgramsTyped
  <2>2. CASE i # j
    <3>1. /\ r \in ImportRecord /\ i # NoJob /\ job'[i] = r
          /\ ImportFits(r, i, sources, refused, code, row)
      BY <2>2, ProgramConstants DEF ProgramsInv, ProgramsTyped
    <3> HIDE DEF r
    <3>2. /\ \A q : <<i, q>> \in sources' <=> <<i, q>> \in sources
          /\ \A q : <<i, q>> \in refused' <=> <<i, q>> \in refused
      BY <2>2
    <3>3. NumbersOf(i, sources') = NumbersOf(i, sources) /\ NumbersOf(i, refused') = NumbersOf(i, refused)
      BY <3>2 DEF NumbersOf
    <3>4. WorkIsFresh(r.work, i, sources', refused')
      BY <3>1, <3>2 DEF ImportFits, WorkIsFresh
    <3>5. AllCounted(r, i, sources', refused') /\ Moves(r, r)
      BY <3>1, <3>3 DEF ImportFits, AllCounted, Moves
    <3>6. OwnsWhatItMade(r, i, code', row')
      BY <2>2, <3>1, <3>5, OwnsStill DEF ImportFits
    <3>7. NothingDone(r, i, sources', refused', code')
      BY <2>2, <3>1, <3>3 DEF ImportFits, NothingDone
    <3> QED BY <3>1, <3>4, <3>5, <3>6, <3>7 DEF ImportFits
  <2> QED BY <2>1, <2>2
<1>3. (\A i \in ImportJobs : ImportFits(job[i], i, sources, refused, code, row))'
  BY <1>2
<1> QED BY <1>1, <1>3 DEF ProgramsInv

\* What a job at work is like; w is what it has left, k the number in hand.
LEMMA ProgramInHand ==
  ASSUME ProgramsInv, NEW j \in ImportJobs, job[j].work # <<>>
  PROVE  LET w == job[j].work
             k == Programs!Current(j).number
         IN  /\ job[j] \in ImportRecord /\ w \in Seq(Programs!Item)
             /\ Programs!Current(j) = w[1] /\ w[1] \in Programs!Item
             /\ k \in ProgramNumbers /\ k = w[1].number /\ code[k] \in Programs!Code
             /\ <<j, k>> \notin sources /\ <<j, k>> \notin refused
             /\ ImportFits(job[j], j, sources, refused, code, row)
             /\ code[k].reserved = j => job[j].stage \in {"JOIN", "RECORD"} /\ w[1].action = "create"
             /\ code[k].reserved = j /\ job[j].stage = "RECORD" => row[k] # "APPROVED"
<1> DEFINE w == job[j].work
<1>1. /\ job[j] \in ImportRecord /\ w \in Seq(Programs!Item)
      /\ ImportFits(job[j], j, sources, refused, code, row)
  BY DEF ProgramsInv, ProgramsTyped, ImportRecord
<1>2. /\ Programs!Current(j) = w[1] /\ w[1] \in Programs!Item /\ 1 \in 1 .. Len(w)
  <2>1. Programs!Current(j) = Head(w)
    BY DEF Programs!Current
  <2> QED BY <1>1, <2>1, RestOfWork
<1>3. w[1].number \in ProgramNumbers /\ code[w[1].number] \in Programs!Code
  BY <1>2 DEF Programs!Item, ProgramsInv, ProgramsTyped
<1>4. <<j, w[1].number>> \notin sources /\ <<j, w[1].number>> \notin refused
  BY <1>1, <1>2 DEF ImportFits, WorkIsFresh
<1>5. /\ code[w[1].number].reserved = j =>
           job[j].stage \in {"JOIN", "RECORD"} /\ w[1].action = "create"
      /\ code[w[1].number].reserved = j /\ job[j].stage = "RECORD" => row[w[1].number] # "APPROVED"
  BY <1>1, <1>2 DEF ImportFits, OwnsWhatItMade
<1> QED BY <1>1, <1>2, <1>3, <1>4, <1>5

LEMMA AsDraftIsADraft ==
  ASSUME NEW j \in ImportJobs, NEW i \in Programs!Item, code[i.number] \in Programs!Code
  PROVE  /\ Programs!AsDraft(j, i) \in Programs!Code /\ Programs!AsDraft(j, i).state = "DRAFT"
         /\ i.action = "create" => Programs!AsDraft(j, i).reserved = j
         /\ i.action # "create" => Programs!AsDraft(j, i).reserved = code[i.number].reserved
<1> DEFINE c == code[i.number]
           made == [Programs!NoCode EXCEPT !.state = "DRAFT", !.reserved = j, !.text = i.text]
           changed_text == [c EXCEPT !.state = "DRAFT", !.text = i.text]
           before == IF c.state = "DECIDED" THEN c.text ELSE ""
           revised == [c EXCEPT !.state = "DRAFT", !.text = i.text, !.inSet = NoJob, !.decided = before]
<1>1. i.text \in ProgramTexts /\ c \in Programs!Code
  BY DEF Programs!Item
<1>2. before \in ProgramTexts \union {""}
  BY <1>1 DEF Programs!Code
<1>3. made \in Programs!Code /\ made.state = "DRAFT" /\ made.reserved = j
  BY <1>1, NoCodeIsACode DEF Programs!Code, Programs!States
<1>4. changed_text \in Programs!Code /\ changed_text.state = "DRAFT" /\ changed_text.reserved = c.reserved
  BY <1>1 DEF Programs!Code, Programs!States
<1>5. revised \in Programs!Code /\ revised.state = "DRAFT" /\ revised.reserved = c.reserved
  <2> HIDE DEF before, c
  <2> QED BY <1>1, <1>2 DEF Programs!Code, Programs!States
<1>6. /\ i.action = "create" => Programs!AsDraft(j, i) = made
      /\ i.action = "update" => Programs!AsDraft(j, i) = changed_text
      /\ i.action \notin {"create", "update"} => Programs!AsDraft(j, i) = revised
  BY DEF Programs!AsDraft
<1> HIDE DEF made, changed_text, revised, before
<1> QED BY <1>3, <1>4, <1>5, <1>6

LEMMA ProgramIsApplied ==
  ASSUME ProgramsInv, NEW j \in ImportJobs, Programs!ApplyItem(j)
  PROVE  /\ ProgramsInv'
         /\ \A q \in ProgramNumbers : code'[q] # code[q] =>
              code'[q].state = "DRAFT" /\ code[q].state \in {"NONE", "WITHDRAWN", "DRAFT", "DECIDED"}
<1> DEFINE w == job[j].work
           i == Programs!Current(j)
           k == i.number
           new == [job[j] EXCEPT !.stage = "JOIN"]
           drafted == Programs!AsDraft(j, i)
<1>1. /\ job[j].status = "VALIDATING" /\ job[j].stage = "APPLY" /\ w # <<>> /\ Programs!MayApply(i)
      /\ code' = [code EXCEPT ![k] = drafted] /\ job' = [job EXCEPT ![j] = new]
      /\ applied' = applied \union {<<j, k>>} /\ UNCHANGED <<row, staged, sources, refused>>
  BY DEF Programs!ApplyItem, Programs!Works
<1>2. /\ job[j] \in ImportRecord /\ w \in Seq(Programs!Item) /\ i = w[1] /\ i \in Programs!Item
      /\ k \in ProgramNumbers /\ code[k] \in Programs!Code /\ <<j, k>> \notin sources
      /\ ImportFits(job[j], j, sources, refused, code, row) /\ code[k].reserved # j
  BY <1>1, ProgramInHand
<1>3. /\ drafted \in Programs!Code /\ drafted.state = "DRAFT"
      /\ drafted.reserved \in {code[k].reserved, j}
      /\ drafted.reserved = j => i.action = "create"
  BY <1>2, AsDraftIsADraft
<1>4. /\ new \in ImportRecord /\ new.work = w /\ new.stage = "JOIN" /\ new.status = "VALIDATING"
      /\ new.created = job[j].created /\ new.count = job[j].count
  BY <1>1, <1>2 DEF ImportRecord, Programs!Stages
<1>5. /\ code \in [ProgramNumbers -> Programs!Code] /\ row \in [ProgramNumbers -> RowStates]
      /\ \A q \in ProgramNumbers : code[q].state = "NONE" => code[q].reserved = NoJob
  BY DEF ProgramsInv, ProgramsTyped
<1>6. code[k].state \in {"NONE", "WITHDRAWN", "DRAFT", "DECIDED"}
  BY <1>1 DEF Programs!MayApply
<1> HIDE DEF new, drafted, i, w
<1>7. /\ code' \in [ProgramNumbers -> Programs!Code] /\ row' \in [ProgramNumbers -> RowStates]
      /\ code'[k] = drafted /\ \A q \in ProgramNumbers : q # k => code'[q] = code[q]
  BY <1>1, <1>2, <1>3, <1>5
<1>8. ImportFits(new, j, sources', refused', code', row')
  <2>1. WorkIsFresh(new.work, j, sources', refused') /\ AllCounted(new, j, sources', refused')
    BY <1>1, <1>2, <1>4 DEF ImportFits, AllCounted, w
  <2>2. ASSUME NEW a \in 1 .. Len(w), code'[w[a].number].reserved = j
        PROVE  a = 1 /\ w[1].action = "create"
    <3>1. w[a].number \in ProgramNumbers
      <4>1. w[a] \in Programs!Item
        BY <1>2
      <4> QED BY <4>1 DEF Programs!Item
    <3>2. CASE w[a].number = k
      <4>1. 1 \in 1 .. Len(w) /\ w[1].number = k
        BY <1>2, <1>1, RestOfWork DEF w
      <4>2. a = 1
        BY <3>2, <4>1, <1>2 DEF ImportFits, WorkIsFresh, w
      <4> QED BY <4>2, <3>2, <2>2, <1>2, <1>3, <1>7
    <3>3. CASE w[a].number # k
      <4>1. code[w[a].number].reserved = j
        BY <3>1, <3>3, <2>2, <1>7
      <4> QED BY <4>1, <1>1, <1>2 DEF ImportFits, OwnsWhatItMade, w
    <3> QED BY <3>2, <3>3
  <2>3. OwnsWhatItMade(new, j, code', row')
    BY <2>2, <1>4 DEF OwnsWhatItMade
  <2>4. NothingDone(new, j, sources', refused', code')
    BY <1>4 DEF NothingDone
  <2> QED BY <2>1, <2>3, <2>4 DEF ImportFits
<1>9. Programs!ImportedRowsAreFrozen'
  <2> SUFFICES ASSUME NEW q \in ProgramNumbers, <<code'[q].reserved, q>> \in sources'
               PROVE  row'[q] # "APPROVED"
    BY DEF Programs!ImportedRowsAreFrozen
  <2>1. code'[q].reserved = code[q].reserved
    BY <1>1, <1>2, <1>3, <1>7
  <2> QED BY <2>1, <1>1 DEF ProgramsInv, Programs!ImportedRowsAreFrozen
<1>10. \A q \in ProgramNumbers : /\ code'[q].state = "NONE" => code'[q].reserved = NoJob
                                 /\ code'[q].reserved \in {code[q].reserved, NoJob, j}
                                 /\ row'[q] = "APPROVED" => row[q] = "APPROVED"
  BY <1>1, <1>3, <1>5, <1>7
<1>11. ProgramsInv'
  BY <1>1, <1>2, <1>4, <1>7, <1>8, <1>9, <1>10, OneJobWorks
<1> QED BY <1>11, <1>3, <1>6, <1>7

\* The program in hand is passed, done or refused.
LEMMA ProgramIsPassed ==
  ASSUME ProgramsInv, NEW j \in ImportJobs, job[j].work # <<>>, job[j].status = "VALIDATING",
         NEW k, k = Programs!Current(j).number, NEW new \in ImportRecord,
         new.work = Tail(job[j].work), new.stage = "APPLY", new.status = "VALIDATING",
         new.count = job[j].count,
         \/ /\ sources' = sources \union {<<j, k>>} /\ refused' = refused
            /\ new.created = job[j].created + 1
         \/ /\ refused' = refused \union {<<j, k>>} /\ sources' = sources
            /\ new.created = job[j].created,
         UNCHANGED <<code, staged, applied>>, row' \in [ProgramNumbers -> RowStates],
         \A q \in ProgramNumbers : row'[q] = "APPROVED" => row[q] = "APPROVED",
         sources' # sources /\ code[k].reserved = j => row'[k] # "APPROVED",
         job' = [job EXCEPT ![j] = new]
  PROVE  ProgramsInv'
<1> DEFINE w == job[j].work
<1>1. /\ job[j] \in ImportRecord /\ w \in Seq(Programs!Item)
      /\ k \in ProgramNumbers /\ k = w[1].number
      /\ <<j, k>> \notin sources /\ <<j, k>> \notin refused
      /\ ImportFits(job[j], j, sources, refused, code, row)
  BY ProgramInHand
<1>2. /\ Tail(w) \in Seq(Programs!Item) /\ Len(w) \in Nat /\ Len(Tail(w)) = Len(w) - 1
      /\ 1 \in 1 .. Len(w)
      /\ \A a \in 1 .. Len(Tail(w)) :
           a + 1 \in 1 .. Len(w) /\ a + 1 # 1 /\ Tail(w)[a] = w[a + 1] /\ a \in Nat
  BY <1>1, RestOfWork
<1>3. /\ code \in [ProgramNumbers -> Programs!Code]
      /\ \A q \in ProgramNumbers : code[q].state = "NONE" => code[q].reserved = NoJob
  BY DEF ProgramsInv, ProgramsTyped
<1> DEFINE rest == Tail(w)
<1>4. new.work = rest
  OBVIOUS
<1>5. WorkIsFresh(w, j, sources, refused)
  BY <1>1 DEF ImportFits
<1> HIDE DEF w, rest
<1>6. WorkIsFresh(rest, j, sources', refused')
  <2>1. ASSUME NEW a \in 1 .. Len(rest), NEW b \in 1 .. Len(rest), rest[a].number = rest[b].number
        PROVE  a = b
    <3>1. w[a + 1].number = w[b + 1].number /\ a + 1 \in 1 .. Len(w) /\ b + 1 \in 1 .. Len(w)
      BY <1>2, <2>1 DEF rest
    <3>2. a + 1 = b + 1
      BY <3>1, <1>5 DEF WorkIsFresh
    <3> QED BY <3>2, <1>2 DEF rest
  <2>2. ASSUME NEW a \in 1 .. Len(rest)
        PROVE  <<j, rest[a].number>> \notin sources' /\ <<j, rest[a].number>> \notin refused'
    <3>1. rest[a] = w[a + 1] /\ a + 1 \in 1 .. Len(w) /\ a + 1 # 1
      BY <1>2 DEF rest
    <3>2. <<j, w[a + 1].number>> \notin sources /\ <<j, w[a + 1].number>> \notin refused
      BY <3>1, <1>5 DEF WorkIsFresh
    <3>3. w[a + 1].number # k
      BY <3>1, <1>1, <1>2, <1>5 DEF WorkIsFresh
    <3> QED BY <3>1, <3>2, <3>3
  <2> QED BY <2>1, <2>2 DEF WorkIsFresh
<1>7. AllCounted(new, j, sources', refused')
  <2> DEFINE done == Cardinality(NumbersOf(j, sources))
             failed == Cardinality(NumbersOf(j, refused))
             doneNow == Cardinality(NumbersOf(j, sources'))
             failedNow == Cardinality(NumbersOf(j, refused'))
             n == Len(w)
             m == Len(rest)
             all == job[j].count
             made == job[j].created
  <2>1. made = done /\ made + failed + n = all
    BY <1>1 DEF ImportFits, AllCounted, w
  <2>2. done \in Nat /\ failed \in Nat /\ n \in Nat /\ m = n - 1
    BY <1>1, <1>2, OneNumberMore DEF rest
  <2>3. \/ doneNow = done + 1 /\ failedNow = failed /\ new.created = made + 1
        \/ doneNow = done /\ failedNow = failed + 1 /\ new.created = made
    <3>1. CASE /\ sources' = sources \union {<<j, k>>} /\ refused' = refused
               /\ new.created = made + 1
      <4>1. Cardinality(NumbersOf(j, sources \union {<<j, k>>})) = Cardinality(NumbersOf(j, sources)) + 1
        BY <1>1, OneNumberMore
      <4> QED BY <3>1, <4>1
    <3>2. CASE /\ refused' = refused \union {<<j, k>>} /\ sources' = sources
               /\ new.created = made
      <4>1. Cardinality(NumbersOf(j, refused \union {<<j, k>>})) = Cardinality(NumbersOf(j, refused)) + 1
        BY <1>1, OneNumberMore
      <4> QED BY <3>2, <4>1
    <3> QED BY <3>1, <3>2
  <2>4. new.count = all
    OBVIOUS
  <2> HIDE DEF done, failed, doneNow, failedNow, n, m, all, made
  <2>5. new.created = doneNow /\ new.created + failedNow + m = new.count
    BY <2>1, <2>2, <2>3, <2>4
  <2> QED BY <2>5, <1>4 DEF AllCounted, doneNow, failedNow, m
<1>8. OwnsWhatItMade(new, j, code', row')
  <2>1. ASSUME NEW a \in 1 .. Len(rest), code[rest[a].number].reserved = j
        PROVE  FALSE
    <3>1. rest[a] = w[a + 1] /\ a + 1 \in 1 .. Len(w) /\ a + 1 # 1
      BY <1>2 DEF rest
    <3> QED BY <3>1, <2>1, <1>1 DEF ImportFits, OwnsWhatItMade, w
  <2> QED BY <2>1, <1>4 DEF OwnsWhatItMade
<1>9. NothingDone(new, j, sources', refused', code')
  BY DEF NothingDone
<1>10. ImportFits(new, j, sources', refused', code', row')
  BY <1>4, <1>6, <1>7, <1>8, <1>9 DEF ImportFits
<1>11. Programs!ImportedRowsAreFrozen'
  <2> SUFFICES ASSUME NEW q \in ProgramNumbers, <<code'[q].reserved, q>> \in sources'
               PROVE  row'[q] # "APPROVED"
    BY DEF Programs!ImportedRowsAreFrozen
  <2>1. CASE <<code[q].reserved, q>> \in sources
    BY <2>1 DEF ProgramsInv, Programs!ImportedRowsAreFrozen
  <2>2. CASE <<code[q].reserved, q>> \notin sources
    <3>1. sources' # sources /\ code[q].reserved = j /\ q = k
      BY <2>2
    <3> QED BY <3>1
  <2> QED BY <2>1, <2>2
<1> QED BY <1>1, <1>3, <1>10, <1>11, OneJobWorks

LEMMA ProgramIsRefused ==
  ASSUME ProgramsInv, NEW j \in ImportJobs, Programs!RefuseItem(j)
  PROVE  ProgramsInv' /\ UNCHANGED code
<1> DEFINE k == Programs!Current(j).number
           rest == Tail(job[j].work)
           new == [job[j] EXCEPT !.work = rest, !.stage = "APPLY", !.gone = FALSE]
<1>1. /\ job[j].status = "VALIDATING" /\ job[j].work # <<>>
      /\ job' = [job EXCEPT ![j] = new] /\ refused' = refused \union {<<j, k>>}
      /\ UNCHANGED <<code, row, staged, sources, applied>>
  BY DEF Programs!RefuseItem, Programs!Works, Programs!Refused, Programs!Done
<1>2. job[j] \in ImportRecord /\ rest \in Seq(Programs!Item)
  BY <1>1, ProgramInHand, RestOfWork
<1>3. /\ new \in ImportRecord /\ new.work = rest /\ new.stage = "APPLY"
      /\ new.status = "VALIDATING" /\ new.count = job[j].count /\ new.created = job[j].created
  <2> HIDE DEF rest
  <2> QED BY <1>1, <1>2 DEF ImportRecord, Programs!Stages
<1>4. row' \in [ProgramNumbers -> RowStates]
  BY <1>1 DEF ProgramsInv, ProgramsTyped
<1> HIDE DEF new
<1> QED BY <1>1, <1>3, <1>4, ProgramIsPassed

LEMMA RowsAreMarked ==
  ASSUME ProgramsInv, NEW i \in Programs!Item, row' = Programs!Marked(i)
  PROVE  /\ row' \in [ProgramNumbers -> RowStates]
         /\ \A q \in ProgramNumbers : row'[q] = "APPROVED" => row[q] = "APPROVED"
         /\ i.action = "create" => row'[i.number] # "APPROVED"
<1>1. row \in [ProgramNumbers -> RowStates] /\ i.number \in ProgramNumbers
  BY DEF ProgramsInv, ProgramsTyped, Programs!Item
<1>2. \/ row' = [row EXCEPT ![i.number] = "ISSUED"]
      \/ row' = row /\ (i.action = "create" => row[i.number] # "APPROVED")
  BY DEF Programs!Marked
<1> QED BY <1>1, <1>2 DEF RowStates

LEMMA ProgramIsRecorded ==
  ASSUME ProgramsInv, NEW j \in ImportJobs, Programs!RecordSource(j)
  PROVE  ProgramsInv' /\ UNCHANGED code
<1> DEFINE i == Programs!Current(j)
           k == i.number
           rest == Tail(job[j].work)
           n == job[j].created + 1
           passed == [job[j] EXCEPT !.work = rest, !.stage = "APPLY", !.gone = FALSE]
           new == [passed EXCEPT !.created = n]
<1>1. /\ job[j].status = "VALIDATING" /\ job[j].work # <<>>
      /\ job' = [job EXCEPT ![j] = new] /\ sources' = sources \union {<<j, k>>}
      /\ UNCHANGED <<code, staged, applied, refused>>
  BY DEF Programs!RecordSource, Programs!Works, Programs!Counted, Programs!Done
<1>2. /\ job[j] \in ImportRecord /\ rest \in Seq(Programs!Item) /\ i \in Programs!Item
      /\ code[k].reserved = j => i.action = "create"
      /\ code[k].reserved = j /\ job[j].stage = "RECORD" => row[k] # "APPROVED"
  BY <1>1, ProgramInHand, RestOfWork
<1>3. /\ new \in ImportRecord /\ new.work = rest /\ new.stage = "APPLY"
      /\ new.status = "VALIDATING" /\ new.count = job[j].count /\ new.created = job[j].created + 1
  <2>1. n \in Nat
    BY <1>2 DEF ImportRecord
  <2>2. n = job[j].created + 1
    OBVIOUS
  <2> HIDE DEF rest, n
  <2> QED BY <1>1, <1>2, <2>1, <2>2 DEF ImportRecord, Programs!Stages
<1>4. /\ row' \in [ProgramNumbers -> RowStates]
      /\ \A q \in ProgramNumbers : row'[q] = "APPROVED" => row[q] = "APPROVED"
      /\ code[k].reserved = j => row'[k] # "APPROVED"
  <2>1. CASE row' = Programs!Marked(i)
    BY <2>1, <1>2, RowsAreMarked
  <2>2. CASE row' = row /\ job[j].stage = "RECORD"
    BY <2>2, <1>2 DEF ProgramsInv, ProgramsTyped
  <2> QED BY <2>1, <2>2 DEF Programs!RecordSource, Programs!Works
<1> HIDE DEF new
<1> QED BY <1>1, <1>3, <1>4, ProgramIsPassed

LEMMA ProgramJoinsItsSet ==
  ASSUME ProgramsInv, NEW j \in ImportJobs, Programs!JoinChangeSet(j)
  PROVE  /\ ProgramsInv'
         /\ \A q \in ProgramNumbers : code'[q].text = code[q].text
<1> DEFINE w == job[j].work
           i == Programs!Current(j)
           k == i.number
           new == [job[j] EXCEPT !.stage = "RECORD"]
           joined == [code[k] EXCEPT !.inSet = j]
<1>1. /\ job[j].status = "VALIDATING" /\ job[j].stage = "JOIN" /\ w # <<>>
      /\ row' = Programs!Marked(i)
      /\ code' = [code EXCEPT ![k] = joined] /\ job' = [job EXCEPT ![j] = new]
      /\ UNCHANGED <<staged, sources, applied, refused>>
  BY DEF Programs!JoinChangeSet, Programs!Works
<1>2. /\ job[j] \in ImportRecord /\ w \in Seq(Programs!Item) /\ i = w[1] /\ i \in Programs!Item
      /\ k \in ProgramNumbers /\ code[k] \in Programs!Code /\ <<j, k>> \notin sources
      /\ ImportFits(job[j], j, sources, refused, code, row)
      /\ code[k].reserved = j => i.action = "create"
  BY <1>1, ProgramInHand
<1>3. /\ joined \in Programs!Code /\ joined.reserved = code[k].reserved
      /\ joined.state = code[k].state /\ joined.text = code[k].text
  BY <1>2 DEF Programs!Code
<1>4. /\ new \in ImportRecord /\ new.work = w /\ new.stage = "RECORD" /\ new.status = "VALIDATING"
      /\ new.created = job[j].created /\ new.count = job[j].count
  BY <1>1, <1>2 DEF ImportRecord, Programs!Stages
<1>5. /\ code \in [ProgramNumbers -> Programs!Code]
      /\ \A q \in ProgramNumbers : code[q].state = "NONE" => code[q].reserved = NoJob
  BY DEF ProgramsInv, ProgramsTyped
<1>6. /\ row' \in [ProgramNumbers -> RowStates]
      /\ \A q \in ProgramNumbers : row'[q] = "APPROVED" => row[q] = "APPROVED"
      /\ i.action = "create" => row'[k] # "APPROVED"
  BY <1>1, <1>2, RowsAreMarked
<1> HIDE DEF new, joined, i, w
<1>7. /\ code' \in [ProgramNumbers -> Programs!Code]
      /\ \A q \in ProgramNumbers : /\ code'[q].reserved = code[q].reserved
                                    /\ code'[q].state = code[q].state
                                    /\ code'[q].text = code[q].text
  BY <1>1, <1>2, <1>3, <1>5
<1>8. ImportFits(new, j, sources', refused', code', row')
  <2>1. WorkIsFresh(new.work, j, sources', refused') /\ AllCounted(new, j, sources', refused')
    BY <1>1, <1>2, <1>4 DEF ImportFits, AllCounted, w
  <2>2. ASSUME NEW a \in 1 .. Len(w), code'[w[a].number].reserved = j
        PROVE  a = 1 /\ w[1].action = "create"
    <3>1. w[a].number \in ProgramNumbers
      <4>1. w[a] \in Programs!Item
        BY <1>2
      <4> QED BY <4>1 DEF Programs!Item
    <3>2. code[w[a].number].reserved = j
      BY <3>1, <2>2, <1>7
    <3> QED BY <3>2, <1>2 DEF ImportFits, OwnsWhatItMade, w
  <2>3. code'[w[1].number].reserved = j => row'[w[1].number] # "APPROVED"
    BY <1>2, <1>6, <1>7
  <2>4. OwnsWhatItMade(new, j, code', row')
    BY <2>2, <2>3, <1>4 DEF OwnsWhatItMade
  <2>5. NothingDone(new, j, sources', refused', code')
    BY <1>4 DEF NothingDone
  <2> QED BY <2>1, <2>4, <2>5 DEF ImportFits
<1>9. Programs!ImportedRowsAreFrozen'
  BY <1>1, <1>6, <1>7 DEF ProgramsInv, Programs!ImportedRowsAreFrozen
<1>10. \A q \in ProgramNumbers : /\ code'[q].state = "NONE" => code'[q].reserved = NoJob
                                 /\ code'[q].reserved \in {code[q].reserved, NoJob, j}
                                 /\ row'[q] = "APPROVED" => row[q] = "APPROVED"
  BY <1>5, <1>6, <1>7
<1>11. ProgramsInv'
  BY <1>1, <1>2, <1>4, <1>6, <1>7, <1>8, <1>9, <1>10, OneJobWorks
<1> QED BY <1>7, <1>11

-----------------------------------------------------------------------------
(* The confirmation: what was chosen becomes the work, each number once.   *)

LEMMA ChosenAreListed ==
  ASSUME NEW chosen \in SUBSET ProgramNumbers, NEW items \in [chosen -> Programs!Item],
         \A k \in chosen : items[k].number = k,
         NEW work, work = Programs!SetToSeq({items[k] : k \in chosen})
  PROVE  /\ work \in Seq(Programs!Item) /\ Len(work) = Cardinality(chosen)
         /\ \A a, b \in 1 .. Len(work) : work[a].number = work[b].number => a = b
<1> DEFINE S == {items[k] : k \in chosen}
           n == Cardinality(S)
<1>1. IsFiniteSet(chosen)
  BY ProgramConstants, FS_Subset
<1>2. items \in Bijection(chosen, S)
  BY DEF Bijection, Injection, Surjection, IsInjective
<1>3. IsFiniteSet(S) /\ Cardinality(S) = Cardinality(chosen)
  BY <1>1, <1>2, FS_Bijection DEF ExistsBijection
<1>4. n \in Nat
  BY <1>3, FS_CardinalityType
<1>5. Lists(work, S)
  <2>1. work = CHOOSE f \in [1 .. n -> S] : \A a, b \in DOMAIN f : f[a] = f[b] => a = b
    BY DEF Programs!SetToSeq, Programs!IsInjective, Programs!Cardinality, Cardinality
  <2> HIDE DEF S, n
  <2>2. /\ work \in [1 .. Cardinality(S) -> S]
        /\ \A a, b \in DOMAIN work : work[a] = work[b] => a = b
    <3>1. \E f \in [1 .. Cardinality(S) -> S] :
            \A a, b \in DOMAIN f : f[a] = f[b] => a = b
      BY <1>3, SetsAreListed
    <3> QED BY <2>1, <3>1 DEF n
  <2> QED BY <2>2, <1>3, SetsAreListed
<1>6. /\ S \subseteq Programs!Item
      /\ \A x, y \in S : x.number = y.number => x = y
  OBVIOUS
<1> HIDE DEF S, n
<1>7. work \in Seq(S) /\ Len(work) = n
  BY <1>4, <1>5 DEF Lists, n
<1>8. work \in Seq(Programs!Item)
  BY <1>6, <1>7
<1>9. ASSUME NEW a \in 1 .. Len(work), NEW b \in 1 .. Len(work), work[a].number = work[b].number
      PROVE  a = b
  <2>1. work[a] \in S /\ work[b] \in S
    BY <1>7
  <2>2. work[a] = work[b]
    BY <1>6, <1>9, <2>1
  <2> QED BY <2>2, <1>5, <1>7 DEF Lists, n
<1> QED BY <1>3, <1>7, <1>8, <1>9 DEF n

LEMMA ConfirmationKeeps ==
  ASSUME ProgramsInv, NEW user \in Importers, NEW p \in Previews,
         NEW chosen \in SUBSET ProgramNumbers, NEW named \in BOOLEAN, NEW j \in ImportJobs,
         Programs!Confirm(user, p, chosen, named, j)
  PROVE  ProgramsInv'
<1> DEFINE action(k) == CHOOSE a \in Programs!Becomes(k, Programs!DataOf(p, k)) : TRUE
           items == [k \in chosen |->
                       [number |-> k, action |-> action(k), text |-> Programs!DataOf(p, k)]]
           work == Programs!SetToSeq({items[k] : k \in chosen})
           n == Cardinality(chosen)
           new == [Programs!Unused EXCEPT !.status = "PENDING", !.alive = TRUE, !.preview = p,
                                          !.named = named, !.work = work, !.count = n]
<1>1. /\ job[j].status = "NONE" /\ chosen \subseteq DOMAIN staged[p].program
      /\ \A k \in chosen : Programs!Becomes(k, Programs!DataOf(p, k)) # {}
      /\ UNCHANGED <<code, row, staged, sources, applied, refused>>
  BY DEF Programs!Confirm
<1>2. job' = [job EXCEPT ![j] = new]
  <2>1. {items[k] : k \in chosen} =
          {[number |-> k, action |-> action(k), text |-> Programs!DataOf(p, k)] : k \in chosen}
    OBVIOUS
  <2> QED BY <2>1 DEF Programs!Confirm, Programs!Cardinality, Cardinality
<1>3. ASSUME NEW k \in chosen
      PROVE  items[k] \in Programs!Item /\ items[k].number = k
  <2>1. Programs!DataOf(p, k) \in ProgramTexts
    <3>1. StagedFits(staged[p])
      BY DEF ProgramsInv, ProgramsTyped
    <3> QED BY <3>1, <1>1 DEF StagedFits, Programs!DataOf
  <2>2. action(k) \in Programs!Actions
    <3>1. action(k) \in Programs!Becomes(k, Programs!DataOf(p, k))
      BY <1>1
    <3> HIDE DEF action
    <3> QED BY <3>1 DEF Programs!Becomes, Programs!Actions
  <2> HIDE DEF action
  <2> QED BY <2>1, <2>2 DEF Programs!Item
<1>4. items \in [chosen -> Programs!Item]
  <2>1. items = [k \in chosen |-> items[k]]
    OBVIOUS
  <2> HIDE DEF items
  <2> QED BY <1>3, <2>1
<1> HIDE DEF items
<1>5. /\ work \in Seq(Programs!Item) /\ Len(work) = n
      /\ \A a, b \in 1 .. Len(work) : work[a].number = work[b].number => a = b
  BY <1>3, <1>4, ChosenAreListed
<1>6. n \in Nat
  BY ProgramConstants, FS_Subset, FS_CardinalityType
<1> HIDE DEF work, n
<1>7. /\ Programs!Unused \in ImportRecord /\ Programs!Unused.stage = "NAME"
      /\ Programs!Unused.created = 0
  BY DEF Programs!Unused, ImportRecord, Programs!Stages
<1>8. /\ new \in ImportRecord /\ new.work = work /\ new.count = n /\ new.created = 0
      /\ new.stage = "NAME" /\ new.status = "PENDING"
  BY <1>5, <1>6, <1>7 DEF ImportRecord
<1> HIDE DEF new
<1>9. /\ code \in [ProgramNumbers -> Programs!Code] /\ row \in [ProgramNumbers -> RowStates]
      /\ \A q \in ProgramNumbers : code[q].state = "NONE" => code[q].reserved = NoJob
      /\ NumbersOf(j, sources) = {} /\ NumbersOf(j, refused) = {}
      /\ \A q \in ProgramNumbers : code[q].reserved # j
  BY <1>1 DEF ProgramsInv, ProgramsTyped, ImportFits, NothingDone
<1>10. \A a \in 1 .. Len(work) : work[a].number \in ProgramNumbers
  <2>1. \A a \in 1 .. Len(work) : work[a] \in Programs!Item
    BY <1>5
  <2> QED BY <2>1 DEF Programs!Item
<1>11. ImportFits(new, j, sources', refused', code', row')
  <2>1. WorkIsFresh(work, j, sources, refused)
    BY <1>5, <1>9, <1>10 DEF WorkIsFresh, NumbersOf
  <2>2. AllCounted(new, j, sources, refused)
    <3>1. Cardinality(NumbersOf(j, sources)) = 0 /\ Cardinality(NumbersOf(j, refused)) = 0
      BY <1>9, FS_EmptySet
    <3>2. Len(new.work) = n
      BY <1>5, <1>8
    <3> QED BY <3>1, <3>2, <1>6, <1>8 DEF AllCounted
  <2>3. OwnsWhatItMade(new, j, code, row)
    BY <1>8, <1>9, <1>10 DEF OwnsWhatItMade
  <2>4. NothingDone(new, j, sources, refused, code)
    BY <1>8 DEF NothingDone
  <2> QED BY <2>1, <2>2, <2>3, <2>4, <1>1, <1>8 DEF ImportFits
<1>12. Programs!ImportedRowsAreFrozen'
  BY <1>1 DEF ProgramsInv, Programs!ImportedRowsAreFrozen
<1>13. PICK k \in chosen : TRUE
  BY DEF Programs!Confirm
<1> QED BY <1>1, <1>2, <1>8, <1>9, <1>11, <1>12, <1>13, OneJobWorks

LEMMA ProgramWorkKeeps ==
  ASSUME ProgramsInv, NEW j \in ImportJobs, Programs!Work(j)
  PROVE  /\ ProgramsInv'
         /\ \A q \in ProgramNumbers : code'[q] # code[q] /\ code'[q].text # code[q].text =>
              code'[q].state = "DRAFT" /\ code[q].state \in {"NONE", "WITHDRAWN", "DRAFT", "DECIDED"}
BY JobsMoveOn, ProgramIsApplied, ProgramIsRefused, ProgramJoinsItsSet, ProgramIsRecorded
   DEF Programs!Work

LEMMA ProgramSteps ==
  ASSUME ProgramsInv, [Programs!Next]_programs
  PROVE  ProgramsInv'
<1>1. CASE UNCHANGED programs
  <2>1. UNCHANGED <<code, row, staged, job, sources, applied, refused>>
    BY <1>1 DEF programs
  <2> QED BY <2>1 DEF ProgramsInv, ProgramsTyped, Programs!ImportedRowsAreFrozen
<1>2. CASE Programs!Importing
  BY <1>2, StagingKeeps, ConfirmationKeeps DEF Programs!Importing
<1>3. CASE Programs!Others
  BY <1>3, StagingKeeps, OthersKeep, MappingMoves, CodeIsWithdrawn DEF Programs!Others
<1> QED BY <1>1, <1>2, <1>3, ProgramWorkKeeps, JobsMoveOn DEF Programs!Next

LEMMA ProgramsAreSound ==
  ASSUME ProgramsInv
  PROVE  Programs!ImportTypeOK /\ Programs!CountsAreTrue /\ Programs!ImportedRowsAreFrozen
<1>1. Programs!ImportTypeOK
  <2>1. /\ code \in [ProgramNumbers -> Programs!Code] /\ row \in [ProgramNumbers -> RowStates]
        /\ sources \subseteq ImportJobs \X ProgramNumbers
        /\ applied \subseteq ImportJobs \X ProgramNumbers
        /\ refused \subseteq ImportJobs \X ProgramNumbers
    BY DEF ProgramsInv, ProgramsTyped
  <2>2. \A p \in Previews : /\ staged[p].user \in Importers \union {Nobody}
                            /\ DOMAIN staged[p].program \subseteq ProgramNumbers
    BY DEF ProgramsInv, ProgramsTyped, StagedFits
  <2>3. ASSUME NEW j \in ImportJobs
        PROVE  /\ job[j].status \in {"NONE", "PENDING", "VALIDATING", "COMPLETE", "FAILED"}
               /\ \A i \in DOMAIN job[j].work : job[j].work[i] \in Programs!Item
               /\ job[j].stage \in Programs!Stages
               /\ job[j].created + Len(job[j].work) <= job[j].count
    <3> DEFINE w == job[j].work
               n == Len(w)
               made == job[j].created
               all == job[j].count
               failed == Cardinality(NumbersOf(j, refused))
    <3>1. /\ job[j].status \in {"NONE", "PENDING", "VALIDATING", "COMPLETE", "FAILED"}
          /\ job[j].stage \in Programs!Stages /\ w \in Seq(Programs!Item)
          /\ made \in Nat /\ all \in Nat
      BY DEF ProgramsInv, ProgramsTyped, ImportRecord
    <3>2. made + failed + n = all
      BY DEF ProgramsInv, ImportFits, AllCounted
    <3>3. failed \in Nat
      <4>1. NumbersOf(j, refused) \subseteq ProgramNumbers
        BY DEF NumbersOf
      <4> QED BY <4>1, ProgramConstants, FS_Subset, FS_CardinalityType
    <3> HIDE DEF w
    <3>4. n \in Nat /\ \A i \in DOMAIN w : w[i] \in Programs!Item
      BY <3>1
    <3> HIDE DEF n, made, all, failed
    <3>5. made + n <= all
      BY <3>1, <3>2, <3>3, <3>4
    <3> QED BY <3>1, <3>4, <3>5 DEF n, made, all, w
  <2> QED BY <2>1, <2>2, <2>3 DEF Programs!ImportTypeOK, RowStates
<1>2. ASSUME NEW j \in ImportJobs
      PROVE  /\ job[j].created = Cardinality(NumbersOf(j, sources))
             /\ job[j].status = "COMPLETE" =>
                  Cardinality(NumbersOf(j, sources)) + Cardinality(NumbersOf(j, refused)) = job[j].count
  <2> DEFINE done == Cardinality(NumbersOf(j, sources))
             failed == Cardinality(NumbersOf(j, refused))
             n == Len(job[j].work)
             all == job[j].count
  <2>1. job[j].created = done /\ done + failed + n = all /\ (job[j].status = "COMPLETE" => n = 0)
    BY DEF ProgramsInv, ImportFits, AllCounted
  <2>2. done \in Nat /\ failed \in Nat
    <3>1. NumbersOf(j, sources) \subseteq ProgramNumbers /\ NumbersOf(j, refused) \subseteq ProgramNumbers
      BY DEF NumbersOf
    <3> QED BY <3>1, ProgramConstants, FS_Subset, FS_CardinalityType
  <2> HIDE DEF done, failed, n, all
  <2>3. job[j].status = "COMPLETE" => done + failed = all
    BY <2>1, <2>2
  <2> QED BY <2>1, <2>3 DEF done, failed, all
<1>3. Programs!CountsAreTrue
  BY <1>2 DEF Programs!CountsAreTrue, NumbersOf, Programs!Cardinality, Cardinality
<1> QED BY <1>1, <1>3 DEF ProgramsInv

-----------------------------------------------------------------------------
(* Imports of a legacy library.  What a job has counted and what it has    *)
(* left make up its file, but for the row in hand; a row creates a code    *)
(* only if no code carries its legacy number.                              *)

LibraryCode ==
  [state : Library!States, legacy : Legacies \union {Nobody}, issued : BOOLEAN,
   owner : Library!Users \union {Nobody}, text : LibraryTexts \union {""},
   plan : Plans \union {""}, decided : LibraryTexts \union {""}]

UploadRecord ==
  [status : {"NONE", "PENDING", "VALIDATING", "COMPLETE", "FAILED"}, alive : BOOLEAN,
   user : Library!Users \union {Nobody}, mode : {"CREATE", "UPDATE"}, rows : Seq(Library!Row),
   seen : SUBSET Legacies, held : LibraryIds \union {"none"}, gone : BOOLEAN,
   applied : Nat, errors : Nat, unchanged : Nat, total : Nat,
   createdCount : Int, errorCount : Nat]

Adds(a, b, c, n, all) == a + b + c + n = all

Due(u) == IF u.held = "none" THEN u.total ELSE u.total + 1

UploadFits(u) ==
  /\ Adds(u.applied, u.errors, u.unchanged, Len(u.rows), Due(u))
  /\ u.held # "none" => u.rows # <<>>
  /\ u.status \in {"COMPLETE", "FAILED"} => ~u.alive
  /\ u.status = "COMPLETE" =>
       u.held = "none" /\ u.rows = <<>> /\ u.createdCount = u.applied /\ u.errorCount = u.errors
  /\ u.status = "FAILED" =>
       u.held # "none" /\ u.createdCount = u.applied - 1 /\ u.errorCount = u.errors

LibraryInv ==
  /\ codes \in [LibraryIds -> LibraryCode]
  /\ upload \in [UploadJobs -> UploadRecord]
  /\ \A j \in UploadJobs : UploadFits(upload[j])
  /\ Library!OneCodePerNumber

\* What counting one row does to the sum.
LEMMA NaturalNeighbours ==
  ASSUME NEW a \in Nat
  PROVE  a + 1 \in Nat /\ a - 1 \in Int /\ Adds(0, 0, 0, a, a)
BY DEF Adds

LEMMA RowCountedEarly ==
  ASSUME NEW a \in Nat, NEW b \in Nat, NEW c \in Nat, NEW n \in Nat, NEW all \in Nat,
         Adds(a, b, c, n, all)
  PROVE  Adds(a + 1, b, c, n, all + 1)
BY DEF Adds

LEMMA RowLeft ==
  ASSUME NEW a \in Nat, NEW b \in Nat, NEW c \in Nat, NEW n \in Nat, NEW all \in Nat,
         Adds(a, b, c, n, all + 1)
  PROVE  Adds(a, b, c, n - 1, all) /\ (a - 1) + c + b + n = all
BY DEF Adds

LEMMA RowCounted ==
  ASSUME NEW a \in Nat, NEW b \in Nat, NEW c \in Nat, NEW n \in Nat, NEW all \in Nat,
         Adds(a, b, c, n, all)
  PROVE  Adds(a, b, c + 1, n - 1, all) /\ Adds(a, b + 1, c, n - 1, all)
BY DEF Adds

LEMMA RowsCounted ==
  ASSUME NEW a \in Nat, NEW b \in Nat, NEW c \in Nat, NEW all \in Nat, Adds(a, b, c, 0, all)
  PROVE  a + c + b = all
BY DEF Adds

LEMMA UploadCounts ==
  ASSUME NEW u \in UploadRecord
  PROVE  /\ u.applied \in Nat /\ u.errors \in Nat /\ u.unchanged \in Nat /\ u.total \in Nat
         /\ u.rows \in Seq(Library!Row) /\ Len(u.rows) \in Nat
         /\ u.applied + 1 \in Nat /\ u.errors + 1 \in Nat /\ u.unchanged + 1 \in Nat
         /\ u.applied - 1 \in Int
<1>1. /\ u.applied \in Nat /\ u.errors \in Nat /\ u.unchanged \in Nat /\ u.total \in Nat
      /\ u.rows \in Seq(Library!Row)
  BY DEF UploadRecord
<1>2. Len(u.rows) \in Nat
  BY <1>1
<1> QED BY <1>1, <1>2, NaturalNeighbours

LEMMA LibraryConstants ==
  /\ Nobody \notin Legacies /\ "none" \notin LibraryIds /\ Nobody \notin Library!Users
  /\ \A file \in Files : file \in Seq(Library!Row) /\ file # <<>>
BY LibraryAssumption DEF Library!LibraryAssumption

LEMMA NoCodeFits == Library!NoCode \in LibraryCode /\ Library!NoCode.legacy = Nobody
BY DEF Library!NoCode, LibraryCode, Library!States

LEMMA LibraryBegins == Library!Init => LibraryInv
<1> SUFFICES ASSUME Library!Init PROVE LibraryInv
  OBVIOUS
<1>1. codes \in [LibraryIds -> LibraryCode] /\ \A i \in LibraryIds : codes[i].legacy = Nobody
  BY NoCodeFits DEF Library!Init
<1>2. Library!Unused \in UploadRecord /\ UploadFits(Library!Unused)
  <2>1. Library!Unused \in UploadRecord
    BY DEF Library!Unused, UploadRecord
  <2>2. Adds(0, 0, 0, 0, 0)
    BY DEF Adds
  <2>3. Len(<<>>) = 0
    OBVIOUS
  <2> QED BY <2>1, <2>2, <2>3 DEF Library!Unused, UploadFits, Due
<1>3. upload \in [UploadJobs -> UploadRecord] /\ \A j \in UploadJobs : UploadFits(upload[j])
  BY <1>2 DEF Library!Init
<1> QED BY <1>1, <1>3 DEF LibraryInv, Library!OneCodePerNumber

\* Codes that keep their legacy numbers, or give them back, keep them apart.
LEMMA NumbersStayApart ==
  ASSUME Library!OneCodePerNumber,
         \A i \in LibraryIds : codes'[i].legacy \in {codes[i].legacy, Nobody}
  PROVE  Library!OneCodePerNumber'
BY DEF Library!OneCodePerNumber

\* A step that changes one code at most, and not its number.
LEMMA OneCodeKeeps ==
  ASSUME LibraryInv, NEW i \in LibraryIds, NEW c \in LibraryCode,
         codes' = [codes EXCEPT ![i] = c], c.legacy \in {codes[i].legacy, Nobody}
  PROVE  codes' \in [LibraryIds -> LibraryCode] /\ Library!OneCodePerNumber'
<1>1. codes' \in [LibraryIds -> LibraryCode]
  BY DEF LibraryInv
<1>2. \A k \in LibraryIds : codes'[k].legacy \in {codes[k].legacy, Nobody}
  BY DEF LibraryInv
<1> QED BY <1>1, <1>2, NumbersStayApart DEF LibraryInv

\* A step of one job.
LEMMA OneUploadKeeps ==
  ASSUME LibraryInv, NEW j \in UploadJobs, NEW u \in UploadRecord, UploadFits(u),
         upload' = [upload EXCEPT ![j] = u],
         codes' \in [LibraryIds -> LibraryCode], Library!OneCodePerNumber'
  PROVE  LibraryInv'
BY DEF LibraryInv

LEMMA PersonsKeep ==
  ASSUME LibraryInv, NEW i \in LibraryIds, UNCHANGED upload,
         \/ \E words \in LibraryTexts, plan \in Plans : Library!EditDraft(i, words, plan)
         \/ Library!Submit(i) \/ Library!DeleteShell(i)
         \/ \E state \in {"DRAFT", "DECIDED", "RETIRED"} : Library!Decide(i, state)
  PROVE  LibraryInv'
<1>1. codes[i] \in LibraryCode
  BY DEF LibraryInv
<1>2. \E c \in LibraryCode : codes' = [codes EXCEPT ![i] = c] /\ c.legacy \in {codes[i].legacy, Nobody}
  <2>1. ASSUME NEW words \in LibraryTexts, NEW plan \in Plans, Library!EditDraft(i, words, plan)
        PROVE  \E c \in LibraryCode : codes' = [codes EXCEPT ![i] = c] /\ c.legacy \in {codes[i].legacy, Nobody}
    <3> DEFINE c == [codes[i] EXCEPT !.text = words, !.plan = plan]
    <3>1. c \in LibraryCode /\ c.legacy = codes[i].legacy
      BY <1>1 DEF LibraryCode
    <3> QED BY <2>1, <3>1 DEF Library!EditDraft, Library!Becoming
  <2>2. CASE Library!Submit(i)
    <3> DEFINE c == [codes[i] EXCEPT !.state = "REVIEW", !.issued = TRUE]
    <3>1. c \in LibraryCode /\ c.legacy = codes[i].legacy
      BY <1>1 DEF LibraryCode, Library!States
    <3> QED BY <2>2, <3>1 DEF Library!Submit, Library!Becoming
  <2>3. CASE Library!DeleteShell(i)
    BY <2>3, NoCodeFits DEF Library!DeleteShell, Library!Becoming
  <2>4. ASSUME NEW state \in {"DRAFT", "DECIDED", "RETIRED"}, Library!Decide(i, state)
        PROVE  \E c \in LibraryCode : codes' = [codes EXCEPT ![i] = c] /\ c.legacy \in {codes[i].legacy, Nobody}
    <3> DEFINE c == [codes[i] EXCEPT !.state = state]
    <3>1. c \in LibraryCode /\ c.legacy = codes[i].legacy
      BY <1>1 DEF LibraryCode, Library!States
    <3> QED BY <2>4, <3>1 DEF Library!Decide, Library!Becoming
  <2> QED BY <2>1, <2>2, <2>3, <2>4
<1>3. codes' \in [LibraryIds -> LibraryCode] /\ Library!OneCodePerNumber'
  BY <1>2, OneCodeKeeps
<1> QED BY <1>3 DEF LibraryInv

LEMMA WithdrawalKeeps ==
  ASSUME LibraryInv, NEW i \in LibraryIds, Library!Withdraw(i)
  PROVE  LibraryInv'
<1>1. codes[i] \in LibraryCode
  BY DEF LibraryInv
<1>2. \E c \in LibraryCode : codes' = [codes EXCEPT ![i] = c] /\ c.legacy \in {codes[i].legacy, Nobody}
  <2> DEFINE fallen == [codes[i] EXCEPT !.state = "DECIDED", !.text = codes[i].decided, !.decided = ""]
             shell == [codes[i] EXCEPT !.state = "WITHDRAWN", !.text = "", !.plan = ""]
  <2>1. fallen \in LibraryCode /\ fallen.legacy = codes[i].legacy
    BY <1>1 DEF LibraryCode, Library!States
  <2>2. shell \in LibraryCode /\ shell.legacy = codes[i].legacy
    BY <1>1 DEF LibraryCode, Library!States
  <2>3. \/ codes' = [codes EXCEPT ![i] = fallen]
        \/ codes' = [codes EXCEPT ![i] = shell]
        \/ codes' = [codes EXCEPT ![i] = Library!NoCode]
    BY DEF Library!Withdraw, Library!Becoming
  <2> HIDE DEF fallen, shell
  <2> QED BY <2>1, <2>2, <2>3, NoCodeFits
<1>3. codes' \in [LibraryIds -> LibraryCode] /\ Library!OneCodePerNumber'
  BY <1>2, OneCodeKeeps
<1>4. upload' = [j \in UploadJobs |-> IF upload[j].held = i /\ Library!Works(j)
                                      THEN [upload[j] EXCEPT !.gone = TRUE] ELSE upload[j]]
  BY DEF Library!Withdraw
<1>5. ASSUME NEW j \in UploadJobs
      PROVE  upload'[j] \in UploadRecord /\ UploadFits(upload'[j])
  <2>1. upload[j] \in UploadRecord /\ UploadFits(upload[j])
    BY DEF LibraryInv
  <2> DEFINE new == [upload[j] EXCEPT !.gone = TRUE]
  <2>2. new \in UploadRecord
    BY <2>1 DEF UploadRecord
  <2>3. UploadFits(new)
    BY <2>1 DEF UploadFits, UploadRecord, Due
  <2>4. upload'[j] = new \/ upload'[j] = upload[j]
    BY <1>4
  <2> HIDE DEF new
  <2> QED BY <2>1, <2>2, <2>3, <2>4
<1>6. upload' \in [UploadJobs -> UploadRecord]
  <2>1. upload' = [j \in UploadJobs |-> upload'[j]]
    BY <1>4
  <2> QED BY <2>1, <1>5
<1> QED BY <1>3, <1>5, <1>6 DEF LibraryInv

LEMMA LibraryRestartKeeps ==
  ASSUME LibraryInv, Library!Restart
  PROVE  LibraryInv'
<1>1. codes' = codes /\ upload' = [j \in UploadJobs |-> [upload[j] EXCEPT !.alive = FALSE]]
  BY DEF Library!Restart
<1>2. ASSUME NEW j \in UploadJobs
      PROVE  upload'[j] \in UploadRecord /\ UploadFits(upload'[j])
  <2>1. upload[j] \in UploadRecord /\ UploadFits(upload[j])
    BY DEF LibraryInv
  <2> DEFINE new == [upload[j] EXCEPT !.alive = FALSE]
  <2>2. new \in UploadRecord
    BY <2>1 DEF UploadRecord
  <2>3. UploadFits(new)
    BY <2>1 DEF UploadFits, UploadRecord, Due
  <2>4. upload'[j] = new
    BY <1>1
  <2> HIDE DEF new
  <2> QED BY <2>2, <2>3, <2>4
<1>3. upload' \in [UploadJobs -> UploadRecord]
  <2>1. upload' = [j \in UploadJobs |-> upload'[j]]
    BY <1>1
  <2> QED BY <2>1, <1>2
<1>4. Library!OneCodePerNumber'
  BY <1>1 DEF LibraryInv, Library!OneCodePerNumber
<1> QED BY <1>1, <1>2, <1>3, <1>4 DEF LibraryInv

LEMMA UploadKeeps ==
  ASSUME LibraryInv, NEW user \in Library!Users, NEW mode \in {"CREATE", "UPDATE"},
         NEW file \in Files, NEW j \in UploadJobs, Library!Upload(user, mode, file, j)
  PROVE  LibraryInv'
<1> DEFINE new == [Library!Unused EXCEPT !.status = "PENDING", !.alive = TRUE, !.user = user,
                                         !.mode = mode, !.rows = file, !.total = Len(file)]
<1>1. upload' = [upload EXCEPT ![j] = new] /\ codes' = codes
  BY DEF Library!Upload
<1>2. file \in Seq(Library!Row) /\ Len(file) \in Nat
  BY LibraryConstants
<1>3. /\ new \in UploadRecord /\ new.rows = file /\ new.total = Len(file) /\ new.held = "none"
      /\ new.applied = 0 /\ new.errors = 0 /\ new.unchanged = 0 /\ new.status = "PENDING"
  <2>1. Library!Unused \in UploadRecord
    BY DEF Library!Unused, UploadRecord
  <2>2. /\ Library!Unused.held = "none" /\ Library!Unused.applied = 0
        /\ Library!Unused.errors = 0 /\ Library!Unused.unchanged = 0
    BY DEF Library!Unused
  <2> DEFINE n == Len(file)
  <2>3. n \in Nat
    BY <1>2
  <2> HIDE DEF n
  <2> QED BY <2>1, <2>2, <2>3, <1>2 DEF UploadRecord
<1> HIDE DEF new
<1>4. UploadFits(new)
  <2> DEFINE n == Len(file)
  <2>1. Len(new.rows) = n /\ new.total = n /\ n \in Nat
    BY <1>2, <1>3
  <2> HIDE DEF n
  <2>2. Adds(0, 0, 0, n, n)
    BY <2>1, NaturalNeighbours
  <2> QED BY <2>1, <2>2, <1>3 DEF UploadFits, Due
<1>5. codes' \in [LibraryIds -> LibraryCode] /\ Library!OneCodePerNumber'
  BY <1>1 DEF LibraryInv, Library!OneCodePerNumber
<1> QED BY <1>1, <1>3, <1>4, <1>5, OneUploadKeeps

\* A job that has passed a row, and one that is over.
LEMMA CountedRecords ==
  ASSUME NEW u \in UploadRecord
  PROVE  /\ LET new == [u EXCEPT !.unchanged = @ + 1] IN
            /\ new \in UploadRecord /\ new.held = u.held /\ new.status = u.status
            /\ new.rows = u.rows /\ new.applied = u.applied /\ new.errors = u.errors
            /\ new.unchanged = u.unchanged + 1 /\ new.total = u.total
         /\ LET new == [u EXCEPT !.errors = @ + 1] IN
            /\ new \in UploadRecord /\ new.held = u.held /\ new.status = u.status
            /\ new.rows = u.rows /\ new.applied = u.applied /\ new.errors = u.errors + 1
            /\ new.unchanged = u.unchanged /\ new.total = u.total
         /\ \A i \in LibraryIds : LET new == [u EXCEPT !.held = i, !.applied = @ + 1] IN
            /\ new \in UploadRecord /\ new.held = i /\ new.status = u.status
            /\ new.rows = u.rows /\ new.applied = u.applied + 1 /\ new.errors = u.errors
            /\ new.unchanged = u.unchanged /\ new.total = u.total
BY UploadCounts DEF UploadRecord

\* What a job that works on a row is like.
LEMMA JobAtWork ==
  ASSUME LibraryInv, NEW j \in UploadJobs
  PROVE  /\ upload[j] \in UploadRecord /\ UploadFits(upload[j])
         /\ upload[j].rows \in Seq(Library!Row)
         /\ upload[j].rows # <<>> =>
              /\ Library!Current(j) \in Library!Row
              /\ Tail(upload[j].rows) \in Seq(Library!Row)
              /\ Len(Tail(upload[j].rows)) = Len(upload[j].rows) - 1
              /\ Len(upload[j].rows) \in Nat
<1>1. upload[j] \in UploadRecord /\ UploadFits(upload[j])
  BY DEF LibraryInv
<1>2. upload[j].rows \in Seq(Library!Row)
  BY <1>1 DEF UploadRecord
<1>3. ASSUME upload[j].rows # <<>>
      PROVE  /\ Library!Current(j) \in Library!Row
             /\ Tail(upload[j].rows) \in Seq(Library!Row)
             /\ Len(Tail(upload[j].rows)) = Len(upload[j].rows) - 1
             /\ Len(upload[j].rows) \in Nat
  <2> DEFINE rows == upload[j].rows
  <2>1. Library!Current(j) = Head(rows)
    BY DEF Library!Current
  <2> HIDE DEF rows
  <2>2. rows \in Seq(Library!Row) /\ rows # <<>>
    BY <1>2, <1>3 DEF rows
  <2>3. Head(rows) \in Library!Row /\ Tail(rows) \in Seq(Library!Row) /\ Len(Tail(rows)) = Len(rows) - 1
        /\ Len(rows) \in Nat
    BY <2>2
  <2> QED BY <2>1, <2>3 DEF rows
<1> QED BY <1>1, <1>2, <1>3

\* The row is done with; what it was counted as is counted by the step.
LEMMA PastFits ==
  ASSUME LibraryInv, NEW j \in UploadJobs, upload[j].rows # <<>>
  PROVE  LET past == Library!Past(j) IN
         /\ past \in UploadRecord /\ past.held = "none" /\ past.status = upload[j].status
         /\ past.rows = Tail(upload[j].rows)
         /\ past.applied = upload[j].applied /\ past.errors = upload[j].errors
         /\ past.unchanged = upload[j].unchanged /\ past.total = upload[j].total
<1>1. upload[j] \in UploadRecord /\ Library!Current(j) \in Library!Row
      /\ Tail(upload[j].rows) \in Seq(Library!Row)
  BY JobAtWork
<1>2. {Library!Current(j).legacy} \ {Nobody} \subseteq Legacies
  BY <1>1 DEF Library!Row
<1> DEFINE more == {Library!Current(j).legacy} \ {Nobody}
<1> DEFINE u == upload[j]
           rest == Tail(u.rows)
<1>3. Library!Past(j) = [u EXCEPT !.rows = rest, !.held = "none", !.seen = @ \union more]
  BY DEF Library!Past
<1>4. u \in UploadRecord /\ rest \in Seq(Library!Row) /\ more \in SUBSET Legacies
  BY <1>1, <1>2
<1> HIDE DEF more, rest
<1>5. LET passed == Library!Past(j) IN
      /\ passed \in UploadRecord /\ passed.held = "none" /\ passed.status = u.status /\ passed.rows = rest
      /\ passed.applied = u.applied /\ passed.errors = u.errors
      /\ passed.unchanged = u.unchanged /\ passed.total = u.total
  <2> HIDE DEF u
  <2> DEFINE known == u.seen \union more
             past == [u EXCEPT !.rows = rest, !.held = "none", !.seen = known]
  <2>1. Library!Past(j) = past
    BY <1>3
  <2>2. known \in SUBSET Legacies
    BY <1>4 DEF UploadRecord
  <2> HIDE DEF known
  <2>3. past \in UploadRecord
    BY <2>2, <1>4 DEF UploadRecord
  <2>4. /\ past.held = "none" /\ past.status = u.status /\ past.rows = rest
        /\ past.applied = u.applied /\ past.errors = u.errors
        /\ past.unchanged = u.unchanged /\ past.total = u.total
    BY <1>4 DEF UploadRecord
  <2> HIDE DEF past
  <2> QED BY <2>1, <2>3, <2>4
<1> QED BY <1>5 DEF rest

LEMMA RowIsTaken ==
  ASSUME LibraryInv, NEW j \in UploadJobs, Library!Ready(j), NEW i \in LibraryIds,
         upload' = [upload EXCEPT ![j].held = i, ![j].applied = @ + 1],
         codes' \in [LibraryIds -> LibraryCode], Library!OneCodePerNumber'
  PROVE  LibraryInv'
<1> DEFINE new == [upload[j] EXCEPT !.held = i, !.applied = @ + 1]
<1>1. upload[j] \in UploadRecord /\ UploadFits(upload[j])
  BY JobAtWork
<1>2. upload' = [upload EXCEPT ![j] = new]
  OBVIOUS
<1>3. /\ upload[j].status = "VALIDATING" /\ upload[j].held = "none" /\ upload[j].rows # <<>>
  BY DEF Library!Ready, Library!Works
<1>4. /\ new \in UploadRecord /\ new.held = i /\ new.applied = upload[j].applied + 1
      /\ new.rows = upload[j].rows /\ new.errors = upload[j].errors
      /\ new.unchanged = upload[j].unchanged /\ new.total = upload[j].total
      /\ new.status = upload[j].status
  BY <1>1, CountedRecords
<1> HIDE DEF new
<1>5. UploadFits(new)
  <2>1. Adds(upload[j].applied, upload[j].errors, upload[j].unchanged, Len(upload[j].rows), upload[j].total)
    BY <1>1, <1>3 DEF UploadFits, Due
  <2>2. Adds(upload[j].applied + 1, upload[j].errors, upload[j].unchanged, Len(upload[j].rows),
             upload[j].total + 1)
    BY <2>1, <1>1, UploadCounts, RowCountedEarly
  <2>3. new.held # "none"
    BY <1>4, LibraryConstants
  <2> QED BY <2>2, <2>3, <1>3, <1>4 DEF UploadFits, Due
<1> QED BY <1>2, <1>4, <1>5, OneUploadKeeps

LEMMA CreateRowKeeps ==
  ASSUME LibraryInv, NEW j \in UploadJobs, Library!CreateRow(j)
  PROVE  LibraryInv' /\ \A i \in LibraryIds : codes'[i] # codes[i] =>
           codes'[i].state = "DRAFT" /\ codes[i].state \in {"NONE", "DRAFT", "DECIDED"}
<1> DEFINE entry == Library!Current(j)
           i == Library!Fresh
           new == [Library!NoCode EXCEPT !.state = "DRAFT", !.legacy = entry.legacy,
                     !.owner = upload[j].user, !.text = entry.text, !.plan = entry.plan]
<1>1. /\ Library!Ready(j) /\ Library!Verdict(j) = "create" /\ Library!Free # {}
      /\ codes' = [codes EXCEPT ![i] = new]
      /\ upload' = [upload EXCEPT ![j].held = i, ![j].applied = @ + 1]
  BY DEF Library!CreateRow
<1>2. i \in LibraryIds /\ codes[i].state = "NONE"
  <2>1. i \in Library!Free
    BY <1>1 DEF Library!Fresh
  <2> QED BY <2>1 DEF Library!Free
<1>3. entry \in Library!Row /\ upload[j] \in UploadRecord
  BY <1>1, JobAtWork DEF Library!Ready
<1> HIDE DEF entry, i
<1>4. new \in LibraryCode /\ new.legacy = entry.legacy /\ new.state = "DRAFT"
  BY <1>3, NoCodeFits DEF LibraryCode, UploadRecord, Library!Row, Library!States, Library!NoCode
<1>5. Library!Holders(entry.legacy) = {}
  <2>1. Library!Evaluate(entry, upload[j].mode, upload[j].seen) = "create"
    BY <1>1 DEF Library!Verdict, entry
  <2> QED BY <2>1 DEF Library!Evaluate
<1> HIDE DEF new
<1>6. codes \in [LibraryIds -> LibraryCode] /\ codes' \in [LibraryIds -> LibraryCode]
  BY <1>1, <1>2, <1>4 DEF LibraryInv
<1>7. Library!OneCodePerNumber'
  <2> SUFFICES ASSUME NEW a \in LibraryIds, NEW b \in LibraryIds,
                      codes'[a].legacy = codes'[b].legacy, codes'[a].legacy # Nobody
               PROVE  a = b
    BY DEF Library!OneCodePerNumber
  <2>1. \A k \in LibraryIds \ {i} : codes'[k] = codes[k] /\ codes'[i] = new
    BY <1>1, <1>2, <1>6
  <2>2. \A k \in LibraryIds : codes[k].legacy = entry.legacy => entry.legacy = Nobody
    BY <1>5 DEF Library!Holders
  <2>3. CASE a # i /\ b # i
    BY <2>1, <2>3 DEF LibraryInv, Library!OneCodePerNumber
  <2>4. CASE a = i /\ b # i
    BY <2>1, <2>2, <2>4, <1>4
  <2>5. CASE a # i /\ b = i
    BY <2>1, <2>2, <2>5, <1>4
  <2> QED BY <2>3, <2>4, <2>5
<1>8. LibraryInv'
  BY <1>1, <1>2, <1>6, <1>7, RowIsTaken
<1> QED BY <1>1, <1>2, <1>4, <1>6, <1>8

LEMMA UpdateRowKeeps ==
  ASSUME LibraryInv, NEW j \in UploadJobs, Library!UpdateRow(j)
  PROVE  LibraryInv' /\ \A i \in LibraryIds : codes'[i] # codes[i] =>
           codes'[i].state = "DRAFT" /\ codes[i].state \in {"NONE", "DRAFT", "DECIDED"}
<1> DEFINE entry == Library!Current(j)
           i == Library!Holder(entry)
           revised == [codes[i] EXCEPT !.state = "DRAFT", !.text = entry.text, !.plan = entry.plan]
           taken_over == [revised EXCEPT !.owner = upload[j].user, !.decided = codes[i].text]
           new == IF codes[i].state = "DRAFT" THEN revised ELSE taken_over
<1>1. /\ Library!Ready(j) /\ Library!Verdict(j) = "update"
      /\ codes' = [codes EXCEPT ![i] = new]
      /\ upload' = [upload EXCEPT ![j].held = i, ![j].applied = @ + 1]
  BY DEF Library!UpdateRow
<1>2. entry \in Library!Row /\ upload[j] \in UploadRecord
  BY <1>1, JobAtWork DEF Library!Ready
<1>3. i \in LibraryIds /\ codes[i].state \in {"DRAFT", "DECIDED"}
  <2>1. Library!Evaluate(entry, upload[j].mode, upload[j].seen) = "update"
    BY <1>1 DEF Library!Verdict
  <2>2. Library!Holders(entry.legacy) # {} /\ codes[Library!Holder(entry)].state \in {"DRAFT", "DECIDED"}
    BY <2>1 DEF Library!Evaluate
  <2>3. i \in Library!Holders(entry.legacy)
    BY <2>2 DEF Library!Holder
  <2> QED BY <2>2, <2>3 DEF Library!Holders
<1> HIDE DEF entry, i
<1>4. codes[i] \in LibraryCode
  BY <1>3 DEF LibraryInv
<1>5. revised \in LibraryCode /\ revised.legacy = codes[i].legacy /\ revised.state = "DRAFT"
  BY <1>2, <1>4 DEF LibraryCode, Library!Row, Library!States
<1> HIDE DEF revised
<1>6. taken_over \in LibraryCode /\ taken_over.legacy = codes[i].legacy /\ taken_over.state = "DRAFT"
  BY <1>2, <1>4, <1>5 DEF LibraryCode, UploadRecord
<1> HIDE DEF taken_over
<1>7. new \in LibraryCode /\ new.legacy = codes[i].legacy /\ new.state = "DRAFT"
  BY <1>5, <1>6
<1> HIDE DEF new
<1>8. codes' \in [LibraryIds -> LibraryCode] /\ Library!OneCodePerNumber'
  BY <1>1, <1>3, <1>7, OneCodeKeeps
<1>9. LibraryInv'
  BY <1>1, <1>3, <1>8, RowIsTaken
<1> QED BY <1>1, <1>3, <1>7, <1>9 DEF LibraryInv

\* The steps that pass a row, or end a job, leave the codes alone.
LEMMA RowIsPassed ==
  ASSUME LibraryInv, NEW j \in UploadJobs,
         Library!FinishRow(j) \/ Library!SkipRow(j) \/ Library!RefuseRow(j)
  PROVE  LibraryInv' /\ UNCHANGED codes
<1> DEFINE past == Library!Past(j)
           n == Len(upload[j].rows)
<1>1. /\ upload[j] \in UploadRecord /\ UploadFits(upload[j])
      /\ upload[j].status = "VALIDATING" /\ UNCHANGED codes
  BY JobAtWork DEF Library!FinishRow, Library!SkipRow, Library!RefuseRow, Library!Ready, Library!Works
<1>2. upload[j].rows # <<>>
  BY <1>1 DEF Library!FinishRow, Library!SkipRow, Library!RefuseRow, Library!Ready, UploadFits
<1>3. /\ past \in UploadRecord /\ past.held = "none" /\ past.status = "VALIDATING"
      /\ past.rows = Tail(upload[j].rows)
      /\ past.applied = upload[j].applied /\ past.errors = upload[j].errors
      /\ past.unchanged = upload[j].unchanged /\ past.total = upload[j].total
  BY <1>1, <1>2, PastFits
<1>4. Len(past.rows) = n - 1 /\ n \in Nat
  BY <1>2, <1>3, JobAtWork
<1>5. Adds(upload[j].applied, upload[j].errors, upload[j].unchanged, n, Due(upload[j]))
  BY <1>1 DEF UploadFits
<1>6. codes' \in [LibraryIds -> LibraryCode] /\ Library!OneCodePerNumber'
  BY <1>1 DEF LibraryInv, Library!OneCodePerNumber
<1> HIDE DEF n
<1>7. CASE Library!FinishRow(j)
  <2>1. upload' = [upload EXCEPT ![j] = past] /\ upload[j].held # "none"
    BY <1>7 DEF Library!FinishRow
  <2> HIDE DEF past
  <2>2. Adds(past.applied, past.errors, past.unchanged, n - 1, past.total)
    <3>1. Adds(past.applied, past.errors, past.unchanged, n, past.total + 1)
      BY <2>1, <1>3, <1>5 DEF Due
    <3> QED BY <3>1, <1>3, <1>4, UploadCounts, RowLeft
  <2>3. UploadFits(past)
    BY <2>2, <1>3, <1>4 DEF UploadFits, Due
  <2> QED BY <2>1, <2>3, <1>1, <1>3, <1>6, OneUploadKeeps
<1>8. CASE Library!SkipRow(j)
  <2> DEFINE new == [past EXCEPT !.unchanged = @ + 1]
  <2>1. upload' = [upload EXCEPT ![j] = new] /\ upload[j].held = "none"
    BY <1>8 DEF Library!SkipRow, Library!Ready
  <2> HIDE DEF past
  <2>2. /\ new \in UploadRecord /\ new.held = "none" /\ new.status = "VALIDATING"
        /\ new.rows = past.rows /\ new.applied = past.applied /\ new.errors = past.errors
        /\ new.unchanged = past.unchanged + 1 /\ new.total = past.total
    BY <1>3, CountedRecords
  <2> HIDE DEF new
  <2>3. Adds(new.applied, new.errors, new.unchanged, n - 1, new.total)
    <3>1. Adds(past.applied, past.errors, past.unchanged, n, past.total)
      BY <2>1, <1>3, <1>5 DEF Due
    <3>2. Adds(past.applied, past.errors, past.unchanged + 1, n - 1, past.total)
      BY <3>1, <1>3, <1>4, UploadCounts, RowCounted
    <3> QED BY <3>2, <2>2
  <2>4. UploadFits(new)
    <3>1. Len(new.rows) = n - 1
      BY <2>2, <1>4
    <3> QED BY <3>1, <2>2, <2>3 DEF UploadFits, Due
  <2> QED BY <2>1, <2>2, <2>4, <1>1, <1>6, OneUploadKeeps
<1>9. CASE Library!RefuseRow(j)
  <2> DEFINE new == [past EXCEPT !.errors = @ + 1]
  <2>1. upload' = [upload EXCEPT ![j] = new] /\ upload[j].held = "none"
    BY <1>9 DEF Library!RefuseRow, Library!Ready, Library!WithError
  <2> HIDE DEF past
  <2>2. /\ new \in UploadRecord /\ new.held = "none" /\ new.status = "VALIDATING"
        /\ new.rows = past.rows /\ new.applied = past.applied /\ new.errors = past.errors + 1
        /\ new.unchanged = past.unchanged /\ new.total = past.total
    BY <1>3, CountedRecords
  <2> HIDE DEF new
  <2>3. Adds(new.applied, new.errors, new.unchanged, n - 1, new.total)
    <3>1. Adds(past.applied, past.errors, past.unchanged, n, past.total)
      BY <2>1, <1>3, <1>5 DEF Due
    <3>2. Adds(past.applied, past.errors + 1, past.unchanged, n - 1, past.total)
      BY <3>1, <1>3, <1>4, UploadCounts, RowCounted
    <3> QED BY <3>2, <2>2
  <2>4. UploadFits(new)
    <3>1. Len(new.rows) = n - 1
      BY <2>2, <1>4
    <3> QED BY <3>1, <2>2, <2>3 DEF UploadFits, Due
  <2> QED BY <2>1, <2>2, <2>4, <1>1, <1>6, OneUploadKeeps
<1> QED BY <1>1, <1>7, <1>8, <1>9

LEMMA JobBeginsOrEnds ==
  ASSUME LibraryInv, NEW j \in UploadJobs,
         Library!Begin(j) \/ Library!Fail(j) \/ Library!Complete(j)
  PROVE  LibraryInv' /\ UNCHANGED codes
<1> DEFINE u == upload[j]
           n == Len(u.rows)
<1>1. u \in UploadRecord /\ UploadFits(u) /\ UNCHANGED codes
  BY JobAtWork DEF Library!Begin, Library!Fail, Library!Complete
<1>2. codes' \in [LibraryIds -> LibraryCode] /\ Library!OneCodePerNumber'
  BY <1>1 DEF LibraryInv, Library!OneCodePerNumber
<1>3. Adds(u.applied, u.errors, u.unchanged, n, Due(u)) /\ (u.held # "none" => u.rows # <<>>)
  BY <1>1 DEF UploadFits
<1>4. CASE Library!Begin(j)
  <2> DEFINE new == [u EXCEPT !.status = "VALIDATING"]
  <2>1. upload' = [upload EXCEPT ![j] = new]
    BY <1>4 DEF Library!Begin
  <2>2. /\ new \in UploadRecord /\ new.status = "VALIDATING" /\ new.rows = u.rows
        /\ new.held = u.held /\ new.applied = u.applied /\ new.errors = u.errors
        /\ new.unchanged = u.unchanged /\ new.total = u.total
    BY <1>1 DEF UploadRecord
  <2> HIDE DEF new, u
  <2>3. UploadFits(new)
    BY <2>2, <1>3 DEF UploadFits, Due
  <2> QED BY <2>1, <2>2, <2>3, <1>1, <1>2, OneUploadKeeps
<1>5. CASE Library!Fail(j)
  <2> DEFINE new == [u EXCEPT !.status = "FAILED", !.alive = FALSE,
                              !.createdCount = u.applied - 1, !.errorCount = u.errors]
  <2>1. upload' = [upload EXCEPT ![j] = new] /\ u.held # "none"
    BY <1>5 DEF Library!Fail
  <2>2. /\ new \in UploadRecord /\ new.status = "FAILED" /\ ~new.alive /\ new.rows = u.rows
        /\ new.held = u.held /\ new.applied = u.applied /\ new.errors = u.errors
        /\ new.unchanged = u.unchanged /\ new.total = u.total
        /\ new.createdCount = u.applied - 1 /\ new.errorCount = u.errors
    <3> DEFINE created == u.applied - 1
    <3> HIDE DEF u
    <3>1. created \in Int /\ u.errors \in Nat
      BY <1>1, UploadCounts
    <3>2. new = [u EXCEPT !.status = "FAILED", !.alive = FALSE, !.createdCount = created,
                          !.errorCount = u.errors] /\ created = u.applied - 1
      OBVIOUS
    <3> HIDE DEF new, created
    <3> QED BY <3>1, <3>2, <1>1 DEF UploadRecord
  <2> HIDE DEF new, u
  <2>3. UploadFits(new)
    BY <2>1, <2>2, <1>3 DEF UploadFits, Due
  <2> QED BY <2>1, <2>2, <2>3, <1>1, <1>2, OneUploadKeeps
<1>6. CASE Library!Complete(j)
  <2> DEFINE new == [u EXCEPT !.status = "COMPLETE", !.alive = FALSE,
                              !.createdCount = u.applied, !.errorCount = u.errors]
  <2>1. upload' = [upload EXCEPT ![j] = new] /\ u.held = "none" /\ u.rows = <<>>
    BY <1>6 DEF Library!Complete
  <2>2. /\ new \in UploadRecord /\ new.status = "COMPLETE" /\ ~new.alive /\ new.rows = u.rows
        /\ new.held = u.held /\ new.applied = u.applied /\ new.errors = u.errors
        /\ new.unchanged = u.unchanged /\ new.total = u.total
        /\ new.createdCount = u.applied /\ new.errorCount = u.errors
    <3> DEFINE created == u.applied
    <3> HIDE DEF u
    <3>1. created \in Int /\ u.errors \in Nat
      BY <1>1, UploadCounts
    <3>2. new = [u EXCEPT !.status = "COMPLETE", !.alive = FALSE, !.createdCount = created,
                          !.errorCount = u.errors] /\ created = u.applied
      OBVIOUS
    <3> HIDE DEF new, created
    <3> QED BY <3>1, <3>2, <1>1 DEF UploadRecord
  <2> HIDE DEF new, u
  <2>3. UploadFits(new)
    BY <2>1, <2>2, <1>3 DEF UploadFits, Due
  <2> QED BY <2>1, <2>2, <2>3, <1>1, <1>2, OneUploadKeeps
<1> QED BY <1>1, <1>4, <1>5, <1>6

LEMMA LibraryWorkKeeps ==
  ASSUME LibraryInv, NEW j \in UploadJobs, Library!Work(j)
  PROVE  LibraryInv' /\ \A i \in LibraryIds : codes'[i] # codes[i] =>
           codes'[i].state = "DRAFT" /\ codes[i].state \in {"NONE", "DRAFT", "DECIDED"}
BY CreateRowKeeps, UpdateRowKeeps, RowIsPassed, JobBeginsOrEnds DEF Library!Work

LEMMA LibrarySteps ==
  ASSUME LibraryInv, [Library!Next]_library
  PROVE  LibraryInv'
<1>1. CASE UNCHANGED library
  BY <1>1 DEF library, LibraryInv, Library!OneCodePerNumber
<1>2. CASE Library!People
  <2>1. ASSUME NEW user, NEW i \in LibraryIds, NEW legacy, NEW words,
               Library!CreateByHand(user, i, legacy, words)
        PROVE  FALSE
    BY <2>1 DEF Library!CreateByHand
  <2> QED
    BY <1>2, <2>1, UploadKeeps, PersonsKeep, WithdrawalKeeps
       DEF Library!People, Library!EditDraft, Library!Submit, Library!DeleteShell, Library!Decide
<1> QED BY <1>1, <1>2, LibraryWorkKeeps, LibraryRestartKeeps DEF Library!Next

LEMMA LibraryIsSound ==
  ASSUME LibraryInv
  PROVE  Library!LibraryTypeOK /\ Library!CountsAreTrue /\ Library!OneCodePerNumber
<1>1. Library!LibraryTypeOK
  <2>1. \A i \in LibraryIds : /\ codes[i].state \in Library!States
                              /\ codes[i].legacy \in Legacies \union {Nobody}
                              /\ codes[i].owner \in Library!Users \union {Nobody}
    BY DEF LibraryInv, LibraryCode
  <2>2. ASSUME NEW j \in UploadJobs
        PROVE  /\ upload[j].status \in {"NONE", "PENDING", "VALIDATING", "COMPLETE", "FAILED"}
               /\ upload[j].seen \subseteq Legacies
               /\ upload[j].rows \in Seq(Library!Row)
               /\ upload[j].applied + upload[j].errors + upload[j].unchanged + Len(upload[j].rows)
                    = upload[j].total + (IF upload[j].held = "none" THEN 0 ELSE 1)
    <3>1. upload[j] \in UploadRecord /\ UploadFits(upload[j])
      BY DEF LibraryInv
    <3>2. /\ upload[j].status \in {"NONE", "PENDING", "VALIDATING", "COMPLETE", "FAILED"}
          /\ upload[j].seen \subseteq Legacies
          /\ upload[j].rows \in Seq(Library!Row)
          /\ upload[j].total \in Nat
      BY <3>1 DEF UploadRecord
    <3>3. upload[j].applied + upload[j].errors + upload[j].unchanged + Len(upload[j].rows)
            = Due(upload[j])
      BY <3>1 DEF UploadFits, Adds
    <3>4. Due(upload[j]) = upload[j].total + (IF upload[j].held = "none" THEN 0 ELSE 1)
      BY <3>2 DEF Due
    <3> QED BY <3>2, <3>3, <3>4
  <2> QED BY <2>1, <2>2 DEF Library!LibraryTypeOK
<1>2. ASSUME NEW j \in UploadJobs
      PROVE  /\ upload[j].status = "COMPLETE" =>
                  /\ upload[j].createdCount + upload[j].unchanged + upload[j].errorCount = upload[j].total
                  /\ upload[j].errorCount = upload[j].errors
             /\ upload[j].status = "FAILED" =>
                  upload[j].createdCount + upload[j].unchanged + upload[j].errorCount + Len(upload[j].rows)
                    = upload[j].total
  <2> DEFINE u == upload[j]
             n == Len(u.rows)
  <2>1. u \in UploadRecord /\ UploadFits(u)
    BY DEF LibraryInv
  <2>2. u.applied \in Nat /\ u.errors \in Nat /\ u.unchanged \in Nat /\ u.total \in Nat
        /\ u.rows \in Seq(Library!Row)
    BY <2>1 DEF UploadRecord
  <2>3. n \in Nat /\ (u.rows = <<>> => n = 0)
    BY <2>2
  <2>4. /\ Adds(u.applied, u.errors, u.unchanged, n, Due(u))
        /\ u.status = "COMPLETE" =>
             u.held = "none" /\ u.rows = <<>> /\ u.createdCount = u.applied /\ u.errorCount = u.errors
        /\ u.status = "FAILED" =>
             u.held # "none" /\ u.createdCount = u.applied - 1 /\ u.errorCount = u.errors
    BY <2>1 DEF UploadFits
  <2> HIDE DEF n, u
  <2>5. ASSUME u.status = "COMPLETE"
        PROVE  u.createdCount + u.unchanged + u.errorCount = u.total
    <3>1. Adds(u.applied, u.errors, u.unchanged, 0, u.total)
      BY <2>3, <2>4, <2>5 DEF Due
    <3>2. u.applied + u.unchanged + u.errors = u.total
      BY <3>1, <2>2, RowsCounted
    <3> QED BY <3>2, <2>4, <2>5
  <2>6. ASSUME u.status = "FAILED"
        PROVE  u.createdCount + u.unchanged + u.errorCount + n = u.total
    <3>1. Adds(u.applied, u.errors, u.unchanged, n, u.total + 1)
      BY <2>4, <2>6 DEF Due
    <3>2. (u.applied - 1) + u.unchanged + u.errors + n = u.total
      BY <3>1, <2>2, <2>3, RowLeft
    <3> QED BY <3>2, <2>4, <2>6
  <2> QED BY <2>4, <2>5, <2>6 DEF n, u
<1> QED BY <1>1, <1>2 DEF LibraryInv, Library!CountsAreTrue

-----------------------------------------------------------------------------
(* The quotas of a sample.  No quota ever asks for more than its subgroup  *)
(* has, and the loops never empty one: the largest is lowered only while   *)
(* the sum is above the size, and then it is two at least.                 *)

QuotaFits ==
  \A k \in Groups :
    /\ quota[k] \in 0 .. batch[k]
    /\ Quotas!EverySubgroupFits => quota[k] >= 1

QuotaInv ==
  /\ batch \in [Groups -> 1 .. MaxMembers]
  /\ size \in 1 .. Quotas!Total(batch)
  /\ quota \in [Groups -> Nat]
  /\ visited \subseteq Groups
  /\ QuotaFits

\* What a sum counts.
Units(f) == UNION {{k} \X (1 .. f[k]) : k \in Groups}

LEMMA TotalIsCardinality ==
  ASSUME NEW f
  PROVE  Quotas!Total(f) = Cardinality(Units(f))
BY DEF Quotas!Total, Units, Quotas!Cardinality, Cardinality

LEMMA GroupsAreFew ==
  /\ IsFiniteSet(Groups)
  /\ Quotas!Cardinality(Groups) = Cardinality(Groups)
  /\ Cardinality(Groups) \in Nat
  /\ MaxMembers \in Nat \ {0} /\ Groups \subseteq Nat
<1>1. IsFiniteSet(Groups)
  BY QuotasAssumption DEF Quotas!SamplingAssumption, Quotas!IsFiniteSet, IsFiniteSet
<1>2. Quotas!Cardinality(Groups) = Cardinality(Groups)
  BY DEF Quotas!Cardinality, Cardinality
<1>3. MaxMembers \in Nat \ {0} /\ Groups \subseteq Nat
  BY QuotasAssumption DEF Quotas!SamplingAssumption
<1> QED BY <1>1, <1>2, <1>3, FS_CardinalityType

\* A sum of bounded numbers is a number, no less than each of them.
LEMMA TotalBounds ==
  ASSUME NEW f \in [Groups -> 0 .. MaxMembers]
  PROVE  /\ Quotas!Total(f) \in Nat
         /\ \A k \in Groups : f[k] <= Quotas!Total(f)
<1>1. IsFiniteSet(Units(f))
  <2>1. Units(f) \subseteq Groups \X (1 .. MaxMembers)
    BY GroupsAreFew DEF Units
  <2>2. IsFiniteSet(1 .. MaxMembers)
    BY GroupsAreFew, FS_Interval
  <2>3. IsFiniteSet(Groups \X (1 .. MaxMembers))
    BY <2>2, GroupsAreFew, FS_Product
  <2> QED BY <2>1, <2>3, FS_Subset
<1>2. Quotas!Total(f) \in Nat
  BY <1>1, TotalIsCardinality, FS_CardinalityType
<1>3. ASSUME NEW k \in Groups
      PROVE  f[k] <= Quotas!Total(f)
  <2>1. {k} \X (1 .. f[k]) \subseteq Units(f)
    BY DEF Units
  <2>2. IsFiniteSet({k}) /\ Cardinality({k}) = 1
    BY FS_Singleton
  <2>3. f[k] \in Nat
    OBVIOUS
  <2>4. IsFiniteSet(1 .. f[k]) /\ Cardinality(1 .. f[k]) = f[k]
    BY <2>3, FS_Interval
  <2>5. Cardinality({k} \X (1 .. f[k])) = Cardinality({k}) * Cardinality(1 .. f[k])
    BY <2>2, <2>4, FS_Product
  <2>6. Cardinality({k} \X (1 .. f[k])) = f[k]
    BY <2>2, <2>3, <2>4, <2>5
  <2>7. Cardinality({k} \X (1 .. f[k])) <= Cardinality(Units(f))
    BY <1>1, <2>1, FS_Subset
  <2> QED BY <2>6, <2>7, TotalIsCardinality
<1> QED BY <1>2, <1>3

\* A sum of ones and zeros is no more than there are subgroups.
LEMMA TotalOfOnes ==
  ASSUME NEW f \in [Groups -> 0 .. 1]
  PROVE  Quotas!Total(f) <= Cardinality(Groups)
<1>1. Units(f) \subseteq Groups \X (1 .. 1)
  BY DEF Units
<1>2. IsFiniteSet(1 .. 1) /\ Cardinality(1 .. 1) = 1
  BY FS_Singleton, 1 .. 1 = {1}
<1>3. /\ IsFiniteSet(Groups \X (1 .. 1))
      /\ Cardinality(Groups \X (1 .. 1)) = Cardinality(Groups) * Cardinality(1 .. 1)
  BY <1>2, GroupsAreFew, FS_Product
<1>4. Cardinality(Groups \X (1 .. 1)) = Cardinality(Groups)
  BY <1>2, <1>3, GroupsAreFew
<1>5. Cardinality(Units(f)) <= Cardinality(Groups \X (1 .. 1))
  BY <1>1, <1>3, FS_Subset
<1> QED BY <1>4, <1>5, TotalIsCardinality

LEMMA TotalOfNothing ==
  ASSUME NEW f \in [Groups -> 0 .. 0]
  PROVE  Quotas!Total(f) = 0
<1>1. Units(f) = {}
  BY DEF Units
<1> QED BY <1>1, TotalIsCardinality, FS_EmptySet

\* The whole part of a share of a subgroup is no more than the subgroup.
LEMMA ShareIsCovered ==
  ASSUME NEW total \in Nat, total > 0, NEW drawn \in Nat, drawn <= total, NEW m \in Nat
  PROVE  (drawn * m) \div total \in 0 .. m
<1> DEFINE q == (drawn * m) \div total
           rest == (drawn * m) % total
<1>1. drawn * m \in Nat /\ drawn * m <= total * m
  OBVIOUS
<1>2. q \in Int /\ rest \in 0 .. (total - 1) /\ drawn * m = total * q + rest
  BY <1>1
<1>3. q >= 0
  <2> HIDE DEF q, rest
  <2> SUFFICES ASSUME q <= -1 PROVE FALSE
    BY <1>2
  <2>1. total * q <= total * (-1)
    BY <1>2
  <2> QED BY <1>1, <1>2, <2>1
<1>4. q <= m
  <2> HIDE DEF q, rest
  <2> SUFFICES ASSUME q >= m + 1 PROVE FALSE
    BY <1>2
  <2>1. total * q >= total * (m + 1)
    BY <1>2
  <2>2. total * (m + 1) = total * m + total
    OBVIOUS
  <2> QED BY <1>1, <1>2, <2>1, <2>2
<1> QED BY <1>2, <1>3, <1>4

LEMMA QuotasBegin == Quotas!Init => QuotaInv
<1> SUFFICES ASSUME Quotas!Init PROVE QuotaInv
  OBVIOUS
<1> USE GroupsAreFew
<1>1. batch \in [Groups -> 1 .. MaxMembers] /\ size \in 1 .. Quotas!Total(batch) /\ visited = {}
  BY DEF Quotas!Init
<1>2. batch \in [Groups -> 0 .. MaxMembers] /\ Quotas!Total(batch) \in Nat
  BY <1>1, TotalBounds
<1>3. ASSUME NEW k \in Groups
      PROVE  Quotas!Share(k) \in 0 .. batch[k]
  <2> DEFINE total == Quotas!Total(batch)
             m == batch[k]
  <2>1. total \in Nat /\ total > 0 /\ size \in Nat /\ size <= total /\ m \in Nat
    BY <1>1, <1>2
  <2> HIDE DEF total, m
  <2>2. (size * m) \div total \in 0 .. m
    BY <2>1, ShareIsCovered
  <2> QED BY <2>2 DEF Quotas!Share, total, m
<1>4. ASSUME NEW k \in Groups
      PROVE  /\ quota[k] \in 0 .. batch[k]
             /\ Quotas!EverySubgroupFits => quota[k] >= 1
  <2>1. quota[k] = IF Quotas!EverySubgroupFits /\ Quotas!Share(k) = 0 THEN 1 ELSE Quotas!Share(k)
    BY DEF Quotas!Init
  <2>2. batch[k] \in 1 .. MaxMembers
    BY <1>1
  <2> QED BY <1>3, <2>1, <2>2
<1>5. quota \in [Groups -> Nat]
  <2>1. quota = [k \in Groups |-> quota[k]]
    BY DEF Quotas!Init
  <2>2. \A k \in Groups : quota[k] \in Nat
    BY <1>1, <1>4
  <2> QED BY <2>1, <2>2
<1> QED BY <1>1, <1>4, <1>5 DEF QuotaInv, QuotaFits

LEMMA RaiseKeeps ==
  ASSUME QuotaInv, Quotas!Raise
  PROVE  QuotaInv'
<1> USE DEF QuotaInv
<1>1. PICK k \in Groups :
        /\ quota' = IF Quotas!MayRaise(k) THEN [quota EXCEPT ![k] = @ + 1] ELSE quota
        /\ visited' = IF visited \union {k} = Groups THEN {} ELSE visited \union {k}
        /\ UNCHANGED <<batch, size>>
  BY DEF Quotas!Raise
<1>2. quota' \in [Groups -> Nat] /\ visited' \subseteq Groups
  BY <1>1
<1>3. UNCHANGED Quotas!EverySubgroupFits
  BY <1>1 DEF Quotas!EverySubgroupFits
<1>4. QuotaFits'
  <2>1. ASSUME NEW j \in Groups
        PROVE  /\ quota'[j] \in 0 .. batch[j]
               /\ Quotas!EverySubgroupFits => quota'[j] >= 1
    <3>1. quota[j] \in 0 .. batch[j] /\ (Quotas!EverySubgroupFits => quota[j] >= 1)
          /\ batch[j] \in Nat
      BY GroupsAreFew DEF QuotaFits
    <3>2. quota'[j] = quota[j] \/ (quota'[j] = quota[j] + 1 /\ quota[j] < batch[j])
      BY <1>1 DEF Quotas!MayRaise
    <3> QED BY <3>1, <3>2
  <2> QED BY <2>1, <1>1, <1>3 DEF QuotaFits
<1>5. UNCHANGED Quotas!Total(batch)
  BY <1>1
<1> QED BY <1>1, <1>2, <1>4, <1>5

LEMMA LowerKeeps ==
  ASSUME QuotaInv, Quotas!Lower
  PROVE  QuotaInv'
<1> USE DEF QuotaInv
<1>1. PICK k \in Groups : Quotas!Largest(k) /\ quota' = [quota EXCEPT ![k] = @ - 1]
  BY DEF Quotas!Lower
<1>2. Quotas!Total(quota) > size /\ UNCHANGED <<batch, size, visited>>
  BY DEF Quotas!Lower
<1>3. \A j \in Groups : quota[j] <= quota[k] /\ quota[j] \in Nat
  BY <1>1 DEF Quotas!Largest
<1>4. batch \in [Groups -> 0 .. MaxMembers] /\ size \in Nat /\ size >= 1
  <2>1. batch \in [Groups -> 0 .. MaxMembers]
    BY GroupsAreFew
  <2> QED BY <2>1, TotalBounds
<1>5. quota \in [Groups -> 0 .. MaxMembers] /\ Quotas!Total(quota) \in Nat
  <2>1. \A j \in Groups : quota[j] \in 0 .. MaxMembers
    BY GroupsAreFew DEF QuotaFits
  <2>2. quota \in [Groups -> 0 .. MaxMembers]
    BY <2>1
  <2> QED BY <2>2, TotalBounds
<1>6. quota[k] >= 1
  <2> SUFFICES ASSUME quota[k] = 0 PROVE FALSE
    BY <1>3
  <2>1. \A j \in Groups : quota[j] \in 0 .. 0
    BY <1>3
  <2>2. quota \in [Groups -> 0 .. 0]
    BY <2>1
  <2> QED BY <2>2, <1>2, <1>4, TotalOfNothing
<1>7. Quotas!EverySubgroupFits => quota[k] >= 2
  <2> SUFFICES ASSUME Quotas!EverySubgroupFits, quota[k] = 1 PROVE FALSE
    BY <1>3, <1>6
  <2>1. \A j \in Groups : quota[j] \in 0 .. 1
    BY <1>3
  <2>2. quota \in [Groups -> 0 .. 1]
    BY <2>1
  <2>3. size >= Cardinality(Groups)
    BY GroupsAreFew DEF Quotas!EverySubgroupFits
  <2> QED BY <2>2, <2>3, <1>2, <1>4, <1>5, GroupsAreFew, TotalOfOnes
<1>8. quota' \in [Groups -> Nat]
  BY <1>1, <1>6
<1>9. QuotaFits'
  <2>1. UNCHANGED Quotas!EverySubgroupFits
    BY <1>2 DEF Quotas!EverySubgroupFits
  <2>2. ASSUME NEW j \in Groups
        PROVE  /\ quota'[j] \in 0 .. batch[j]
               /\ Quotas!EverySubgroupFits => quota'[j] >= 1
    <3>1. quota[j] \in 0 .. batch[j] /\ (Quotas!EverySubgroupFits => quota[j] >= 1)
          /\ batch[j] \in Nat
      BY GroupsAreFew DEF QuotaFits
    <3>2. quota'[j] = quota[j] \/ (j = k /\ quota'[j] = quota[j] - 1)
      BY <1>1
    <3> QED BY <3>1, <3>2, <1>6, <1>7
  <2> QED BY <2>1, <2>2, <1>2 DEF QuotaFits
<1>10. UNCHANGED Quotas!Total(batch)
  BY <1>2
<1> QED BY <1>2, <1>8, <1>9, <1>10

LEMMA QuotaSteps ==
  ASSUME QuotaInv, [Quotas!Next]_quotas
  PROVE  QuotaInv'
<1>1. CASE UNCHANGED quotas
  BY <1>1 DEF quotas, QuotaInv, QuotaFits, Quotas!EverySubgroupFits, Quotas!Total
<1>2. CASE Quotas!Next
  BY <1>2, RaiseKeeps, LowerKeeps DEF Quotas!Next
<1> QED BY <1>1, <1>2

LEMMA QuotasAreSound ==
  ASSUME QuotaInv
  PROVE  Quotas!TypeOK /\ Quotas!Represented
<1>1. batch \in [Groups -> 0 .. MaxMembers]
  BY GroupsAreFew DEF QuotaInv
<1>2. Quotas!Total(batch) \in Nat /\ \A k \in Groups : batch[k] <= Quotas!Total(batch)
  BY <1>1, TotalBounds
<1>3. \A k \in Groups : quota[k] \in 0 .. Quotas!Total(batch)
  BY <1>1, <1>2 DEF QuotaInv, QuotaFits
<1>4. quota \in [Groups -> 0 .. Quotas!Total(batch)]
  BY <1>3 DEF QuotaInv
<1>5. Quotas!Represented
  BY <1>1 DEF QuotaInv, QuotaFits, Quotas!Represented
<1> QED BY <1>4, <1>5 DEF QuotaInv, Quotas!TypeOK

-----------------------------------------------------------------------------
(* Packages of a Release.  The files of a job are the first of the files   *)
(* it has to write, in their order, and those for everybody are whole.     *)

FileRecord ==
  [language : Packing!Languages, folder : Packing!Folders, rows : SUBSET PackageCodes,
   translated : SUBSET PackageCodes]

PackageRecord ==
  [status : {"none", "PENDING", "COMPLETE", "FAILED"},
   thread : {"none", "starting", "running", "gone"},
   coverage : [Packing!Languages -> SUBSET PackageCodes],
   files : Seq(FileRecord)]

FilesFit(done) ==
  /\ Len(done) <= Len(Packing!_variants)
  /\ \A i \in 1 .. Len(done) :
       /\ <<done[i].language, done[i].folder>> = Packing!_variants[i]
       /\ done[i].folder = "all" => done[i].rows = PackageCodes

PackageFits(j) ==
  /\ FilesFit(package[j].files)
  /\ package[j].thread \in {"starting", "running"} => package[j].status = "PENDING"
  /\ package[j].status = "COMPLETE" => Len(package[j].files) = Len(Packing!_variants)

PackingInv ==
  /\ package \in [PackageJobs -> PackageRecord]
  /\ approved \subseteq PackageCodes \X OtherLanguages
  /\ visible \subseteq PackageCodes
  /\ changed \in 0 .. MaxChanges
  /\ \A j \in PackageJobs : PackageFits(j)

LEMMA HalvesAgree ==
  ASSUME NEW i \in Nat, NEW k \in Nat, (i + 1) \div 2 = (k + 1) \div 2, i % 2 = 1 <=> k % 2 = 1
  PROVE  i = k
OBVIOUS

\* One file for every language and every audience, each once.
LEMMA VariantsAreWhole ==
  LET variants == Packing!_variants IN
  /\ variants \in Seq(Packing!Languages \X Packing!Folders)
  /\ \A i, k \in 1 .. Len(variants) : variants[i] = variants[k] => i = k
  /\ \A v \in Packing!Languages \X Packing!Folders : \E i \in 1 .. Len(variants) : variants[i] = v
<1> DEFINE n == Cardinality(OtherLanguages)
           others == Packing!SetToSeq(OtherLanguages)
           langs == <<Source>> \o others
           variants == Packing!_variants
<1>1. IsFiniteSet(OtherLanguages) /\ Source \notin OtherLanguages
  BY PackingAssumption DEF Packing!BatchAssumption, Packing!IsFiniteSet, IsFiniteSet
<1>2. Lists(others, OtherLanguages)
  <2>1. others = CHOOSE f \in [1 .. n -> OtherLanguages] : \A a, b \in DOMAIN f : f[a] = f[b] => a = b
    BY DEF Packing!SetToSeq, Packing!IsInjective, Packing!Cardinality, Cardinality
  <2> HIDE DEF others, n
  <2>2. /\ others \in [1 .. Cardinality(OtherLanguages) -> OtherLanguages]
        /\ \A a, b \in DOMAIN others : others[a] = others[b] => a = b
    <3>1. \E f \in [1 .. Cardinality(OtherLanguages) -> OtherLanguages] :
            \A a, b \in DOMAIN f : f[a] = f[b] => a = b
      BY <1>1, SetsAreListed
    <3> QED BY <2>1, <3>1 DEF n
  <2> QED BY <2>2, <1>1, SetsAreListed
<1>3. n \in Nat
  BY <1>1, FS_CardinalityType
<1> HIDE DEF others, n
<1>4. others \in Seq(OtherLanguages) /\ Len(others) = n
  BY <1>2, <1>3 DEF Lists, n
<1>5. /\ langs \in Seq(Packing!Languages) /\ Len(langs) = n + 1 /\ langs[1] = Source
      /\ \A i \in 2 .. n + 1 : langs[i] = others[i - 1] /\ i - 1 \in 1 .. n
  BY <1>3, <1>4 DEF Packing!Languages
<1>6. \A i, k \in 1 .. n + 1 : langs[i] = langs[k] => i = k
  <2> SUFFICES ASSUME NEW i \in 1 .. n + 1, NEW k \in 1 .. n + 1, langs[i] = langs[k]
               PROVE  i = k
    OBVIOUS
  <2>1. \A a \in 1 .. n : others[a] \in OtherLanguages
    BY <1>4
  <2>2. \A a, b \in 1 .. n : others[a] = others[b] => a = b
    BY <1>2 DEF Lists, n
  <2> HIDE DEF langs
  <2> QED BY <2>1, <2>2, <1>1, <1>3, <1>5
<1>7. \A l \in Packing!Languages : \E i \in 1 .. n + 1 : langs[i] = l
  <2> HIDE DEF langs
  <2> SUFFICES ASSUME NEW l \in OtherLanguages PROVE \E i \in 1 .. n + 1 : langs[i] = l
    BY <1>3, <1>5 DEF Packing!Languages
  <2>1. PICK a \in 1 .. n : others[a] = l
    BY <1>2 DEF Lists, n
  <2>2. a + 1 \in 2 .. n + 1 /\ langs[a + 1] = l
    BY <2>1, <1>3, <1>5
  <2> QED BY <2>2
<1>8. variants = [i \in 1 .. 2 * (n + 1) |->
                    <<langs[(i + 1) \div 2], IF i % 2 = 1 THEN "audience" ELSE "all">>]
  BY <1>5 DEF Packing!_variants, others
<1> HIDE DEF langs, variants
<1>9. \A i \in 1 .. 2 * (n + 1) : (i + 1) \div 2 \in 1 .. n + 1
  BY <1>3
<1>10. variants \in Seq(Packing!Languages \X Packing!Folders) /\ Len(variants) = 2 * (n + 1)
  <2>1. \A i \in 1 .. n + 1 : langs[i] \in Packing!Languages
    BY <1>3, <1>5
  <2>2. \A i \in 1 .. 2 * (n + 1) : variants[i] \in Packing!Languages \X Packing!Folders
    BY <2>1, <1>8, <1>9 DEF Packing!Folders
  <2> QED BY <2>2, <1>8, <1>3
<1>11. ASSUME NEW i \in 1 .. Len(variants), NEW k \in 1 .. Len(variants), variants[i] = variants[k]
       PROVE  i = k
  <2>1. langs[(i + 1) \div 2] = langs[(k + 1) \div 2] /\ (i % 2 = 1 <=> k % 2 = 1)
    BY <1>8, <1>10, <1>11
  <2>2. (i + 1) \div 2 = (k + 1) \div 2
    BY <2>1, <1>6, <1>9, <1>10
  <2>3. i \in Nat /\ k \in Nat
    BY <1>10
  <2> QED BY <2>1, <2>2, <2>3, HalvesAgree
<1>12. ASSUME NEW v \in Packing!Languages \X Packing!Folders
       PROVE  \E i \in 1 .. Len(variants) : variants[i] = v
  <2>1. PICK a \in 1 .. n + 1 : langs[a] = v[1]
    BY <1>7
  <2>2. CASE v[2] = "audience"
    <3>1. 2 * a - 1 \in 1 .. 2 * (n + 1) /\ ((2 * a - 1) + 1) \div 2 = a /\ (2 * a - 1) % 2 = 1
      BY <1>3
    <3>2. variants[2 * a - 1] = <<langs[a], "audience">>
      BY <3>1, <1>8
    <3> QED BY <3>1, <3>2, <2>1, <2>2, <1>10
  <2>3. CASE v[2] = "all"
    <3>1. 2 * a \in 1 .. 2 * (n + 1) /\ (2 * a + 1) \div 2 = a /\ (2 * a) % 2 = 0
      BY <1>3
    <3>2. variants[2 * a] = <<langs[a], "all">>
      BY <3>1, <1>8
    <3> QED BY <3>1, <3>2, <2>1, <2>3, <1>10
  <2> QED BY <2>2, <2>3 DEF Packing!Folders
<1> QED BY <1>10, <1>11, <1>12 DEF variants

LEMMA PackingBegins == Packing!Init => PackingInv
<1> SUFFICES ASSUME Packing!Init PROVE PackingInv
  OBVIOUS
<1>1. package \in [PackageJobs -> PackageRecord]
  BY DEF Packing!Init, Packing!Unrequested, PackageRecord
<1>2. Len(Packing!_variants) \in Nat
  BY VariantsAreWhole
<1>3. \A j \in PackageJobs : PackageFits(j)
  BY <1>2 DEF Packing!Init, Packing!Unrequested, PackageFits, FilesFit
<1> QED BY <1>1, <1>3, PackingAssumption DEF Packing!Init, PackingInv, Packing!BatchAssumption

\* What a file holds.
LEMMA PreparedFits ==
  ASSUME PackingInv, NEW v \in Packing!Languages \X Packing!Folders
  PROVE  /\ Packing!_prepare(v) \in FileRecord
         /\ <<Packing!_prepare(v).language, Packing!_prepare(v).folder>> = v
         /\ Packing!_prepare(v).folder = "all" => Packing!_prepare(v).rows = PackageCodes
BY DEF PackingInv, Packing!_prepare, FileRecord, Packing!approved_for

\* A step that changes the record of one job.
LEMMA OnePackageKeeps ==
  ASSUME PackingInv, NEW j \in PackageJobs, NEW new \in PackageRecord,
         package' = [package EXCEPT ![j] = new], UNCHANGED <<approved, visible, changed>>,
         FilesFit(new.files),
         new.thread \in {"starting", "running"} => new.status = "PENDING",
         new.status = "COMPLETE" => Len(new.files) = Len(Packing!_variants)
  PROVE  PackingInv'
<1>1. package' \in [PackageJobs -> PackageRecord]
  BY DEF PackingInv
<1>2. \A k \in PackageJobs : PackageFits(k)'
  BY DEF PackingInv, PackageFits
<1> QED BY <1>1, <1>2 DEF PackingInv

LEMMA PartOfASequence ==
  ASSUME NEW S, NEW s \in Seq(S), NEW a \in Nat, NEW b \in Nat, a + 1 <= b, b <= Len(s)
  PROVE  /\ SubSeq(s, a + 1, b) \in Seq(S) /\ Len(SubSeq(s, a + 1, b)) = b - a
         /\ \A i \in 1 .. b - a : SubSeq(s, a + 1, b)[i] = s[a + i]
<1>1. Len(SubSeq(s, a + 1, b)) = b - a
  OBVIOUS
<1>2. ASSUME NEW i \in 1 .. b - a
      PROVE  SubSeq(s, a + 1, b)[i] = s[a + i] /\ s[a + i] \in S
  <2>1. a + i \in 1 .. Len(s) /\ i \in 1 .. b - (a + 1) + 1 /\ (a + 1) + i - 1 = a + i
    OBVIOUS
  <2> QED BY <2>1
<1>3. SubSeq(s, a + 1, b) \in Seq(S)
  OBVIOUS
<1> QED BY <1>1, <1>2, <1>3

LEMMA WriteFilesKeeps ==
  ASSUME PackingInv, NEW j \in PackageJobs, Packing!WriteFiles(j)
  PROVE  PackingInv'
<1> DEFINE variants == Packing!_variants
           files0 == package[j].files
           done == Len(files0)
           more == SubSeq(variants, done + 1, Packing!EndOfBatch(done))
           written == [i \in 1 .. Len(more) |-> Packing!_prepare(more[i])]
<1>1. files0 \in Seq(FileRecord) /\ package[j] \in PackageRecord /\ FilesFit(files0)
  BY DEF PackingInv, PackageRecord, PackageFits
<1>2. done \in Nat /\ Batch \in Nat /\ Batch >= 1 /\ Len(variants) \in Nat
      /\ variants \in Seq(Packing!Languages \X Packing!Folders)
  BY <1>1, VariantsAreWhole, PackingAssumption DEF Packing!BatchAssumption
<1>3. /\ done < Len(variants) /\ package[j].thread = "running"
      /\ package' = [package EXCEPT ![j].files = files0 \o written]
      /\ UNCHANGED <<approved, visible, changed>>
  BY DEF Packing!WriteFiles, Packing!Working
<1>4. /\ more \in Seq(Packing!Languages \X Packing!Folders)
      /\ Len(more) \in Nat /\ done + Len(more) <= Len(variants)
      /\ \A i \in 1 .. Len(more) : more[i] = variants[done + i] /\ done + i \in 1 .. Len(variants)
  <2> DEFINE last == Packing!EndOfBatch(done)
  <2>1. last \in Nat /\ done + 1 <= last /\ last <= Len(variants)
    BY <1>2, <1>3 DEF Packing!EndOfBatch
  <2>2. more = SubSeq(variants, done + 1, last)
    OBVIOUS
  <2> HIDE DEF variants, done, more, last
  <2>3. /\ more \in Seq(Packing!Languages \X Packing!Folders)
        /\ Len(more) = last - done
        /\ \A i \in 1 .. last - done : more[i] = variants[done + i]
    BY <1>2, <2>1, <2>2, PartOfASequence
  <2> QED BY <1>2, <2>1, <2>3
<1> HIDE DEF variants, more, done
<1>5. /\ written \in Seq(FileRecord) /\ Len(written) = Len(more)
      /\ \A i \in 1 .. Len(more) :
           /\ <<written[i].language, written[i].folder>> = more[i]
           /\ written[i].folder = "all" => written[i].rows = PackageCodes
  <2>1. \A i \in 1 .. Len(more) : more[i] \in Packing!Languages \X Packing!Folders
    BY <1>4
  <2>2. \A i \in 1 .. Len(more) :
          /\ Packing!_prepare(more[i]) \in FileRecord
          /\ <<Packing!_prepare(more[i]).language, Packing!_prepare(more[i]).folder>> = more[i]
          /\ Packing!_prepare(more[i]).folder = "all" => Packing!_prepare(more[i]).rows = PackageCodes
    BY <2>1, PreparedFits
  <2> QED BY <2>2, <1>4
<1> HIDE DEF written
<1> DEFINE all == files0 \o written
<1> HIDE DEF files0
<1>6. /\ all \in Seq(FileRecord) /\ Len(all) = done + Len(more)
      /\ \A i \in 1 .. done : all[i] = files0[i]
      /\ \A i \in 1 .. Len(more) : all[done + i] = written[i]
  <2>1. files0 \in Seq(FileRecord) /\ written \in Seq(FileRecord) /\ Len(written) = Len(more)
    BY <1>1, <1>5
  <2>2. /\ files0 \o written \in Seq(FileRecord)
        /\ Len(files0 \o written) = Len(files0) + Len(written)
        /\ \A i \in 1 .. Len(files0) : (files0 \o written)[i] = files0[i]
        /\ \A i \in 1 .. Len(written) : (files0 \o written)[Len(files0) + i] = written[i]
    <3> HIDE DEF all
    <3> QED BY <2>1
  <2> QED BY <2>1, <2>2 DEF done
<1> HIDE DEF all
<1>7. FilesFit(all)
  <2>1. ASSUME NEW i \in 1 .. Len(all)
        PROVE  /\ <<all[i].language, all[i].folder>> = variants[i]
               /\ all[i].folder = "all" => all[i].rows = PackageCodes
    <3>1. CASE i \in 1 .. done
      BY <3>1, <1>1, <1>6 DEF FilesFit, done, variants
    <3>2. CASE i \in done + 1 .. done + Len(more)
      <4>1. PICK m \in 1 .. Len(more) : i = done + m
        <5>1. i - done \in 1 .. Len(more) /\ i = done + (i - done)
          BY <3>2, <1>2, <1>4
        <5> QED BY <5>1
      <4> QED BY <4>1, <1>4, <1>5, <1>6
    <3> QED BY <3>1, <3>2, <1>2, <1>4, <1>6
  <2> QED BY <2>1, <1>4, <1>6 DEF FilesFit, variants
<1> DEFINE new == [package[j] EXCEPT !.files = all]
<1>8. /\ new \in PackageRecord /\ new.files = all /\ new.thread = "running"
      /\ new.status = package[j].status
  BY <1>1, <1>3, <1>6 DEF PackageRecord
<1>9. package' = [package EXCEPT ![j] = new]
  BY <1>3 DEF all
<1>10. new.status = "PENDING"
  BY <1>3, <1>8 DEF PackingInv, PackageFits
<1> HIDE DEF new
<1> QED BY <1>3, <1>7, <1>8, <1>9, <1>10, OnePackageKeeps

LEMMA PackageWorkKeeps ==
  ASSUME PackingInv, NEW j \in PackageJobs, Packing!request(j) \/ Packing!Work(j)
  PROVE  PackingInv'
<1>1. /\ package[j] \in PackageRecord /\ FilesFit(package[j].files) /\ PackageFits(j)
      /\ package[j].files \in Seq(FileRecord)
  BY DEF PackingInv, PackageFits, PackageRecord
<1>2. CASE Packing!request(j)
  <2> DEFINE new == [package[j] EXCEPT !.status = "PENDING", !.thread = "starting"]
  <2>1. /\ new \in PackageRecord /\ new.files = package[j].files /\ new.status = "PENDING"
        /\ package' = [package EXCEPT ![j] = new] /\ UNCHANGED <<approved, visible, changed>>
    BY <1>1, <1>2 DEF Packing!request, PackageRecord
  <2> HIDE DEF new
  <2> QED BY <2>1, <1>1, OnePackageKeeps
<1>3. CASE Packing!StartThread(j)
  <2> DEFINE counted == [l \in Packing!Languages |->
                           IF l = Source THEN PackageCodes ELSE Packing!approved_for(l)]
             new == [package[j] EXCEPT !.thread = "running", !.coverage = counted]
  <2>1. counted \in [Packing!Languages -> SUBSET PackageCodes]
    BY DEF Packing!approved_for
  <2>2. package' = [package EXCEPT ![j].thread = "running", ![j].coverage = counted]
    BY <1>3 DEF Packing!StartThread
  <2>3. package[j].status = "PENDING"
    BY <1>1, <1>3 DEF Packing!StartThread, PackageFits
  <2> HIDE DEF counted
  <2>4. /\ new \in PackageRecord /\ new.files = package[j].files /\ new.status = "PENDING"
        /\ package' = [package EXCEPT ![j] = new]
    BY <1>1, <2>1, <2>2, <2>3 DEF PackageRecord
  <2>5. UNCHANGED <<approved, visible, changed>>
    BY <1>3 DEF Packing!StartThread
  <2> HIDE DEF new
  <2> QED BY <2>4, <2>5, <1>1, OnePackageKeeps
<1>4. CASE Packing!WriteFiles(j)
  BY <1>4, WriteFilesKeeps
<1>5. CASE Packing!Complete(j)
  <2> DEFINE new == [package[j] EXCEPT !.status = "COMPLETE", !.thread = "gone"]
  <2>1. /\ new \in PackageRecord /\ new.files = package[j].files /\ new.thread = "gone"
        /\ package' = [package EXCEPT ![j] = new] /\ UNCHANGED <<approved, visible, changed>>
    BY <1>1, <1>5 DEF Packing!Complete, PackageRecord
  <2>2. Len(package[j].files) >= Len(Packing!_variants)
    BY <1>5 DEF Packing!Complete
  <2>3. Len(package[j].files) = Len(Packing!_variants)
    <3>1. Len(Packing!_variants) \in Nat /\ Len(package[j].files) \in Nat
      BY <1>1, VariantsAreWhole
    <3>2. Len(package[j].files) <= Len(Packing!_variants)
      BY <1>1 DEF FilesFit
    <3> QED BY <2>2, <3>1, <3>2
  <2> HIDE DEF new
  <2> QED BY <2>1, <2>3, <1>1, OnePackageKeeps
<1>6. CASE Packing!Fail(j)
  <2> DEFINE new == [package[j] EXCEPT !.status = "FAILED", !.thread = "gone"]
  <2>1. /\ new \in PackageRecord /\ new.files = package[j].files /\ new.thread = "gone"
        /\ new.status = "FAILED"
        /\ package' = [package EXCEPT ![j] = new] /\ UNCHANGED <<approved, visible, changed>>
    BY <1>1, <1>6 DEF Packing!Fail, PackageRecord
  <2> HIDE DEF new
  <2> QED BY <2>1, <1>1, OnePackageKeeps
<1> QED BY <1>2, <1>3, <1>4, <1>5, <1>6 DEF Packing!Work

LEMMA PackageChangeKeeps ==
  ASSUME PackingInv, Packing!Change
  PROVE  PackingInv'
<1>1. package' = package /\ changed' \in 0 .. MaxChanges
  BY PackingAssumption DEF Packing!Change, PackingInv, Packing!BatchAssumption
<1>2. approved' \subseteq PackageCodes \X OtherLanguages /\ visible' \subseteq PackageCodes
  <2>1. CASE UNCHANGED visible /\ \E c \in PackageCodes, l \in OtherLanguages :
               approved' = IF <<c, l>> \in approved THEN approved \ {<<c, l>>}
                           ELSE approved \union {<<c, l>>}
    BY <2>1 DEF PackingInv
  <2>2. CASE UNCHANGED approved /\ \E c \in PackageCodes :
               visible' = IF c \in visible THEN visible \ {c} ELSE visible \union {c}
    BY <2>2 DEF PackingInv
  <2> QED BY <2>1, <2>2 DEF Packing!Change
<1> QED BY <1>1, <1>2 DEF PackingInv, PackageFits

LEMMA PackageRestartKeeps ==
  ASSUME PackingInv, Packing!Restart
  PROVE  PackingInv'
<1>1. UNCHANGED <<approved, visible, changed>>
  BY DEF Packing!Restart
<1>2. ASSUME NEW j \in PackageJobs
      PROVE  /\ package'[j] \in PackageRecord /\ package'[j].files = package[j].files
             /\ package'[j].status = package[j].status
             /\ package'[j].thread \in {package[j].thread, "gone"}
  <2>1. package[j] \in PackageRecord
    BY DEF PackingInv
  <2> QED BY <2>1 DEF Packing!Restart, PackageRecord
<1>3. package' \in [PackageJobs -> PackageRecord]
  <2>1. package' = [j \in PackageJobs |-> package'[j]]
    BY DEF Packing!Restart
  <2> QED BY <2>1, <1>2
<1>4. \A j \in PackageJobs : PackageFits(j)'
  BY <1>2 DEF PackingInv, PackageFits
<1> QED BY <1>1, <1>3, <1>4 DEF PackingInv

LEMMA PackingSteps ==
  ASSUME PackingInv, [Packing!Next]_packing
  PROVE  PackingInv'
<1>1. CASE UNCHANGED packing
  BY <1>1 DEF packing, PackingInv, PackageFits
<1>2. CASE Packing!Next
  BY <1>2, PackageWorkKeeps, PackageChangeKeeps, PackageRestartKeeps DEF Packing!Next
<1> QED BY <1>1, <1>2

LEMMA PackagesAreSound ==
  ASSUME PackingInv
  PROVE  Packing!PackagesTypeOK /\ Packing!CompleteIsWhole
<1>1. ASSUME NEW j \in PackageJobs
      PROVE  /\ package[j] \in PackageRecord /\ package[j].files \in Seq(FileRecord)
             /\ \A i \in 1 .. Len(package[j].files) : package[j].files[i] \in FileRecord
  <2>1. package[j] \in PackageRecord
    BY DEF PackingInv
  <2>2. package[j].files \in Seq(FileRecord)
    BY <2>1 DEF PackageRecord
  <2> QED BY <2>1, <2>2
<1>2. Packing!PackagesTypeOK
  <2>1. ASSUME NEW j \in PackageJobs
        PROVE  /\ package[j].status \in {"none", "PENDING", "COMPLETE", "FAILED"}
               /\ package[j].thread \in {"starting", "running"} => package[j].status = "PENDING"
               /\ \A i \in 1 .. Len(package[j].files) : package[j].files[i].rows \subseteq PackageCodes
    BY <1>1 DEF PackageRecord, FileRecord, PackingInv, PackageFits
  <2> QED BY <2>1 DEF PackingInv, Packing!PackagesTypeOK
<1>3. ASSUME NEW j \in PackageJobs, package[j].status = "COMPLETE",
             NEW v \in Packing!Languages \X Packing!Folders
      PROVE  Packing!Cardinality({i \in 1 .. Len(package[j].files) :
               <<package[j].files[i].language, package[j].files[i].folder>> = v}) = 1
  <2> DEFINE done == package[j].files
             of == {i \in 1 .. Len(done) : <<done[i].language, done[i].folder>> = v}
             variants == Packing!_variants
  <2>1. Len(done) = Len(variants) /\ \A i \in 1 .. Len(done) : <<done[i].language, done[i].folder>> = variants[i]
    BY <1>3 DEF PackingInv, PackageFits, FilesFit
  <2>2. PICK i \in 1 .. Len(variants) : variants[i] = v
    BY VariantsAreWhole
  <2>3. of = {i}
    <3>1. \A k \in 1 .. Len(variants) : variants[k] = v => k = i
      BY <2>2, VariantsAreWhole
    <3> HIDE DEF variants
    <3> QED BY <2>1, <2>2, <3>1
  <2> HIDE DEF of
  <2>4. Cardinality(of) = 1
    BY <2>3, FS_Singleton
  <2> QED BY <2>4 DEF of, Packing!Cardinality, Cardinality
<1>4. Packing!CompleteIsWhole
  BY <1>3 DEF PackingInv, PackageFits, FilesFit, Packing!CompleteIsWhole
<1> QED BY <1>2, <1>4

-----------------------------------------------------------------------------
(* Subscribers.  Who is still to be told of a Release was not called about *)
(* it, and nothing is recorded of a call that is not answered.             *)

Steps == {"building", "published", "next", "calling", "answered", "done", "broken", "dead"}

Round == [at : Steps, todo : Seq(Hooks), answer : Answers \union {"none"}]

Delivery == [release : Releases, hook : Hooks, ok : BOOLEAN]

TellingTypes ==
  /\ DOMAIN active \subseteq Hooks
  /\ dispatcher \in [Releases -> Round]
  /\ called \in [Releases -> [Hooks -> 0 .. 1]]
  /\ deliveries \in Seq(Delivery)
  /\ holder \in Releases \union {Telling!NoHolder}
  /\ admin \in 0 .. MaxAdmin

\* The request of a publication: it holds the lock while it calls, has a hook to call, and
\* did not call those that are left.
RoundFits(r) ==
  LET round == dispatcher[r] IN
  /\ round.at \in {"calling", "answered"} => holder = r /\ round.todo # <<>>
  /\ holder = r => round.at \in {"next", "calling", "answered"}
  /\ round.at \in {"building", "published"} => \A h \in Hooks : called[r][h] = 0
  /\ \A i, k \in 1 .. Len(round.todo) : i # k => round.todo[i] # round.todo[k]
  /\ round.at \in {"next", "calling"} =>
       \A i \in 1 .. Len(round.todo) : called[r][round.todo[i]] = 0
  /\ round.at = "answered" =>
       \A i \in 1 .. Len(round.todo) : called[r][round.todo[i]] = IF i = 1 THEN 1 ELSE 0

\* What is recorded was called, once, and is done with.
RecordsFit ==
  /\ \A i \in 1 .. Len(deliveries) : called[deliveries[i].release][deliveries[i].hook] = 1
  /\ \A i, k \in 1 .. Len(deliveries) :
       /\ deliveries[i].release = deliveries[k].release
       /\ deliveries[i].hook = deliveries[k].hook
       => i = k
  /\ \A i \in 1 .. Len(deliveries) :
       LET round == dispatcher[deliveries[i].release] IN
       round.at = "answered" => deliveries[i].hook # round.todo[1]

TellingInv == TellingTypes /\ (\A r \in Releases : RoundFits(r)) /\ RecordsFit

LEMMA TellingBegins == Telling!Init => TellingInv
<1> SUFFICES ASSUME Telling!Init PROVE TellingInv
  OBVIOUS
<1> USE TellingAssumption DEF Telling!HooksAssumption, Telling!Init
<1>1. TellingTypes
  BY DEF TellingTypes, Round, Steps
<1>2. RecordsFit
  BY DEF RecordsFit
<1>3. \A r \in Releases : RoundFits(r)
  BY DEF RoundFits
<1> QED BY <1>1, <1>2, <1>3 DEF TellingInv

\* A step that calls nobody and records nothing, for one request: what it has yet to tell stays
\* or it is over.
LEMMA AdministrationKeeps ==
  ASSUME TellingInv, NEW h \in Hooks, Telling!create(h) \/ Telling!set_active(h)
  PROVE  TellingInv'
<1>1. admin' \in 0 .. MaxAdmin
  BY TellingAssumption DEF Telling!HooksAssumption, Telling!create, Telling!set_active,
     Telling!Administrate, TellingInv, TellingTypes
<1>2. DOMAIN active' \subseteq Hooks
  BY DEF Telling!create, Telling!set_active, TellingInv, TellingTypes
<1>3. UNCHANGED <<dispatcher, called, deliveries, holder>>
  BY DEF Telling!create, Telling!set_active, Telling!Administrate
<1> QED BY <1>1, <1>2, <1>3 DEF TellingInv, TellingTypes, RoundFits, RecordsFit

LEMMA PublishKeeps ==
  ASSUME TellingInv, NEW r \in Releases, Telling!publish(r)
  PROVE  TellingInv'
<1> USE DEF Telling!publish, Telling!At, TellingInv
<1>1. dispatcher' \in [Releases -> Round] /\ dispatcher'[r].at = "published"
      /\ dispatcher'[r].todo = dispatcher[r].todo
      /\ \A q \in Releases \ {r} : dispatcher'[q] = dispatcher[q]
  BY DEF TellingTypes, Round, Steps
<1>2. TellingTypes'
  BY <1>1 DEF TellingTypes
<1>3. \A q \in Releases : RoundFits(q)'
  BY <1>1 DEF RoundFits
<1>4. RecordsFit'
  BY <1>1 DEF RecordsFit, RoundFits, TellingTypes, Delivery
<1> QED BY <1>2, <1>3, <1>4

LEMMA DispatchKeeps ==
  ASSUME TellingInv, NEW r \in Releases, Telling!dispatch(r)
  PROVE  TellingInv'
<1> USE DEF TellingInv
<1> DEFINE subscribed == {h \in DOMAIN active : active[h]}
<1>1. PICK hooks \in Telling!SetToSeqs(subscribed) :
        dispatcher' = [dispatcher EXCEPT ![r].at = "next", ![r].todo = hooks]
  BY DEF Telling!dispatch
<1>2. /\ hooks \in Seq(Hooks)
      /\ \A i, k \in 1 .. Len(hooks) : i # k => hooks[i] # hooks[k]
  <2>1. subscribed \subseteq Hooks
    BY DEF TellingTypes
  <2>2. IsFiniteSet(subscribed)
    <3>1. IsFiniteSet(Hooks)
      BY TellingAssumption DEF Telling!HooksAssumption, Telling!IsFiniteSet, IsFiniteSet
    <3> QED BY <2>1, <3>1, FS_Subset
  <2>3. Cardinality(subscribed) \in Nat
    BY <2>2, FS_CardinalityType
  <2>4. /\ hooks \in [1 .. Cardinality(subscribed) -> subscribed]
        /\ \A i, k \in 1 .. Cardinality(subscribed) : i # k => hooks[i] # hooks[k]
    BY <1>1 DEF Telling!SetToSeqs, Telling!Cardinality, Cardinality
  <2> HIDE DEF subscribed
  <2> QED BY <2>1, <2>3, <2>4
<1>3. dispatcher' \in [Releases -> Round] /\ dispatcher'[r].at = "next"
      /\ dispatcher'[r].todo = hooks
      /\ \A q \in Releases \ {r} : dispatcher'[q] = dispatcher[q]
  BY <1>1, <1>2 DEF TellingTypes, Round, Steps
<1>4. UNCHANGED <<active, called, deliveries, admin>> /\ holder' = r
      /\ dispatcher[r].at = "published" /\ holder = Telling!NoHolder
  BY DEF Telling!dispatch, Telling!At
<1>5. TellingTypes'
  BY <1>3, <1>4 DEF TellingTypes
<1>6. \A q \in Releases : RoundFits(q)'
  <2>1. RoundFits(r)'
    BY <1>2, <1>3, <1>4 DEF RoundFits
  <2>2. ASSUME NEW q \in Releases \ {r} PROVE RoundFits(q)'
    <3>1. dispatcher'[q] = dispatcher[q] /\ called' = called /\ q # r
      BY <1>3, <1>4
    <3>2. holder # q /\ holder' # q
      BY <1>4, TellingAssumption DEF Telling!HooksAssumption
    <3>3. RoundFits(q)
      OBVIOUS
    <3> QED BY <3>1, <3>2, <3>3 DEF RoundFits
  <2> QED BY <2>1, <2>2
<1>7. RecordsFit'
  <2>1. \A i \in 1 .. Len(deliveries) : deliveries[i] \in Delivery
    BY DEF TellingTypes
  <2>2. ASSUME NEW i \in 1 .. Len(deliveries)
        PROVE  dispatcher'[deliveries[i].release].at = "answered" =>
                 deliveries[i].hook # dispatcher'[deliveries[i].release].todo[1]
    BY <2>1, <1>3 DEF Delivery, RecordsFit
  <2> QED BY <2>2, <1>4 DEF RecordsFit
<1> QED BY <1>5, <1>6, <1>7

LEMMA NextHookKeeps ==
  ASSUME TellingInv, NEW r \in Releases, Telling!NextHook(r)
  PROVE  TellingInv'
<1> USE DEF TellingInv
<1>1. /\ dispatcher[r].at = "next" /\ UNCHANGED <<active, called, deliveries, admin>>
      /\ holder \in {Telling!NoHolder, r} /\ holder' \in {Telling!NoHolder, r}
  BY DEF Telling!NextHook, Telling!At
<1>2. /\ dispatcher' \in [Releases -> Round] /\ dispatcher'[r].todo = dispatcher[r].todo
      /\ \A q \in Releases \ {r} : dispatcher'[q] = dispatcher[q]
      /\ \/ dispatcher'[r].at = "done" /\ holder' = Telling!NoHolder
         \/ dispatcher'[r].at = "calling" /\ holder' = r /\ dispatcher[r].todo # <<>>
  <2>1. CASE dispatcher[r].todo = <<>>
    <3>1. dispatcher' = [dispatcher EXCEPT ![r].at = "done"] /\ holder' = Telling!NoHolder
      BY <2>1 DEF Telling!NextHook
    <3> QED BY <3>1, <2>1 DEF TellingTypes, Round, Steps
  <2>2. CASE dispatcher[r].todo # <<>>
    <3>1. dispatcher' = [dispatcher EXCEPT ![r].at = "calling"] /\ holder' = r
      BY <2>2 DEF Telling!NextHook
    <3> QED BY <3>1, <2>2 DEF TellingTypes, Round, Steps
  <2> QED BY <2>1, <2>2
<1>3. TellingTypes'
  BY <1>1, <1>2 DEF TellingTypes
<1>4. \A q \in Releases : RoundFits(q)'
  <2>1. RoundFits(r)'
    BY <1>1, <1>2, TellingAssumption DEF RoundFits, Telling!HooksAssumption
  <2>2. ASSUME NEW q \in Releases \ {r} PROVE RoundFits(q)'
    <3>1. dispatcher'[q] = dispatcher[q] /\ called' = called /\ q # r
      BY <1>1, <1>2
    <3>2. holder # q /\ holder' # q
      BY <1>1, TellingAssumption DEF Telling!HooksAssumption
    <3>3. RoundFits(q)
      OBVIOUS
    <3> QED BY <3>1, <3>2, <3>3 DEF RoundFits
  <2> QED BY <2>1, <2>2
<1>5. RecordsFit'
  <2>1. \A i \in 1 .. Len(deliveries) : deliveries[i] \in Delivery
    BY DEF TellingTypes
  <2>2. ASSUME NEW i \in 1 .. Len(deliveries)
        PROVE  dispatcher'[deliveries[i].release].at = "answered" =>
                 deliveries[i].hook # dispatcher'[deliveries[i].release].todo[1]
    BY <2>1, <1>2 DEF Delivery, RecordsFit
  <2> QED BY <2>2, <1>1 DEF RecordsFit
<1> QED BY <1>3, <1>4, <1>5

LEMMA CallKeeps ==
  ASSUME TellingInv, NEW r \in Releases, Telling!Call(r)
  PROVE  TellingInv'
<1> USE DEF TellingInv
<1> DEFINE hook == dispatcher[r].todo[1]
<1>1. /\ dispatcher[r].at = "calling" /\ UNCHANGED <<active, holder, deliveries, admin>>
      /\ holder = r /\ dispatcher[r].todo # <<>> /\ dispatcher[r].todo \in Seq(Hooks)
      /\ hook \in Hooks /\ called[r][hook] = 0
  <2>1. dispatcher[r].at = "calling" /\ UNCHANGED <<active, holder, deliveries, admin>>
    BY DEF Telling!Call, Telling!At
  <2>2. holder = r /\ dispatcher[r].todo # <<>>
    BY <2>1 DEF RoundFits
  <2>3. dispatcher[r].todo \in Seq(Hooks)
    BY DEF TellingTypes, Round
  <2>4. hook \in Hooks /\ 1 \in 1 .. Len(dispatcher[r].todo)
    BY <2>2, <2>3
  <2>5. called[r][hook] = 0
    BY <2>1, <2>4 DEF RoundFits
  <2> QED BY <2>1, <2>2, <2>3, <2>4, <2>5
<1>2. /\ called' = [called EXCEPT ![r][hook] = @ + 1]
      /\ \E answer \in Answers :
           dispatcher' = [dispatcher EXCEPT ![r].at = "answered", ![r].answer = answer]
  <2>1. Head(dispatcher[r].todo) = hook
    BY <1>1
  <2> QED BY <2>1 DEF Telling!Call
<1>3. /\ called' \in [Releases -> [Hooks -> 0 .. 1]]
      /\ called'[r][hook] = 1
      /\ \A h \in Hooks \ {hook} : called'[r][h] = called[r][h]
      /\ \A q \in Releases \ {r} : called'[q] = called[q]
  BY <1>1, <1>2 DEF TellingTypes
<1>4. /\ dispatcher' \in [Releases -> Round] /\ dispatcher'[r].at = "answered"
      /\ dispatcher'[r].todo = dispatcher[r].todo
      /\ \A q \in Releases \ {r} : dispatcher'[q] = dispatcher[q]
  <2>1. PICK answer \in Answers :
          dispatcher' = [dispatcher EXCEPT ![r].at = "answered", ![r].answer = answer]
    BY <1>2
  <2> QED BY <2>1 DEF TellingTypes, Round, Steps
<1>5. TellingTypes'
  BY <1>1, <1>3, <1>4 DEF TellingTypes
<1>6. \A q \in Releases : RoundFits(q)'
  <2>1. RoundFits(r)'
    <3>1. \A i \in 1 .. Len(dispatcher[r].todo) :
            called'[r][dispatcher[r].todo[i]] = IF i = 1 THEN 1 ELSE 0
      BY <1>1, <1>3 DEF RoundFits
    <3> QED BY <1>1, <1>4, <3>1 DEF RoundFits
  <2>2. ASSUME NEW q \in Releases \ {r} PROVE RoundFits(q)'
    BY <1>1, <1>3, <1>4 DEF RoundFits
  <2> QED BY <2>1, <2>2
<1>7. RecordsFit'
  <2>1. \A i \in 1 .. Len(deliveries) : deliveries[i] \in Delivery
    BY DEF TellingTypes
  <2>2. ASSUME NEW i \in 1 .. Len(deliveries)
        PROVE  /\ called'[deliveries[i].release][deliveries[i].hook] = 1
               /\ dispatcher'[deliveries[i].release].at = "answered" =>
                    deliveries[i].hook # dispatcher'[deliveries[i].release].todo[1]
    <3>1. deliveries[i].release \in Releases /\ deliveries[i].hook \in Hooks
      BY <2>1 DEF Delivery
    <3>2. called[deliveries[i].release][deliveries[i].hook] = 1
      BY DEF RecordsFit
    <3>3. ~(deliveries[i].release = r /\ deliveries[i].hook = hook)
      BY <3>2, <1>1
    <3>4. CASE deliveries[i].release = r
      BY <3>1, <3>2, <3>3, <3>4, <1>3, <1>4
    <3>5. CASE deliveries[i].release # r
      BY <3>1, <3>2, <3>5, <1>3, <1>4 DEF RecordsFit
    <3> QED BY <3>4, <3>5
  <2> QED BY <2>2, <1>1 DEF RecordsFit
<1> QED BY <1>5, <1>6, <1>7

LEMMA RecordKeeps ==
  ASSUME TellingInv, NEW r \in Releases, Telling!Record(r)
  PROVE  TellingInv'
<1> USE DEF TellingInv
<1> DEFINE todo == dispatcher[r].todo
           delivery == [release |-> r, hook |-> todo[1], ok |-> dispatcher[r].answer = "ok"]
<1>1. /\ dispatcher[r].at = "answered" /\ UNCHANGED <<active, called, admin>>
      /\ holder = r /\ holder' = Telling!NoHolder /\ todo \in Seq(Hooks) /\ todo # <<>>
      /\ todo[1] \in Hooks /\ called[r][todo[1]] = 1
  BY DEF Telling!Record, Telling!At, RoundFits, TellingTypes, Round
<1>2. deliveries' = Append(deliveries, delivery) /\ delivery \in Delivery
  BY <1>1 DEF Telling!Record, Delivery
<1>3. /\ dispatcher' \in [Releases -> Round] /\ dispatcher'[r].at = "next"
      /\ dispatcher'[r].todo = Tail(todo)
      /\ \A q \in Releases \ {r} : dispatcher'[q] = dispatcher[q]
  BY <1>1 DEF Telling!Record, TellingTypes, Round, Steps
<1>4. /\ deliveries \in Seq(Delivery) /\ deliveries' \in Seq(Delivery)
      /\ Len(deliveries') = Len(deliveries) + 1 /\ deliveries'[Len(deliveries) + 1] = delivery
      /\ \A i \in 1 .. Len(deliveries) : deliveries'[i] = deliveries[i] /\ deliveries[i] \in Delivery
  BY <1>2 DEF TellingTypes
<1>5. TellingTypes'
  BY <1>1, <1>3, <1>4 DEF TellingTypes
<1>6. \A q \in Releases : RoundFits(q)'
  <2>1. RoundFits(r)'
    <3> DEFINE rest == Tail(todo)
    <3>1. /\ Len(rest) = Len(todo) - 1 /\ Len(rest) \in Nat
          /\ \A i \in 1 .. Len(rest) : rest[i] = todo[i + 1] /\ i + 1 \in 1 .. Len(todo)
      BY <1>1
    <3>2. \A i \in 1 .. Len(rest) : called[r][rest[i]] = 0
      BY <1>1, <3>1 DEF RoundFits
    <3>3. \A i, k \in 1 .. Len(rest) : i # k => rest[i] # rest[k]
      BY <1>1, <3>1 DEF RoundFits
    <3>4. holder' # r
      BY <1>1, TellingAssumption DEF Telling!HooksAssumption
    <3> QED BY <1>1, <1>3, <3>2, <3>3, <3>4 DEF RoundFits
  <2>2. ASSUME NEW q \in Releases \ {r} PROVE RoundFits(q)'
    <3>1. dispatcher'[q] = dispatcher[q] /\ called' = called
      BY <1>1, <1>3
    <3>2. holder # q /\ holder' # q
      BY <1>1, TellingAssumption DEF Telling!HooksAssumption
    <3> QED BY <3>1, <3>2 DEF RoundFits
  <2> QED BY <2>1, <2>2
<1>7. RecordsFit'
  <2>1. ASSUME NEW i \in 1 .. Len(deliveries) + 1
        PROVE  /\ called[deliveries'[i].release][deliveries'[i].hook] = 1
               /\ dispatcher'[deliveries'[i].release].at = "answered" =>
                    deliveries'[i].hook # dispatcher'[deliveries'[i].release].todo[1]
    <3>1. CASE i = Len(deliveries) + 1
      BY <3>1, <1>1, <1>3, <1>4
    <3>2. CASE i \in 1 .. Len(deliveries)
      BY <3>2, <1>3, <1>4 DEF RecordsFit, Delivery
    <3> QED BY <3>1, <3>2, <1>4
  <2>2. ASSUME NEW i \in 1 .. Len(deliveries)
        PROVE  ~(deliveries[i].release = r /\ deliveries[i].hook = todo[1])
    BY <1>1 DEF RecordsFit
  <2>3. ASSUME NEW i \in 1 .. Len(deliveries) + 1, NEW k \in 1 .. Len(deliveries) + 1,
               deliveries'[i].release = deliveries'[k].release,
               deliveries'[i].hook = deliveries'[k].hook
        PROVE  i = k
    <3>1. CASE i \in 1 .. Len(deliveries) /\ k \in 1 .. Len(deliveries)
      BY <3>1, <2>3, <1>4 DEF RecordsFit
    <3>2. CASE i \in 1 .. Len(deliveries) /\ k = Len(deliveries) + 1
      BY <3>2, <2>2, <2>3, <1>4
    <3>3. CASE i = Len(deliveries) + 1 /\ k \in 1 .. Len(deliveries)
      BY <3>3, <2>2, <2>3, <1>4
    <3> QED BY <3>1, <3>2, <3>3, <1>4
  <2> QED BY <2>1, <2>3, <1>1, <1>4 DEF RecordsFit
<1> QED BY <1>5, <1>6, <1>7

\* The round is over, however: what was recorded stays.
LEMMA RoundEnds ==
  ASSUME TellingInv, NEW r \in Releases, Telling!BreakOff(r) \/ Telling!Die(r)
  PROVE  TellingInv'
<1> USE DEF TellingInv
<1>1. /\ UNCHANGED <<active, called, deliveries, admin>>
      /\ holder' = IF holder = r THEN Telling!NoHolder ELSE holder
      /\ dispatcher' \in [Releases -> Round] /\ dispatcher'[r].at \in {"broken", "dead"}
      /\ dispatcher'[r].todo = dispatcher[r].todo
      /\ \A q \in Releases \ {r} : dispatcher'[q] = dispatcher[q]
  <2>1. CASE Telling!BreakOff(r)
    <3>1. holder = r
      BY <2>1 DEF Telling!BreakOff, Telling!At, RoundFits
    <3> QED BY <2>1, <3>1 DEF Telling!BreakOff, TellingTypes, Round, Steps
  <2>2. CASE Telling!Die(r)
    BY <2>2 DEF Telling!Die, TellingTypes, Round, Steps
  <2> QED BY <2>1, <2>2
<1>2. holder' \in Releases \union {Telling!NoHolder} /\ holder' # r
  BY <1>1, TellingAssumption DEF TellingTypes, Telling!HooksAssumption
<1>3. TellingTypes'
  BY <1>1, <1>2 DEF TellingTypes
<1>4. \A q \in Releases : RoundFits(q)'
  <2>1. RoundFits(r)'
    BY <1>1, <1>2 DEF RoundFits
  <2>2. ASSUME NEW q \in Releases \ {r} PROVE RoundFits(q)'
    <3>1. dispatcher'[q] = dispatcher[q] /\ called' = called /\ (holder' = q <=> holder = q)
      BY <1>1, TellingAssumption DEF Telling!HooksAssumption
    <3>2. RoundFits(q)
      OBVIOUS
    <3> QED BY <3>1, <3>2 DEF RoundFits
  <2> QED BY <2>1, <2>2
<1>5. RecordsFit'
  <2>1. \A i \in 1 .. Len(deliveries) : deliveries[i] \in Delivery
    BY DEF TellingTypes
  <2>2. ASSUME NEW i \in 1 .. Len(deliveries)
        PROVE  dispatcher'[deliveries[i].release].at = "answered" =>
                 deliveries[i].hook # dispatcher'[deliveries[i].release].todo[1]
    BY <2>1, <1>1 DEF Delivery, RecordsFit
  <2> QED BY <2>2, <1>1 DEF RecordsFit
<1> QED BY <1>3, <1>4, <1>5

LEMMA TellingSteps ==
  ASSUME TellingInv, [Telling!Next]_telling
  PROVE  TellingInv'
<1>1. CASE UNCHANGED telling
  BY <1>1 DEF telling, TellingInv, TellingTypes, RoundFits, RecordsFit
<1>2. CASE Telling!Next
  BY <1>2, AdministrationKeeps, PublishKeeps, DispatchKeeps, NextHookKeeps, CallKeeps,
     RecordKeeps, RoundEnds
     DEF Telling!Next, Telling!Begin, Telling!Go
<1> QED BY <1>1, <1>2

\* A set that has one member at most.
LEMMA OneAtMost ==
  ASSUME NEW S, IsFiniteSet(S), \A x, y \in S : x = y
  PROVE  Cardinality(S) \in {0, 1}
<1>1. CASE S = {}
  BY <1>1, FS_EmptySet
<1>2. CASE S # {}
  <2>1. PICK x \in S : TRUE
    BY <1>2
  <2>2. S = {x}
    BY <2>1
  <2> QED BY <2>2, FS_Singleton
<1> QED BY <1>1, <1>2

LEMMA TellingIsSound ==
  ASSUME TellingInv
  PROVE  Telling!WebhooksTypeOK /\ Telling!ToldOnceAndRecorded
<1>1. Telling!WebhooksTypeOK
  BY DEF TellingInv, TellingTypes, Round, Steps, RoundFits, Telling!WebhooksTypeOK, Telling!At
<1>2. ASSUME NEW r \in Releases, NEW h \in Hooks
      PROVE  called[r][h] <= 1 /\ Telling!Cardinality(Telling!Recorded(r, h)) <= called[r][h]
  <2> DEFINE recorded == {i \in DOMAIN deliveries : deliveries[i].release = r /\ deliveries[i].hook = h}
  <2>1. called[r][h] \in {0, 1}
    BY DEF TellingInv, TellingTypes
  <2>2. DOMAIN deliveries = 1 .. Len(deliveries) /\ Len(deliveries) \in Nat
    BY DEF TellingInv, TellingTypes
  <2>3. IsFiniteSet(recorded)
    <3>1. recorded \subseteq 1 .. Len(deliveries)
      BY <2>2
    <3>2. IsFiniteSet(1 .. Len(deliveries))
      BY <2>2, FS_Interval
    <3> QED BY <3>1, <3>2, FS_Subset
  <2>4. \A i, k \in recorded : i = k
    BY <2>2 DEF TellingInv, RecordsFit
  <2>5. recorded # {} => called[r][h] = 1
    BY <2>2 DEF TellingInv, RecordsFit
  <2>6. Cardinality(recorded) \in {0, 1}
    BY <2>3, <2>4, OneAtMost
  <2>7. recorded = {} => Cardinality(recorded) = 0
    BY FS_EmptySet
  <2>8. Telling!Cardinality(Telling!Recorded(r, h)) = Cardinality(recorded)
    BY DEF Telling!Cardinality, Cardinality, Telling!Recorded
  <2> HIDE DEF recorded
  <2> QED BY <2>1, <2>5, <2>6, <2>7, <2>8
<1> QED BY <1>1, <1>2 DEF Telling!ToldOnceAndRecorded

-----------------------------------------------------------------------------
(* The feed.  The log only grows, every entry is about a revision that is  *)
(* there, and a reader of the feed got the entries up to its cursor.       *)

LifeStates == {"APPROVED", "RELEASED", "DEPRECATED", "ARCHIVED"}

Entry ==
  [action : {"DEPRECATE", "ARCHIVE", "REINSTATE", "RELEASE_PUBLISH"},
   revision : FeedCodes \X (1 .. FeedRevisions)]

FeedRelease ==
  [status : {"BUILDING", "PUBLISHED"}, at : Nat, items : SUBSET (FeedCodes \X (1 .. FeedRevisions))]

LogFits ==
  /\ audit \in Seq(Entry)
  /\ \A i \in 1 .. Len(audit) : audit[i].revision \in Polling!Revisions

ReaderFits ==
  /\ poller.got \in Seq(Nat)
  /\ poller.since = Len(poller.got) /\ Len(poller.got) <= Len(audit)
  /\ \A i \in 1 .. Len(poller.got) : poller.got[i] = i

ReleaseFits ==
  /\ release \in [ReleaseIds -> FeedRelease]
  /\ \A r \in ReleaseIds :
       /\ release[r].items \subseteq Polling!Revisions
       /\ release[r].at = 0 <=> release[r].status = "BUILDING"

PollingInv ==
  /\ life \in [FeedCodes -> Seq(LifeStates)]
  /\ \A c \in FeedCodes : Len(life[c]) <= FeedRevisions
  /\ ReleaseFits /\ LogFits /\ ReaderFits

LEMMA FeedIsBounded ==
  /\ IsFiniteSet(FeedCodes \X (1 .. FeedRevisions))
  /\ FeedRevisions \in Nat /\ PageSize \in Nat \ {0}
<1>1. IsFiniteSet(FeedCodes) /\ FeedRevisions \in Nat /\ PageSize \in Nat \ {0}
  BY PollingAssumption DEF Polling!LimitAssumption, Polling!IsFiniteSet, IsFiniteSet
<1>2. IsFiniteSet(1 .. FeedRevisions)
  BY <1>1, FS_Interval
<1> QED BY <1>1, <1>2, FS_Product

LEMMA PollingBegins == Polling!Init => PollingInv
<1> SUFFICES ASSUME Polling!Init PROVE PollingInv
  OBVIOUS
<1>1. audit = <<>> /\ LogFits
  BY DEF Polling!Init, LogFits
<1>2. ReaderFits
  BY <1>1 DEF Polling!Init, ReaderFits
<1>3. ReleaseFits
  BY DEF Polling!Init, ReleaseFits, FeedRelease
<1> QED BY <1>1, <1>2, <1>3, FeedIsBounded DEF Polling!Init, PollingInv

\* What LogAll adds are entries about its revisions.
LogGrowsBy(revs) ==
  /\ audit' \in Seq(Entry) /\ Len(audit) \in Nat /\ Len(audit') = Len(audit) + Cardinality(revs)
  /\ \A i \in 1 .. Len(audit) : audit'[i] = audit[i]
  /\ \A i \in 1 .. Len(audit') : i \notin 1 .. Len(audit) => audit'[i].revision \in revs

LEMMA LogGrows ==
  ASSUME audit \in Seq(Entry), NEW revs \in SUBSET (FeedCodes \X (1 .. FeedRevisions)),
         NEW action \in {"DEPRECATE", "ARCHIVE", "REINSTATE", "RELEASE_PUBLISH"},
         Polling!LogAll(action, revs)
  PROVE  LogGrowsBy(revs) /\ IsFiniteSet(revs) /\ Cardinality(revs) \in Nat
<1> DEFINE n == Cardinality(revs)
           listed == Polling!SetToSeq(revs)
           more == [i \in 1 .. n |-> [action |-> action, revision |-> listed[i]]]
<1>1. IsFiniteSet(revs) /\ n \in Nat
  BY FeedIsBounded, FS_Subset, FS_CardinalityType
<1>2. Lists(listed, revs)
  <2>1. listed = CHOOSE f \in [1 .. n -> revs] : \A a, b \in DOMAIN f : f[a] = f[b] => a = b
    BY DEF Polling!SetToSeq, Polling!IsInjective, Polling!Cardinality, Cardinality
  <2>2. \E f \in [1 .. n -> revs] : \A a, b \in DOMAIN f : f[a] = f[b] => a = b
    BY <1>1, SetsAreListed
  <2> HIDE DEF listed
  <2>3. /\ listed \in [1 .. Cardinality(revs) -> revs]
        /\ \A a, b \in DOMAIN listed : listed[a] = listed[b] => a = b
    BY <2>1, <2>2 DEF n
  <2> QED BY <2>3, <1>1, SetsAreListed
<1>3. audit' = audit \o more
  BY DEF Polling!LogAll, Polling!Cardinality, Cardinality
<1> HIDE DEF n, listed
<1>4. /\ more \in Seq(Entry) /\ Len(more) = n
      /\ \A i \in 1 .. n : more[i] \in Entry /\ more[i].revision \in revs
  <2>1. \A i \in 1 .. n : listed[i] \in revs
    BY <1>2 DEF Lists, n
  <2>2. \A i \in 1 .. n : more[i] = [action |-> action, revision |-> listed[i]]
    OBVIOUS
  <2>3. ASSUME NEW i \in 1 .. n
        PROVE  more[i] \in Entry /\ more[i].revision \in revs
    <3> DEFINE v == listed[i]
    <3>1. v \in revs /\ v \in FeedCodes \X (1 .. FeedRevisions)
      BY <2>1
    <3>2. more[i] = [action |-> action, revision |-> v]
      BY <2>2
    <3> HIDE DEF v, more
    <3> QED BY <3>1, <3>2 DEF Entry
  <2>4. DOMAIN more = 1 .. n /\ more = [i \in 1 .. n |-> more[i]]
    OBVIOUS
  <2> HIDE DEF more
  <2> QED BY <2>3, <2>4, <1>1
<1> HIDE DEF more
<1>5. /\ audit \o more \in Seq(Entry) /\ Len(audit \o more) = Len(audit) + n
      /\ \A i \in 1 .. Len(audit) : (audit \o more)[i] = audit[i]
      /\ \A i \in 1 .. n : (audit \o more)[Len(audit) + i] = more[i]
      /\ Len(audit) \in Nat
  <2>1. audit \in Seq(Entry)
    OBVIOUS
  <2> HIDE DEF Entry
  <2>2. more \in Seq(Entry) /\ Len(more) = n
    BY <1>4
  <2>3. /\ audit \o more \in Seq(Entry) /\ Len(audit \o more) = Len(audit) + Len(more)
        /\ Len(audit) \in Nat
        /\ \A i \in 1 .. Len(audit) : (audit \o more)[i] = audit[i]
        /\ \A i \in 1 .. Len(more) : (audit \o more)[Len(audit) + i] = more[i]
    BY <2>1, <2>2
  <2> QED BY ONLY <2>2, <2>3
<1>6. ASSUME NEW i \in 1 .. Len(audit'), i \notin 1 .. Len(audit)
      PROVE  audit'[i].revision \in revs
  <2>1. PICK m \in 1 .. n : i = Len(audit) + m
    <3>1. i - Len(audit) \in 1 .. n /\ i = Len(audit) + (i - Len(audit))
      BY <1>1, <1>3, <1>5, <1>6
    <3> QED BY <3>1
  <2> QED BY <2>1, <1>3, <1>4, <1>5
<1> QED BY <1>1, <1>3, <1>5, <1>6 DEF LogGrowsBy, n

\* What the steps of the governance have in common.
LEMMA FeedStep ==
  ASSUME PollingInv,
         life' \in [FeedCodes -> Seq(LifeStates)],
         \A c \in FeedCodes : Len(life[c]) <= Len(life'[c]) /\ Len(life'[c]) <= FeedRevisions,
         release' \in [ReleaseIds -> FeedRelease],
         \A r \in ReleaseIds :
           /\ release'[r].items \subseteq Polling!Revisions
           /\ release'[r].at = 0 <=> release'[r].status = "BUILDING",
         \/ UNCHANGED audit
         \/ \E revs \in SUBSET Polling!Revisions' : LogGrowsBy(revs) /\ Cardinality(revs) \in Nat,
         UNCHANGED poller
  PROVE  PollingInv'
<1>1. Polling!Revisions \subseteq Polling!Revisions'
  <2>1. \A c \in FeedCodes : Len(life[c]) \in Nat /\ Len(life'[c]) \in Nat
    BY DEF PollingInv
  <2> QED BY <2>1 DEF Polling!Revisions
<1>2. ReleaseFits'
  BY <1>1 DEF ReleaseFits
<1>3. LogFits' /\ Len(audit) \in Nat /\ Len(audit') \in Nat /\ Len(audit) <= Len(audit')
  <2>1. CASE UNCHANGED audit
    BY <2>1, <1>1 DEF PollingInv, LogFits
  <2>2. ASSUME NEW revs \in SUBSET Polling!Revisions', LogGrowsBy(revs), Cardinality(revs) \in Nat
        PROVE  LogFits' /\ Len(audit) \in Nat /\ Len(audit') \in Nat /\ Len(audit) <= Len(audit')
    <3>1. ASSUME NEW i \in 1 .. Len(audit') PROVE audit'[i].revision \in Polling!Revisions'
      <4>1. CASE i \in 1 .. Len(audit)
        BY <4>1, <2>2, <1>1 DEF LogGrowsBy, PollingInv, LogFits
      <4>2. CASE i \notin 1 .. Len(audit)
        BY <4>2, <2>2 DEF LogGrowsBy
      <4> QED BY <4>1, <4>2
    <3> QED BY <3>1, <2>2 DEF LogGrowsBy, LogFits
  <2> QED BY <2>1, <2>2
<1>4. ReaderFits'
  <2> DEFINE got == poller.got
             m == Len(got)
  <2>1. /\ got \in Seq(Nat) /\ poller.since = m /\ m <= Len(audit) /\ m \in Nat
        /\ \A i \in 1 .. m : got[i] = i
    BY DEF PollingInv, ReaderFits
  <2> HIDE DEF m
  <2>2. m <= Len(audit')
    BY <2>1, <1>3
  <2> QED BY <2>1, <2>2 DEF ReaderFits, m
<1> QED BY <1>2, <1>3, <1>4 DEF PollingInv

LEMMA GovernanceOfOne ==
  ASSUME PollingInv, NEW c \in FeedCodes,
         \/ Polling!Approve(c) \/ Polling!Deprecate(c)
         \/ Polling!archive(c) \/ Polling!reinstate(c)
  PROVE  PollingInv'
<1>1. life \in [FeedCodes -> Seq(LifeStates)] /\ life[c] \in Seq(LifeStates) /\ Len(life[c]) \in Nat
      /\ audit \in Seq(Entry) /\ FeedRevisions \in Nat
  BY FeedIsBounded DEF PollingInv, LogFits
<1>2. /\ release \in [ReleaseIds -> FeedRelease]
      /\ \A r \in ReleaseIds :
           /\ release[r].items \subseteq Polling!Revisions
           /\ release[r].at = 0 <=> release[r].status = "BUILDING"
  BY DEF PollingInv, ReleaseFits
<1>3. UNCHANGED <<release, poller>>
  BY DEF Polling!Approve, Polling!Deprecate, Polling!archive, Polling!reinstate,
     Polling!EndDeprecation
<1>4. ASSUME NEW s \in Seq(LifeStates), Len(life[c]) <= Len(s), Len(s) <= FeedRevisions,
             life' = [life EXCEPT ![c] = s]
      PROVE  /\ life' \in [FeedCodes -> Seq(LifeStates)]
             /\ \A k \in FeedCodes : Len(life[k]) <= Len(life'[k]) /\ Len(life'[k]) <= FeedRevisions
             /\ life'[c] = s
  <2>1. \A k \in FeedCodes : Len(life[k]) \in Nat /\ Len(life[k]) <= FeedRevisions
    BY <1>1 DEF PollingInv
  <2> QED BY <1>1, <1>4, <2>1
<1>5. ASSUME NEW n \in 1 .. FeedRevisions, NEW s \in Seq(LifeStates), n <= Len(s), life'[c] = s,
             NEW action \in {"DEPRECATE", "ARCHIVE", "REINSTATE", "RELEASE_PUBLISH"},
             Polling!LogAll(action, {<<c, n>>})
      PROVE  \E revs \in SUBSET Polling!Revisions' : LogGrowsBy(revs) /\ Cardinality(revs) \in Nat
  <2> DEFINE revs == {<<c, n>>}
  <2>1. revs \in SUBSET (FeedCodes \X (1 .. FeedRevisions))
    OBVIOUS
  <2>2. revs \subseteq Polling!Revisions'
    BY <1>5 DEF Polling!Revisions
  <2> HIDE DEF revs
  <2>3. LogGrowsBy(revs) /\ Cardinality(revs) \in Nat
    <3>1. Polling!LogAll(action, revs)
      BY <1>5 DEF revs
    <3> QED BY <3>1, <2>1, <1>1, LogGrows
  <2> QED BY <2>2, <2>3
<1>6. CASE Polling!Approve(c)
  <2> DEFINE s == Append(life[c], "APPROVED")
  <2>1. s \in Seq(LifeStates) /\ Len(life[c]) <= Len(s) /\ Len(s) <= FeedRevisions
    BY <1>1, <1>6 DEF LifeStates, Polling!Approve
  <2>2. life' = [life EXCEPT ![c] = s] /\ UNCHANGED audit
    BY <1>6 DEF Polling!Approve
  <2> HIDE DEF s
  <2> QED BY <2>1, <2>2, <1>2, <1>3, <1>4, FeedStep
<1>7. CASE Polling!Deprecate(c)
  <2> DEFINE s == Append(life[c], "DEPRECATED")
             n == Len(life[c]) + 1
  <2>1. s \in Seq(LifeStates) /\ Len(life[c]) <= Len(s) /\ n <= Len(s) /\ Len(s) <= FeedRevisions
    BY <1>1, <1>7 DEF LifeStates, Polling!Deprecate
  <2>2. life' = [life EXCEPT ![c] = s] /\ Polling!LogAll("DEPRECATE", {<<c, n>>})
    BY <1>7 DEF Polling!Deprecate
  <2>3. n \in 1 .. FeedRevisions
    BY <1>1, <1>7 DEF Polling!Deprecate
  <2> HIDE DEF s, n
  <2>4. /\ life' \in [FeedCodes -> Seq(LifeStates)]
        /\ \A k \in FeedCodes : Len(life[k]) <= Len(life'[k]) /\ Len(life'[k]) <= FeedRevisions
        /\ life'[c] = s
    BY <2>1, <2>2, <1>4
  <2>5. \E revs \in SUBSET Polling!Revisions' : LogGrowsBy(revs) /\ Cardinality(revs) \in Nat
    BY <2>1, <2>2, <2>3, <2>4, <1>5
  <2> QED BY <2>4, <2>5, <1>2, <1>3, FeedStep
<1>8. ASSUME NEW action \in {"ARCHIVE", "REINSTATE"}, NEW state \in {"ARCHIVED", "RELEASED"},
             Polling!EndDeprecation(c, action, state)
      PROVE  PollingInv'
  <2> DEFINE n == Len(life[c])
             s == [life[c] EXCEPT ![n] = state]
  <2>1. s \in Seq(LifeStates) /\ Len(s) = n
    <3>1. state \in LifeStates
      BY DEF LifeStates
    <3>2. life[c] \in [1 .. n -> LifeStates] /\ n \in Nat
      BY <1>1
    <3>3. s \in [1 .. n -> LifeStates]
      BY <3>1, <3>2
    <3> HIDE DEF s, n, LifeStates
    <3> QED BY <3>2, <3>3
  <2>2. life' = [life EXCEPT ![c] = s] /\ Polling!LogAll(action, {<<c, n>>}) /\ life[c] # <<>>
    BY <1>8 DEF Polling!EndDeprecation
  <2>3. n \in 1 .. FeedRevisions
    BY <1>1, <2>2 DEF PollingInv
  <2> HIDE DEF s
  <2>4. /\ life' \in [FeedCodes -> Seq(LifeStates)]
        /\ \A k \in FeedCodes : Len(life[k]) <= Len(life'[k]) /\ Len(life'[k]) <= FeedRevisions
        /\ life'[c] = s
    <3>1. Len(life[c]) <= Len(s) /\ Len(s) <= FeedRevisions
      BY <2>1, <2>3, <1>1
    <3> HIDE DEF n
    <3> QED BY <3>1, <2>1, <2>2, <1>4
  <2>5. \E revs \in SUBSET Polling!Revisions' : LogGrowsBy(revs) /\ Cardinality(revs) \in Nat
    BY <2>1, <2>2, <2>3, <2>4, <1>5
  <2> QED BY <2>4, <2>5, <1>2, <1>3, FeedStep
<1> QED BY <1>6, <1>7, <1>8 DEF Polling!archive, Polling!reinstate

LEMMA ItemsKeep ==
  ASSUME PollingInv, NEW r \in ReleaseIds, Polling!set_items(r)
  PROVE  PollingInv'
<1>1. PICK items \in SUBSET Polling!Revisions :
        release' = [release EXCEPT ![r].items = items] /\ UNCHANGED <<life, audit, poller>>
  BY DEF Polling!set_items
<1>2. items \in SUBSET (FeedCodes \X (1 .. FeedRevisions))
  BY DEF Polling!Revisions
<1>3. /\ release' \in [ReleaseIds -> FeedRelease]
      /\ \A q \in ReleaseIds :
           /\ release'[q].items \subseteq Polling!Revisions
           /\ release'[q].at = release[q].at /\ release'[q].status = release[q].status
  BY <1>1, <1>2 DEF PollingInv, ReleaseFits, FeedRelease
<1>4. \A c \in FeedCodes : Len(life[c]) \in Nat
  BY DEF PollingInv
<1>5. \A q \in ReleaseIds : release'[q].at = 0 <=> release'[q].status = "BUILDING"
  BY <1>3 DEF PollingInv, ReleaseFits
<1>6. /\ life' \in [FeedCodes -> Seq(LifeStates)]
      /\ \A c \in FeedCodes : Len(life[c]) <= Len(life'[c]) /\ Len(life'[c]) <= FeedRevisions
  BY <1>1, <1>4 DEF PollingInv
<1> QED BY <1>1, <1>3, <1>5, <1>6, FeedStep

LEMMA PublicationKeeps ==
  ASSUME PollingInv, NEW r \in ReleaseIds, Polling!publish(r)
  PROVE  PollingInv'
<1> DEFINE items == release[r].items
           published_one == [release[r] EXCEPT !.status = "PUBLISHED", !.at = Len(audit) + 1]
<1>1. /\ Polling!LogAll("RELEASE_PUBLISH", items)
      /\ life' = [c \in FeedCodes |-> [n \in 1 .. Len(life[c]) |->
                    IF <<c, n>> \in items THEN "RELEASED" ELSE life[c][n]]]
      /\ release' = [release EXCEPT ![r] = published_one] /\ UNCHANGED poller
  BY DEF Polling!publish
<1>2. /\ release[r] \in FeedRelease /\ items \in SUBSET (FeedCodes \X (1 .. FeedRevisions))
      /\ items \subseteq Polling!Revisions /\ audit \in Seq(Entry) /\ Len(audit) \in Nat
  BY DEF PollingInv, ReleaseFits, LogFits, FeedRelease
<1>3. ASSUME NEW c \in FeedCodes
      PROVE  life'[c] \in Seq(LifeStates) /\ Len(life'[c]) = Len(life[c]) /\ Len(life[c]) \in Nat
  <2>1. life[c] \in Seq(LifeStates)
    BY DEF PollingInv
  <2>2. life'[c] = [n \in 1 .. Len(life[c]) |->
                      IF <<c, n>> \in items THEN "RELEASED" ELSE life[c][n]]
    BY <1>1
  <2>3. life'[c] \in [1 .. Len(life[c]) -> LifeStates]
    BY <2>1, <2>2 DEF LifeStates
  <2> QED BY <2>1, <2>3
<1>4. /\ life' \in [FeedCodes -> Seq(LifeStates)]
      /\ \A c \in FeedCodes : Len(life[c]) <= Len(life'[c]) /\ Len(life'[c]) <= FeedRevisions
  <2>1. life' = [c \in FeedCodes |-> life'[c]]
    BY <1>1
  <2>2. life' \in [FeedCodes -> Seq(LifeStates)]
    BY <2>1, <1>3
  <2> QED BY <2>2, <1>3 DEF PollingInv
<1>5. LogGrowsBy(items) /\ Cardinality(items) \in Nat
  BY <1>1, <1>2, LogGrows
<1>6. items \subseteq Polling!Revisions'
  BY <1>2, <1>3 DEF Polling!Revisions
<1>7. /\ published_one \in FeedRelease /\ published_one.items = items
      /\ published_one.at # 0 /\ published_one.status = "PUBLISHED"
  <2>1. Len(audit) + 1 \in Nat /\ Len(audit) + 1 # 0
    BY <1>2
  <2> QED BY ONLY <1>2, <2>1 DEF FeedRelease, published_one, items
<1> HIDE DEF published_one, items
<1>8. /\ release' \in [ReleaseIds -> FeedRelease]
      /\ \A q \in ReleaseIds :
           /\ release'[q].items \subseteq Polling!Revisions
           /\ release'[q].at = 0 <=> release'[q].status = "BUILDING"
  BY <1>1, <1>2, <1>7 DEF PollingInv, ReleaseFits
<1> QED BY <1>1, <1>4, <1>5, <1>6, <1>8, FeedStep

\* A page holds the entries that come next, and its end is the next cursor.
LEMMA PageIsNext ==
  ASSUME NEW n \in Nat, Len(audit) \in Nat, n <= Len(audit)
  PROVE  LET page == Polling!Page(n) IN
         /\ page.items \in Seq(Nat) /\ Len(page.items) \in Nat
         /\ page.next = n + Len(page.items) /\ n + Len(page.items) <= Len(audit)
         /\ \A i \in 1 .. Len(page.items) : page.items[i] = n + i
<1> DEFINE last == Len(audit)
           all == [i \in 1 .. last |-> i]
           ids == SubSeq(all, n + 1, last)
           end == Polling!Min({Len(ids), PageSize})
           items == SubSeq(ids, 1, end)
<1>1. Polling!Page(n) = [items |-> items, more |-> Len(ids) > PageSize,
                         next |-> IF items = <<>> THEN n ELSE items[Len(items)]]
  BY DEF Polling!Page, Polling!Last
<1>2. last \in Nat /\ n <= last /\ PageSize \in Nat /\ PageSize >= 1
  BY FeedIsBounded
<1> HIDE DEF last
<1>3. all \in Seq(Nat) /\ Len(all) = last /\ \A i \in 1 .. last : all[i] = i
  BY <1>2
<1> HIDE DEF all
<1>4. ids \in Seq(Nat) /\ Len(ids) = last - n /\ \A i \in 1 .. last - n : ids[i] = n + i
  BY <1>2, <1>3
<1> HIDE DEF ids
<1>5. end \in Nat /\ end <= last - n
  <2> DEFINE S == {Len(ids), PageSize}
  <2>1. \E x \in S : \A y \in S : x <= y
    BY <1>2, <1>4
  <2>2. end \in S /\ \A y \in S : end <= y
    BY <2>1 DEF Polling!Min
  <2> HIDE DEF end
  <2> QED BY <2>2, <1>2, <1>4
<1> HIDE DEF end
<1>6. items \in Seq(Nat) /\ Len(items) = end /\ \A i \in 1 .. end : items[i] = n + i
  BY <1>2, <1>4, <1>5
<1> HIDE DEF items
<1>7. (IF items = <<>> THEN n ELSE items[Len(items)]) = n + end
  BY <1>2, <1>5, <1>6
<1> QED BY <1>1, <1>2, <1>5, <1>6, <1>7 DEF last

LEMMA PollKeeps ==
  ASSUME PollingInv, Polling!Poll
  PROVE  PollingInv'
<1> DEFINE got == poller.got
           n == Len(got)
           page == Polling!Page(n)
           items == page.items
           m == Len(items)
<1>1. /\ got \in Seq(Nat) /\ poller.since = n /\ n \in Nat /\ n <= Len(audit)
      /\ Len(audit) \in Nat /\ \A i \in 1 .. n : got[i] = i
  BY DEF PollingInv, ReaderFits, LogFits
<1>2. /\ poller' = IF Polling!ETag(page) = poller.etag THEN poller
                   ELSE [since |-> page.next, etag |-> Polling!ETag(page), got |-> got \o items]
      /\ UNCHANGED <<life, release, audit>>
  BY <1>1 DEF Polling!Poll
<1>3. /\ items \in Seq(Nat) /\ m \in Nat /\ page.next = n + m /\ n + m <= Len(audit)
      /\ \A i \in 1 .. m : items[i] = n + i
  BY <1>1, PageIsNext
<1> HIDE DEF page
<1> DEFINE whole == got \o items
<1>4. /\ whole \in Seq(Nat) /\ Len(whole) = n + m
      /\ \A i \in 1 .. n : whole[i] = got[i]
      /\ \A i \in 1 .. m : whole[n + i] = items[i]
  <2> HIDE DEF got, items
  <2> QED BY <1>1, <1>3
<1>5. \A i \in 1 .. Len(whole) : whole[i] = i
  <2> SUFFICES ASSUME NEW i \in 1 .. Len(whole) PROVE whole[i] = i
    OBVIOUS
  <2> HIDE DEF whole, n, m, items, got
  <2>1. CASE i \in 1 .. n
    BY <2>1, <1>1, <1>4
  <2>2. CASE i \notin 1 .. n
    <3>1. i - n \in 1 .. m /\ n + (i - n) = i
      BY <2>2, <1>1, <1>3, <1>4
    <3>2. whole[n + (i - n)] = items[i - n] /\ items[i - n] = n + (i - n)
      BY <3>1, <1>3, <1>4
    <3> QED BY <3>1, <3>2
  <2> QED BY <2>1, <2>2
<1> HIDE DEF whole
<1>6. ReaderFits'
  <2>1. CASE poller' = poller
    BY <2>1, <1>2 DEF PollingInv, ReaderFits
  <2>2. CASE poller' # poller
    <3>1. poller'.since = n + m /\ poller'.got = whole
      BY <2>2, <1>2, <1>3 DEF whole
    <3> HIDE DEF n, m, items, got
    <3> QED BY <3>1, <1>2, <1>3, <1>4, <1>5 DEF ReaderFits
  <2> QED BY <2>1, <2>2
<1> QED BY <1>2, <1>6 DEF PollingInv, ReleaseFits, LogFits, Polling!Revisions

LEMMA PollingSteps ==
  ASSUME PollingInv, [Polling!Next]_polling
  PROVE  PollingInv'
<1>1. CASE UNCHANGED polling
  BY <1>1 DEF polling, PollingInv, ReleaseFits, LogFits, ReaderFits, Polling!Revisions
<1>2. CASE Polling!Next
  BY <1>2, GovernanceOfOne, ItemsKeep, PublicationKeeps, PollKeeps DEF Polling!Next
<1> QED BY <1>1, <1>2

LEMMA FeedIsSound ==
  ASSUME PollingInv
  PROVE  Polling!PublicationTypeOK /\ Polling!FeedIsInOrder
<1>1. ASSUME NEW v \in Polling!Revisions
      PROVE  Polling!Life(v) \in LifeStates
  <2>1. life[v[1]] \in Seq(LifeStates) /\ v[2] \in 1 .. Len(life[v[1]])
    BY DEF PollingInv, Polling!Revisions
  <2> QED BY <2>1 DEF Polling!Life
<1>2. \A r \in ReleaseIds :
        /\ release[r].status \in {"BUILDING", "PUBLISHED"}
        /\ release[r].items \subseteq Polling!Revisions
        /\ (release[r].at = 0) = (r \notin Polling!Published)
  <2> SUFFICES ASSUME NEW r \in ReleaseIds
               PROVE  /\ release[r].status \in {"BUILDING", "PUBLISHED"}
                      /\ release[r].items \subseteq Polling!Revisions
                      /\ (release[r].at = 0) = (r \notin Polling!Published)
    OBVIOUS
  <2>1. /\ release[r].status \in {"BUILDING", "PUBLISHED"}
        /\ release[r].items \subseteq Polling!Revisions
        /\ release[r].at = 0 <=> release[r].status = "BUILDING"
    BY DEF PollingInv, ReleaseFits, FeedRelease
  <2> QED BY <2>1 DEF Polling!Published
<1>3. poller.since \in 0 .. Len(audit)
  <2> DEFINE n == Len(poller.got)
  <2>1. n \in Nat /\ poller.since = n /\ n <= Len(audit) /\ Len(audit) \in Nat
    BY DEF PollingInv, ReaderFits, LogFits
  <2> HIDE DEF n
  <2> QED BY <2>1
<1>4. Polling!PublicationTypeOK
  BY <1>1, <1>2, <1>3 DEF Polling!PublicationTypeOK, LifeStates, PollingInv, LogFits
<1> QED BY <1>4 DEF PollingInv, ReaderFits, Polling!FeedIsInOrder

-----------------------------------------------------------------------------
(* All parts together.                                                     *)

PartsInv ==
  ProgramsInv /\ LibraryInv /\ QuotaInv /\ PackingInv /\ TellingInv /\ PollingInv

LEMMA PartsBegin == Init => PartsInv
BY ProgramsBegin, LibraryBegins, QuotasBegin, PackingBegins, TellingBegins, PollingBegins
   DEF Init, PartsInv

\* What a step of the parts is for each of them.
LEMMA PartsMoveAlone ==
  ASSUME [Next]_vars
  PROVE  /\ [Programs!Next]_programs /\ [Library!Next]_library /\ [Quotas!Next]_quotas
         /\ [Packing!Next]_packing /\ [Telling!Next]_telling /\ [Polling!Next]_polling
<1>1. CASE UNCHANGED vars
  BY <1>1 DEF vars
<1>2. CASE Next
  <2>1. CASE Only("programs") /\ Programs!Next
    BY <2>1 DEF Only
  <2>2. CASE Only("library") /\ Library!Next
    BY <2>2 DEF Only
  <2>3. CASE Only("sittings") \/ Only("signing in") \/ Only("transacting")
    BY <2>3 DEF Only
  <2>4. CASE Only("quotas") /\ Quotas!Next
    BY <2>4 DEF Only
  <2>5. CASE Only("packing") /\ Packing!Next
    BY <2>5 DEF Only
  <2>6. CASE Only("telling") /\ Telling!Next
    BY <2>6 DEF Only
  <2>7. CASE Only("polling") /\ Polling!Next
    BY <2>7 DEF Only
  <2> QED BY <1>2, <2>1, <2>2, <2>3, <2>4, <2>5, <2>6, <2>7 DEF Next
<1> QED BY <1>1, <1>2

LEMMA PartsStep == PartsInv /\ [Next]_vars => PartsInv'
<1> SUFFICES ASSUME PartsInv, [Next]_vars PROVE PartsInv'
  OBVIOUS
<1>1. ProgramsInv' /\ LibraryInv'
  BY PartsMoveAlone, ProgramSteps, LibrarySteps DEF PartsInv
<1>2. QuotaInv' /\ PackingInv'
  BY PartsMoveAlone, QuotaSteps, PackingSteps DEF PartsInv
<1>3. TellingInv' /\ PollingInv'
  BY PartsMoveAlone, TellingSteps, PollingSteps DEF PartsInv
<1> QED BY <1>1, <1>2, <1>3 DEF PartsInv

LEMMA PartsHold == JobsSpec => []PartsInv
BY PartsBegin, PartsStep, PTL DEF JobsSpec

LEMMA PartsAreSound == PartsInv => JobsAreSound
<1> SUFFICES ASSUME PartsInv PROVE JobsAreSound
  OBVIOUS
<1>1. Programs!ImportTypeOK /\ Programs!CountsAreTrue /\ Programs!ImportedRowsAreFrozen
  BY ProgramsAreSound DEF PartsInv
<1>2. Library!LibraryTypeOK /\ Library!CountsAreTrue /\ Library!OneCodePerNumber
  BY LibraryIsSound DEF PartsInv
<1>3. Quotas!TypeOK /\ Quotas!Represented
  BY QuotasAreSound DEF PartsInv
<1>4. Packing!PackagesTypeOK /\ Packing!CompleteIsWhole
  BY PackagesAreSound DEF PartsInv
<1>5. Telling!WebhooksTypeOK /\ Telling!ToldOnceAndRecorded
  BY TellingIsSound DEF PartsInv
<1>6. Polling!PublicationTypeOK /\ Polling!FeedIsInOrder
  BY FeedIsSound DEF PartsInv
<1> QED BY <1>1, <1>2, <1>3, <1>4, <1>5, <1>6 DEF JobsAreSound

\* FR-048, FR-174, FR-180, FR-145, FR-146: for every file, every batch and every list of
\* subscribers, what a job counts is what it did, at every moment of it and however often
\* the server is restarted; the row of an imported code is frozen and a legacy number has
\* one code; a sample sees every subgroup, a complete package holds every language and
\* every code, a target hears of a Release once, and a reader of the feed gets its entries
\* in order and misses none (st_import_service, import_service, bulk_service,
\* package_service, integration_service).
THEOREM AllJobsAreSound == JobsSpec => []JobsAreSound
BY PartsHold, PartsAreSound, PTL

\* FR-048c: whatever happened to the catalogue since a file was checked, each step of each
\* import writes a Draft and nothing else, and never to a code that is under review or
\* retired (st_import_service, import_service).
THEOREM ImportsWriteDraftsOnly == JobsSpec => GovernanceIsKept
<1>1. PartsInv => [(\E j \in ImportJobs : Programs!Work(j)) =>
                     \A k \in ProgramNumbers : code'[k] # code[k] /\ code'[k].text # code[k].text =>
                       /\ code'[k].state = "DRAFT"
                       /\ code[k].state \in {"NONE", "WITHDRAWN", "DRAFT", "DECIDED"}]_programs
  BY ProgramWorkKeeps DEF PartsInv
<1>2. PartsInv => [\A j \in UploadJobs : Library!Work(j) =>
                     \A i \in LibraryIds : codes'[i] # codes[i] =>
                       codes'[i].state = "DRAFT" /\ codes[i].state \in {"NONE", "DRAFT", "DECIDED"}]_library
  BY LibraryWorkKeeps DEF PartsInv
<1> QED BY <1>1, <1>2, PartsHold, PTL
        DEF GovernanceIsKept, Programs!GovernanceIsKept, Library!GovernanceIsKept,
            Programs!vars, Library!vars, programs, library
=============================================================================
