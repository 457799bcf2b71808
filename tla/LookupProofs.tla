----------------------------- MODULE LookupProofs -----------------------------
(***************************************************************************)
(* Theorems about the data the life of a code is looked up in, for every   *)
(* number of versions, groups, codes and administrators: the versions of   *)
(* the software, the bands numbers are issued from, and the replacements   *)
(* of the codes of the Hub Controller.                                     *)
(***************************************************************************)
EXTENDS Work, FiniteSetTheorems, SequenceTheorems, TLAPS

-----------------------------------------------------------------------------
(* Versions of the software: a range was in order when it was saved, and   *)
(* only a Release that is being built is given targets or items.           *)

Ends == VersionIds \union {Unbounded}

Spans == [first : Ends, last : Ends, state : {"APPROVED", "RELEASED"}]

Baseline == [status : {"none", "BUILDING", "PUBLISHED"}, targets : SUBSET VersionIds,
             items : SUBSET (RangedCodes \X (1 .. Ranges)), asked : SUBSET VersionIds]

Fits(of, x) == Unbounded \in {x.first, x.last} \/ of[x.first].order <= of[x.last].order

VersioningInv ==
  /\ version \in [VersionIds -> [active : BOOLEAN, order : Nat]]
  /\ ranged \in [RangedCodes -> Seq(Spans)]
  /\ baseline \in [BaselineIds -> Baseline]
  /\ renamed \in Nat
  /\ renamed = 0 => \A c \in RangedCodes : \A n \in DOMAIN ranged[c] : Fits(version, ranged[c][n])

\* What TargetsStand says of one step.
TargetsStay ==
  \A r \in BaselineIds : baseline[r].status = "PUBLISHED" =>
    /\ baseline'[r].status = "PUBLISHED"
    /\ baseline'[r].targets = baseline[r].targets /\ baseline'[r].items = baseline[r].items

LEMMA VersioningBegins == Versioning!Init => VersioningInv
<1> SUFFICES ASSUME Versioning!Init PROVE VersioningInv
  OBVIOUS
<1>1. version \in [VersionIds -> [active : BOOLEAN, order : Nat]]
  BY VersioningAssumption DEF VersioningAssumption, Versioning!OpenAssumption, Versioning!Init
<1>2. Versioning!Unmade \in Baseline
  BY DEF Versioning!Unmade, Baseline
<1>3. \A c \in RangedCodes : ranged[c] = <<>>
  BY DEF Versioning!Init
<1> QED BY <1>1, <1>2, <1>3 DEF Versioning!Init, VersioningInv

LEMMA RangesHold ==
  ASSUME VersioningInv
  PROVE  Versioning!SavedRangesHold
<1> SUFFICES ASSUME renamed = 0, NEW w \in Versioning!Revisions, NEW v \in VersionIds,
                    v \in {Versioning!At(w).first, Versioning!At(w).last}
             PROVE  Versioning!applies(Versioning!At(w), v)
  BY DEF Versioning!SavedRangesHold
<1> DEFINE x == Versioning!At(w)
<1>1. Ranges \in Nat /\ Unbounded \notin VersionIds
  BY VersioningAssumption DEF VersioningAssumption, Versioning!OpenAssumption
<1>2. w \in RangedCodes \X (1 .. Ranges) /\ w[2] <= Len(ranged[w[1]])
  BY DEF Versioning!Revisions
<1>3. w[1] \in RangedCodes /\ w[2] \in DOMAIN ranged[w[1]]
  BY <1>1, <1>2 DEF VersioningInv
<1>4. x \in Spans /\ Fits(version, x)
  BY <1>3 DEF VersioningInv, Versioning!At
<1> HIDE DEF x
<1>5. x.first \in Ends /\ x.last \in Ends /\ v \in {x.first, x.last}
  BY <1>4 DEF Spans, x
<1>6. \A k \in VersionIds : version[k].order \in Nat
  BY DEF VersioningInv
<1> QED BY <1>1, <1>4, <1>5, <1>6 DEF Fits, Ends, Versioning!applies, x

\* One Release changes, and not one that is published.
LEMMA OneReleaseChanges ==
  ASSUME VersioningInv, NEW r \in BaselineIds, NEW x \in Baseline,
         baseline' = [baseline EXCEPT ![r] = x],
         baseline[r].status = "PUBLISHED" =>
           x.status = "PUBLISHED" /\ x.targets = baseline[r].targets /\ x.items = baseline[r].items
  PROVE  baseline' \in [BaselineIds -> Baseline] /\ TargetsStay
<1>1. \A q \in BaselineIds : baseline'[q] = IF q = r THEN x ELSE baseline[q]
  BY DEF VersioningInv
<1> QED BY <1>1 DEF VersioningInv, TargetsStay

\* The ranges stay as they are.
LEMMA RangesStay ==
  ASSUME VersioningInv, UNCHANGED <<version, ranged, renamed>>, baseline' \in [BaselineIds -> Baseline]
  PROVE  VersioningInv'
BY DEF VersioningInv, Fits

LEMMA VersioningStep ==
  ASSUME VersioningInv, Versioning!Next
  PROVE  VersioningInv' /\ TargetsStay
<1>1. /\ Ranges \in Nat /\ Unbounded \notin VersionIds /\ Orders \subseteq Nat
      /\ baseline \in [BaselineIds -> Baseline] /\ ranged \in [RangedCodes -> Seq(Spans)]
      /\ renamed \in Nat
  BY VersioningAssumption DEF VersioningAssumption, Versioning!OpenAssumption, VersioningInv
<1>2. ASSUME NEW v \in VersionIds, Versioning!update_value(v) PROVE VersioningInv' /\ TargetsStay
  <2>1. PICK active \in BOOLEAN, order \in Orders :
          version' = [version EXCEPT ![v] = [active |-> active, order |-> order]]
    BY <1>2 DEF Versioning!update_value
  <2>2. [active |-> active, order |-> order] \in [active : BOOLEAN, order : Nat]
    BY <1>1
  <2>3. version' \in [VersionIds -> [active : BOOLEAN, order : Nat]]
    BY <2>1, <2>2 DEF VersioningInv
  <2>4. renamed' \in Nat /\ renamed' # 0 /\ UNCHANGED <<ranged, baseline>>
    BY <1>1, <1>2 DEF Versioning!update_value
  <2> QED BY <1>1, <2>3, <2>4 DEF VersioningInv, TargetsStay
<1>3. ASSUME NEW c \in RangedCodes, Versioning!save_revision(c) PROVE VersioningInv' /\ TargetsStay
  <2>1. PICK range \in (Versioning!Active \union {Unbounded}) \X (Versioning!Active \union {Unbounded}) :
          /\ Versioning!check_version_order(range[1], range[2])
          /\ ranged' = [ranged EXCEPT
               ![c] = Append(@, [first |-> range[1], last |-> range[2], state |-> "APPROVED"])]
    BY <1>3 DEF Versioning!save_revision
  <2> DEFINE x == [first |-> range[1], last |-> range[2], state |-> "APPROVED"]
             old == ranged[c]
             new == Append(old, x)
  <2>2. ranged' = [ranged EXCEPT ![c] = new]
    BY <2>1, Zenon
  <2>3. x \in Spans
    <3>1. range[1] \in Ends /\ range[2] \in Ends
      BY DEF Versioning!Active, Ends
    <3> QED BY <3>1 DEF Spans
  <2>4. Fits(version, x)
    BY <2>1 DEF Fits, Versioning!check_version_order
  <2>5. old \in Seq(Spans)
    BY <1>1
  <2> HIDE DEF x, old
  <2>6. /\ new \in Seq(Spans)
        /\ \A n \in DOMAIN new : (n \in DOMAIN old /\ new[n] = old[n]) \/ new[n] = x
    BY ONLY <2>3, <2>5
  <2> HIDE DEF new
  <2>7. /\ ranged' \in [RangedCodes -> Seq(Spans)]
        /\ \A d \in RangedCodes : ranged'[d] = IF d = c THEN new ELSE ranged[d]
    BY <1>1, <2>2, <2>6
  <2>8. UNCHANGED <<version, baseline, renamed>>
    BY <1>3 DEF Versioning!save_revision
  <2>10. ASSUME renamed = 0, NEW d \in RangedCodes, NEW n \in DOMAIN ranged'[d]
         PROVE  Fits(version', ranged'[d][n])
    <3>1. Fits(version, ranged'[d][n])
      BY <2>4, <2>6, <2>7, <2>10 DEF VersioningInv, old
    <3> QED BY <2>8, <3>1 DEF Fits
  <2> QED BY <1>1, <2>7, <2>8, <2>10 DEF VersioningInv, TargetsStay
<1>4. ASSUME NEW r \in BaselineIds, Versioning!create(r) PROVE VersioningInv' /\ TargetsStay
  <2>1. PICK targets \in SUBSET VersionIds :
          baseline' = [baseline EXCEPT ![r] = [Versioning!Unmade EXCEPT !.status = "BUILDING",
                                                                       !.asked = targets]]
    BY <1>4 DEF Versioning!create
  <2> DEFINE x == [Versioning!Unmade EXCEPT !.status = "BUILDING", !.asked = targets]
  <2>2. x \in Baseline
    BY DEF Versioning!Unmade, Baseline
  <2>3. baseline' = [baseline EXCEPT ![r] = x] /\ baseline[r].status = "none"
    BY <1>4, <2>1 DEF Versioning!create
  <2> HIDE DEF x
  <2> QED BY <1>4, <2>2, <2>3, OneReleaseChanges, RangesStay DEF Versioning!create
<1>5. ASSUME NEW r \in BaselineIds, NEW targets \in SUBSET VersionIds, Versioning!SetTargets(r, targets),
             UNCHANGED <<version, ranged, renamed>>
      PROVE  VersioningInv' /\ TargetsStay
  <2> DEFINE old == baseline[r]
             x == [old EXCEPT !.targets = targets, !.asked = {}]
  <2>1. baseline' = [baseline EXCEPT ![r] = x] /\ baseline[r].status = "BUILDING"
    BY <1>5, Zenon DEF Versioning!SetTargets
  <2>2. old \in Baseline
    BY <1>1
  <2> HIDE DEF old
  <2>3. x \in Baseline
    BY ONLY <2>2, targets \in SUBSET VersionIds DEF Baseline
  <2> HIDE DEF x
  <2> QED BY <1>5, <2>1, <2>3, OneReleaseChanges, RangesStay
<1>6. ASSUME NEW r \in BaselineIds, Versioning!CreateFails(r) PROVE VersioningInv' /\ TargetsStay
  <2> DEFINE old == baseline[r]
             x == [old EXCEPT !.asked = {}]
  <2>1. baseline' = [baseline EXCEPT ![r] = x]
    BY <1>6, Zenon DEF Versioning!CreateFails
  <2>2. old \in Baseline
    BY <1>1
  <2> HIDE DEF old
  <2>3. /\ x \in Baseline /\ x.status = old.status /\ x.targets = old.targets
        /\ x.items = old.items
    BY ONLY <2>2 DEF Baseline
  <2> HIDE DEF x
  <2> QED BY <1>6, <2>1, <2>3, OneReleaseChanges, RangesStay DEF Versioning!CreateFails, old
<1>7. ASSUME NEW r \in BaselineIds, Versioning!set_items(r) PROVE VersioningInv' /\ TargetsStay
  <2>1. PICK items \in SUBSET {v \in Versioning!Revisions : Versioning!At(v).state = "APPROVED"} :
          baseline' = [baseline EXCEPT ![r].items = items]
    BY <1>7 DEF Versioning!set_items
  <2> DEFINE old == baseline[r]
             x == [old EXCEPT !.items = items]
  <2>2. baseline' = [baseline EXCEPT ![r] = x] /\ baseline[r].status = "BUILDING"
    BY <1>7, <2>1, Zenon DEF Versioning!set_items
  <2>3. old \in Baseline /\ items \in SUBSET (RangedCodes \X (1 .. Ranges))
    BY <1>1 DEF Versioning!Revisions
  <2> HIDE DEF old
  <2>4. x \in Baseline
    BY ONLY <2>3 DEF Baseline
  <2> HIDE DEF x
  <2> QED BY <1>7, <2>2, <2>4, OneReleaseChanges, RangesStay DEF Versioning!set_items
<1>8. ASSUME NEW r \in BaselineIds, Versioning!delete(r) PROVE VersioningInv' /\ TargetsStay
  <2>1. Versioning!Unmade \in Baseline
    BY DEF Versioning!Unmade, Baseline
  <2>2. baseline' = [baseline EXCEPT ![r] = Versioning!Unmade] /\ baseline[r].status = "BUILDING"
    BY <1>8 DEF Versioning!delete
  <2> QED BY <1>8, <2>1, <2>2, OneReleaseChanges, RangesStay DEF Versioning!delete
<1>9. ASSUME NEW r \in BaselineIds, Versioning!publish(r) PROVE VersioningInv' /\ TargetsStay
  <2> DEFINE old == baseline[r]
             x == [old EXCEPT !.status = "PUBLISHED"]
             row(c, n) == IF <<c, n>> \in baseline[r].items
                          THEN [ranged[c][n] EXCEPT !.state = "RELEASED"] ELSE ranged[c][n]
             list(c) == [n \in 1 .. Len(ranged[c]) |-> row(c, n)]
  <2>1. baseline' = [baseline EXCEPT ![r] = x] /\ baseline[r].status = "BUILDING"
    BY <1>9, Zenon DEF Versioning!publish
  <2>2. old \in Baseline
    BY <1>1
  <2>3. ranged' = [c \in RangedCodes |-> list(c)]
    BY <1>9, Zenon DEF Versioning!publish
  <2> HIDE DEF old
  <2>4. x \in Baseline
    BY ONLY <2>2 DEF Baseline
  <2> HIDE DEF x
  <2>5. baseline' \in [BaselineIds -> Baseline] /\ TargetsStay
    BY <2>1, <2>4, OneReleaseChanges
  <2>6. ASSUME NEW c \in RangedCodes, NEW n \in 1 .. Len(ranged[c])
        PROVE  /\ row(c, n) \in Spans
               /\ row(c, n).first = ranged[c][n].first /\ row(c, n).last = ranged[c][n].last
    <3> DEFINE y == ranged[c][n]
    <3>1. y \in Spans
      BY <1>1
    <3> HIDE DEF y
    <3>2. LET z == [y EXCEPT !.state = "RELEASED"] IN
          z \in Spans /\ z.first = y.first /\ z.last = y.last
      BY ONLY <3>1 DEF Spans
    <3> QED BY <3>1, <3>2 DEF y
  <2> HIDE DEF row
  <2>7. ASSUME NEW c \in RangedCodes
        PROVE  /\ list(c) \in Seq(Spans) /\ DOMAIN list(c) = DOMAIN ranged[c]
               /\ \A n \in DOMAIN ranged[c] : list(c)[n] = row(c, n)
    <3>1. Len(ranged[c]) \in Nat /\ DOMAIN ranged[c] = 1 .. Len(ranged[c])
      BY <1>1
    <3>2. list(c) \in [1 .. Len(ranged[c]) -> Spans]
      BY <2>6
    <3> QED BY <3>1, <3>2
  <2> HIDE DEF list
  <2>8. ranged' \in [RangedCodes -> Seq(Spans)] /\ \A c \in RangedCodes : ranged'[c] = list(c)
    BY <2>3, <2>7
  <2>9. UNCHANGED <<version, renamed>>
    BY <1>9 DEF Versioning!publish
  <2>10. ASSUME renamed = 0, NEW c \in RangedCodes, NEW n \in DOMAIN ranged'[c]
         PROVE  Fits(version', ranged'[c][n])
    <3>1. n \in DOMAIN ranged[c] /\ ranged'[c][n] = row(c, n) /\ n \in 1 .. Len(ranged[c])
      BY <1>1, <2>7, <2>8
    <3>2. Fits(version, ranged[c][n])
      BY <2>10, <3>1 DEF VersioningInv
    <3> QED BY <2>6, <2>9, <3>1, <3>2 DEF Fits
  <2> QED BY <1>1, <2>5, <2>8, <2>9, <2>10 DEF VersioningInv
<1>10. ASSUME NEW r \in BaselineIds, Versioning!FinishCreate(r) \/ Versioning!set_target_versions(r)
       PROVE  VersioningInv' /\ TargetsStay
  <2>1. baseline[r].asked \in SUBSET VersionIds
    BY <1>1 DEF Baseline
  <2> QED BY <1>5, <1>10, <2>1 DEF Versioning!FinishCreate, Versioning!set_target_versions
<1> QED BY <1>2, <1>3, <1>4, <1>6, <1>7, <1>8, <1>9, <1>10 DEF Versioning!Next

-----------------------------------------------------------------------------
(* Numbers: a nonempty set of them has a least one, and a greatest one if  *)
(* it is bounded.                                                          *)

LEMMA LeastNumber ==
  ASSUME NEW T, T \subseteq Nat, T # {}
  PROVE  \E x \in T : \A y \in T : x <= y
<1> DEFINE R == OpToRel(<, Nat)
<1>1. IsWellFoundedOn(R, Nat)
  BY NatLessThanWellFounded
<1>2. PICK x \in T : \A y \in T : ~(<<y, x>> \in R)
  <2> HIDE DEF R
  <2> QED BY <1>1, WFMin
<1>3. \A a, b \in Nat : a < b => <<a, b>> \in R
  BY DEF OpToRel
<1> HIDE DEF R
<1>4. \A y \in T : y \in Nat /\ x \in Nat /\ ~(y < x)
  BY <1>2, <1>3
<1>5. \A y \in T : x <= y
  BY <1>4
<1> QED BY <1>5

LEMMA GreatestNumber ==
  ASSUME NEW T, NEW n \in Nat, T \subseteq 0 .. n, T # {}
  PROVE  \E x \in T : \A y \in T : x >= y
<1> DEFINE U == {n - x : x \in T}
<1>6. \A x \in T : n - x \in Nat
  OBVIOUS
<1>1. U \subseteq Nat /\ U # {}
  BY <1>6
<1>2. PICK u \in U : \A v \in U : u <= v
  <2> HIDE DEF U
  <2> QED BY <1>1, LeastNumber
<1>3. PICK x \in T : u = n - x
  BY <1>2
<1>4. \A y \in T : n - x <= n - y
  BY <1>2, <1>3
<1>5. \A y \in T : x >= y
  BY <1>4
<1> QED BY <1>5

-----------------------------------------------------------------------------
(* The bands and the numbers on them.  A code that exists is on a subgroup *)
(* that exists, whose range nobody changes.                                *)

BandOfGroup == [exists : BOOLEAN, first : Nat, last : Nat, active : BOOLEAN]

BandOfSubgroup == [exists : BOOLEAN, group : Groups, first : Nat, last : Nat, active : BOOLEAN]

NumberedCode == [exists : BOOLEAN, sub : Subgroups, number : Nat, reserved : Nat]

BandingInv ==
  /\ group \in [Groups -> BandOfGroup]
  /\ subgroup \in [Subgroups -> BandOfSubgroup]
  /\ numbered \in [BandCodes -> NumberedCode]
  /\ \A s \in Subgroups : subgroup[s].active => subgroup[s].exists
  /\ \A c \in BandCodes :
       IF numbered[c].exists THEN subgroup[numbered[c].sub].exists
       ELSE numbered[c].number = 0 /\ numbered[c].reserved = 0
  /\ Banding!BandsAreDisjoint
  /\ Banding!NumbersAgree
  /\ Banding!NumbersStayInTheirBand

LEMMA BandingBegins == Banding!Init => BandingInv
<1> SUFFICES ASSUME Banding!Init PROVE BandingInv
  OBVIOUS
<1>1. Groups # {} /\ Subgroups # {}
  BY BandingAssumption DEF BandingAssumption, Banding!BandsAssumption
<1>2. Banding!NoGroup \in BandOfGroup /\ ~Banding!NoGroup.exists
  BY DEF Banding!NoGroup, BandOfGroup
<1>3. Banding!NoSubgroup \in BandOfSubgroup /\ ~Banding!NoSubgroup.exists
      /\ ~Banding!NoSubgroup.active
  BY <1>1 DEF Banding!NoSubgroup, BandOfSubgroup
<1>4. Banding!NoCode \in NumberedCode /\ ~Banding!NoCode.exists
      /\ Banding!NoCode.number = 0 /\ Banding!NoCode.reserved = 0
  BY <1>1 DEF Banding!NoCode, NumberedCode
<1>5. /\ \A g \in Groups : group[g] = Banding!NoGroup
      /\ \A s \in Subgroups : subgroup[s] = Banding!NoSubgroup
      /\ \A c \in BandCodes : numbered[c] = Banding!NoCode
  BY DEF Banding!Init
<1>6. /\ group \in [Groups -> BandOfGroup] /\ subgroup \in [Subgroups -> BandOfSubgroup]
      /\ numbered \in [BandCodes -> NumberedCode]
  BY <1>2, <1>3, <1>4 DEF Banding!Init
<1>7. Banding!BandsAreDisjoint
  BY <1>2, <1>3, <1>5 DEF Banding!BandsAreDisjoint
<1>8. Banding!NumbersAgree /\ Banding!NumbersStayInTheirBand
  BY <1>4, <1>5 DEF Banding!NumbersAgree, Banding!NumbersStayInTheirBand
<1> QED BY <1>3, <1>4, <1>5, <1>6, <1>7, <1>8 DEF BandingInv

LEMMA NextNumber ==
  ASSUME BandingInv, NEW s \in Subgroups, NEW n \in Banding!allocate_next_identifier(s)
  PROVE  n \in Banding!Band(s) /\ ~Banding!Reserved(n)
<1> DEFINE first == subgroup[s].first
           last == subgroup[s].last
           inside == Banding!InBand(s)
           max == Banding!current_max(s)
           free == Banding!Free(s)
<1>1. first \in Nat /\ last \in Nat /\ Banding!Band(s) = first .. last
  BY DEF BandingInv, BandOfSubgroup, Banding!Band
<1>2. inside \subseteq first .. last
  BY <1>1 DEF Banding!InBand
<1>3. max \in Int /\ max >= first - 1
  <2>1. CASE inside = {}
    BY <1>1, <2>1 DEF Banding!current_max
  <2>2. CASE inside # {}
    <3>1. max = CHOOSE x \in inside : \A y \in inside : x >= y
      BY <2>2 DEF Banding!current_max, Banding!Max
    <3> HIDE DEF inside, max, first, last
    <3>2. inside \subseteq 0 .. last
      BY <1>1, <1>2
    <3>3. \E x \in inside : \A y \in inside : x >= y
      BY <1>1, <2>2, <3>2, GreatestNumber
    <3>4. max \in inside
      BY <3>1, <3>3
    <3> QED BY <1>1, <1>2, <3>4
  <2> QED BY <2>1, <2>2
<1>4. free \subseteq first .. last /\ \A x \in free : ~Banding!Reserved(x)
  BY <1>1, <1>3 DEF Banding!Free
<1>5. free # {} /\ n = CHOOSE x \in free : \A y \in free : x <= y
  BY DEF Banding!allocate_next_identifier, Banding!Min
<1> HIDE DEF free, first, last
<1>6. \E x \in free : \A y \in free : x <= y
  <2>1. free \subseteq Nat
    BY <1>1, <1>4
  <2> QED BY <1>5, <2>1, LeastNumber
<1>7. n \in free
  BY <1>5, <1>6
<1> QED BY <1>1, <1>4, <1>7

\* One code changes, and takes only numbers that are nobody's and in its band.
LEMMA OneCodeChanges ==
  ASSUME BandingInv, NEW c \in BandCodes, NEW x \in NumberedCode,
         numbered' = [numbered EXCEPT ![c] = x], UNCHANGED <<group, subgroup>>,
         IF x.exists THEN subgroup[x.sub].exists ELSE x.number = 0 /\ x.reserved = 0,
         {x.number, x.reserved} \subseteq Banding!Band(x.sub) \union {0},
         x.number # 0 => \A d \in BandCodes \ {c} :
                           x.number # numbered[d].number /\ x.number # numbered[d].reserved,
         \A d \in BandCodes \ {c} :
           numbered[d].number # 0 => numbered[d].number \notin {x.number, x.reserved}
  PROVE  BandingInv'
<1>1. numbered' \in [BandCodes -> NumberedCode]
  BY DEF BandingInv
<1>2. \A d \in BandCodes : numbered'[d] = IF d = c THEN x ELSE numbered[d]
  BY DEF BandingInv
<1>3. \A d \in BandCodes : IF numbered'[d].exists THEN subgroup[numbered'[d].sub].exists
                           ELSE numbered'[d].number = 0 /\ numbered'[d].reserved = 0
  BY <1>2 DEF BandingInv
<1>4. Banding!NumbersAgree'
  BY <1>2 DEF BandingInv, Banding!NumbersAgree
<1>5. Banding!NumbersStayInTheirBand'
  BY <1>2 DEF BandingInv, Banding!NumbersStayInTheirBand, Banding!Band
<1>6. Banding!BandsAreDisjoint'
  BY DEF BandingInv, Banding!BandsAreDisjoint, Banding!Overlap
<1> QED BY <1>1, <1>3, <1>4, <1>5, <1>6 DEF BandingInv

LEMMA BandingStep ==
  ASSUME BandingInv, Banding!Next
  PROVE  BandingInv'
<1>1. /\ group \in [Groups -> BandOfGroup] /\ subgroup \in [Subgroups -> BandOfSubgroup]
      /\ numbered \in [BandCodes -> NumberedCode]
      /\ Subgroups \subseteq Nat /\ Banding!Numbers \subseteq Nat
  BY BandingAssumption
     DEF BandingAssumption, Banding!BandsAssumption, Banding!Numbers, BandingInv
<1>2. ASSUME NEW g \in Groups, Banding!update_group(g) PROVE BandingInv'
  <2> DEFINE old == group[g]
             on == ~old.active
             x == [old EXCEPT !.active = on]
  <2>1. group' = [group EXCEPT ![g] = x] /\ UNCHANGED <<subgroup, numbered>>
    BY <1>2, Zenon DEF Banding!update_group
  <2>2. old \in BandOfGroup /\ on \in BOOLEAN
    BY <1>1 DEF BandOfGroup
  <2> HIDE DEF old, on
  <2>3. /\ x \in BandOfGroup /\ x.exists = old.exists /\ x.first = old.first /\ x.last = old.last
    BY ONLY <2>2 DEF BandOfGroup
  <2> HIDE DEF x
  <2>4. /\ group' \in [Groups -> BandOfGroup]
        /\ \A h \in Groups : /\ group'[h].exists = group[h].exists
                             /\ group'[h].first = group[h].first /\ group'[h].last = group[h].last
    BY <1>1, <2>1, <2>3 DEF old
  <2>5. Banding!BandsAreDisjoint'
    BY <2>1, <2>4 DEF BandingInv, Banding!BandsAreDisjoint, Banding!Overlap
  <2> QED BY <2>1, <2>4, <2>5
          DEF BandingInv, Banding!NumbersAgree, Banding!NumbersStayInTheirBand, Banding!Band
<1>3. ASSUME NEW g \in Groups, NEW first \in Banding!Numbers, NEW last \in Banding!Numbers,
             Banding!create_functional_system_group(g, first, last)
      PROVE  BandingInv'
  <2> DEFINE x == [exists |-> TRUE, first |-> first, last |-> last, active |-> TRUE]
  <2>1. /\ group' = [group EXCEPT ![g] = x] /\ UNCHANGED <<subgroup, numbered>>
        /\ \A h \in Groups : ~(group[h].exists /\ group[h].first <= last /\ group[h].last >= first)
    BY <1>3 DEF Banding!create_functional_system_group, Banding!Overlap
  <2>2. first \in Nat /\ last \in Nat
    BY <1>1
  <2>3. /\ x \in BandOfGroup /\ x.exists /\ x.first = first /\ x.last = last
    BY <2>2 DEF BandOfGroup
  <2> HIDE DEF x
  <2>4. /\ group' \in [Groups -> BandOfGroup]
        /\ \A h \in Groups : group'[h] = IF h = g THEN x ELSE group[h]
    BY <1>1, <2>1, <2>3
  <2>5. \A h \in Groups : group[h].first \in Nat /\ group[h].last \in Nat
    BY <1>1 DEF BandOfGroup
  <2>6. Banding!BandsAreDisjoint'
    BY <2>1, <2>2, <2>3, <2>4, <2>5 DEF BandingInv, Banding!BandsAreDisjoint, Banding!Overlap
  <2> QED BY <2>1, <2>4, <2>6
          DEF BandingInv, Banding!NumbersAgree, Banding!NumbersStayInTheirBand, Banding!Band
<1>4. ASSUME NEW s \in Subgroups, Banding!update_subgroup(s) PROVE BandingInv'
  <2> DEFINE old == subgroup[s]
             on == ~old.active
             x == [old EXCEPT !.active = on]
  <2>1. subgroup' = [subgroup EXCEPT ![s] = x] /\ UNCHANGED <<group, numbered>> /\ old.exists
    BY <1>4, Zenon DEF Banding!update_subgroup
  <2>2. old \in BandOfSubgroup /\ on \in BOOLEAN
    BY <1>1 DEF BandOfSubgroup
  <2> HIDE DEF old, on
  <2>3. /\ x \in BandOfSubgroup /\ x.exists = old.exists /\ x.first = old.first
        /\ x.last = old.last /\ x.group = old.group
    BY ONLY <2>2 DEF BandOfSubgroup
  <2> HIDE DEF x
  <2>4. /\ subgroup' \in [Subgroups -> BandOfSubgroup]
        /\ \A t \in Subgroups :
             /\ subgroup'[t].exists = subgroup[t].exists /\ subgroup'[t].group = subgroup[t].group
             /\ subgroup'[t].first = subgroup[t].first /\ subgroup'[t].last = subgroup[t].last
             /\ subgroup'[t].active => subgroup'[t].exists
    BY <1>1, <2>1, <2>3 DEF old, BandingInv
  <2>5. Banding!BandsAreDisjoint'
    BY <2>1, <2>4 DEF BandingInv, Banding!BandsAreDisjoint, Banding!Overlap
  <2>6. \A c \in BandCodes : numbered[c].sub \in Subgroups
    BY <1>1 DEF NumberedCode
  <2>7. Banding!NumbersStayInTheirBand'
    BY <2>1, <2>4, <2>6 DEF BandingInv, Banding!NumbersStayInTheirBand, Banding!Band
  <2> QED BY <2>1, <2>4, <2>5, <2>6, <2>7 DEF BandingInv, Banding!NumbersAgree
<1>5. ASSUME NEW s \in Subgroups, NEW g \in Groups, NEW first \in Banding!Numbers,
             NEW last \in Banding!Numbers, Banding!create_functional_subgroup(s, g, first, last)
      PROVE  BandingInv'
  <2> DEFINE x == [exists |-> TRUE, group |-> g, first |-> first, last |-> last, active |-> TRUE]
  <2>1. /\ subgroup' = [subgroup EXCEPT ![s] = x] /\ UNCHANGED <<group, numbered>>
        /\ ~subgroup[s].exists
        /\ \A t \in Subgroups : subgroup[t].group = g =>
             ~(subgroup[t].exists /\ subgroup[t].first <= last /\ subgroup[t].last >= first)
    BY <1>5 DEF Banding!create_functional_subgroup, Banding!SubgroupConflict, Banding!Overlap
  <2>2. first \in Nat /\ last \in Nat
    BY <1>1
  <2>3. /\ x \in BandOfSubgroup /\ x.exists /\ x.first = first /\ x.last = last /\ x.group = g
    BY <2>2 DEF BandOfSubgroup
  <2> HIDE DEF x
  <2>4. /\ subgroup' \in [Subgroups -> BandOfSubgroup]
        /\ \A t \in Subgroups : subgroup'[t] = IF t = s THEN x ELSE subgroup[t]
    BY <1>1, <2>1, <2>3
  <2>5. \A t \in Subgroups : subgroup[t].first \in Nat /\ subgroup[t].last \in Nat
    BY <1>1 DEF BandOfSubgroup
  <2>6. Banding!BandsAreDisjoint'
    BY <2>1, <2>2, <2>3, <2>4, <2>5 DEF BandingInv, Banding!BandsAreDisjoint, Banding!Overlap
  <2>7. ASSUME NEW c \in BandCodes
        PROVE  /\ {numbered[c].number, numbered[c].reserved} \subseteq
                    (subgroup'[numbered[c].sub].first .. subgroup'[numbered[c].sub].last) \union {0}
               /\ IF numbered[c].exists THEN subgroup'[numbered[c].sub].exists
                  ELSE numbered[c].number = 0 /\ numbered[c].reserved = 0
    <3>1. numbered[c].sub \in Subgroups
      BY <1>1 DEF NumberedCode
    <3>2. CASE numbered[c].exists
      <4>1. numbered[c].sub # s
        BY <2>1, <3>2 DEF BandingInv
      <4> QED BY <2>4, <3>1, <3>2, <4>1
              DEF BandingInv, Banding!NumbersStayInTheirBand, Banding!Band
    <3>3. CASE ~numbered[c].exists
      BY <3>3 DEF BandingInv
    <3> QED BY <3>2, <3>3
  <2>8. Banding!NumbersStayInTheirBand'
    BY <2>1, <2>7 DEF Banding!NumbersStayInTheirBand, Banding!Band
  <2> QED BY <2>1, <2>3, <2>4, <2>6, <2>7, <2>8 DEF BandingInv, Banding!NumbersAgree
<1>6. ASSUME NEW c \in BandCodes, NEW s \in Subgroups, Banding!create_draft(c, s) PROVE BandingInv'
  <2> DEFINE x == [Banding!NoCode EXCEPT !.exists = TRUE, !.sub = s]
  <2>1. numbered' = [numbered EXCEPT ![c] = x] /\ UNCHANGED <<group, subgroup>> /\ subgroup[s].exists
    BY <1>6 DEF Banding!create_draft, BandingInv
  <2>2. x \in NumberedCode /\ x.exists /\ x.sub = s /\ x.number = 0 /\ x.reserved = 0
    BY DEF Banding!NoCode, NumberedCode
  <2> HIDE DEF x
  <2> QED BY <2>1, <2>2, OneCodeChanges
<1>7. ASSUME NEW c \in BandCodes, NEW n \in Banding!Numbers, Banding!import_program(c, n)
      PROVE  BandingInv'
  <2>1. PICK s \in Banding!band_of(n) :
          numbered' = [numbered EXCEPT
            ![c] = [exists |-> TRUE, sub |-> s, number |-> 0, reserved |-> n]]
    BY <1>7 DEF Banding!import_program
  <2> DEFINE holding == {t \in Subgroups : subgroup[t].active /\ group[subgroup[t].group].active
                                           /\ n \in Banding!Band(t)}
             x == [exists |-> TRUE, sub |-> s, number |-> 0, reserved |-> n]
  <2>2. s \in holding
    <3>1. holding # {} /\ s = CHOOSE t \in holding : \A y \in holding : t <= y
      BY DEF Banding!band_of, Banding!Min
    <3>2. holding \subseteq Nat
      BY <1>1
    <3> HIDE DEF holding
    <3>3. \E t \in holding : \A y \in holding : t <= y
      BY <3>1, <3>2, LeastNumber
    <3> QED BY <3>1, <3>3
  <2>3. s \in Subgroups /\ subgroup[s].exists /\ n \in Banding!Band(s)
    BY <2>2 DEF BandingInv
  <2>4. \A d \in BandCodes : numbered[d].number # n
    BY <1>7 DEF Banding!import_program, Banding!Issued
  <2>5. x \in NumberedCode /\ x.exists /\ x.sub = s /\ x.number = 0 /\ x.reserved = n
    BY <1>1, <2>3 DEF NumberedCode
  <2>6. UNCHANGED <<group, subgroup>>
    BY <1>7 DEF Banding!import_program
  <2> HIDE DEF x, holding
  <2> QED BY <2>1, <2>3, <2>4, <2>5, <2>6, OneCodeChanges DEF x
<1>8. ASSUME NEW c \in BandCodes, NEW n \in Banding!Numbers, Banding!submit(c, n) PROVE BandingInv'
  <2> DEFINE old == numbered[c]
             x == [old EXCEPT !.number = n]
  <2>1. /\ numbered' = [numbered EXCEPT ![c] = x] /\ UNCHANGED <<group, subgroup>>
    BY <1>8, Zenon DEF Banding!submit
  <2>2. old \in NumberedCode /\ n \in Nat /\ old.sub \in Subgroups /\ old.exists
        /\ subgroup[old.sub].exists
    BY <1>1, <1>8 DEF Banding!submit, NumberedCode, BandingInv
  <2>3. \A d \in BandCodes : numbered[d].number # n
    BY <1>8 DEF Banding!submit, Banding!Issued
  <2>4. n \in Banding!Band(old.sub) /\ \A d \in BandCodes \ {c} : numbered[d].reserved # n
    <3>1. n \in Banding!allocate_next_identifier(old.sub) \/ n \in Banding!validate_manual_identifier(c)
      BY <1>8 DEF Banding!submit
    <3>2. CASE n \in Banding!allocate_next_identifier(old.sub)
      BY <2>2, <3>2, NextNumber DEF Banding!Reserved
    <3>3. CASE n \in Banding!validate_manual_identifier(c)
      BY <3>3 DEF Banding!validate_manual_identifier
    <3> QED BY <3>1, <3>2, <3>3
  <2>5. old.reserved \in Banding!Band(old.sub) \union {0}
    BY DEF BandingInv, Banding!NumbersStayInTheirBand
  <2>6. \A d \in BandCodes \ {c} : numbered[d].number # 0 => numbered[d].number # old.reserved
    BY DEF BandingInv, Banding!NumbersAgree
  <2> HIDE DEF old
  <2>7. /\ x \in NumberedCode /\ x.exists /\ x.sub = old.sub /\ x.number = n
        /\ x.reserved = old.reserved
    BY ONLY <2>2 DEF NumberedCode
  <2> HIDE DEF x
  <2>8. /\ {x.number, x.reserved} \subseteq Banding!Band(x.sub) \union {0}
        /\ \A d \in BandCodes \ {c} :
             x.number # numbered[d].number /\ x.number # numbered[d].reserved
        /\ \A d \in BandCodes \ {c} :
             numbered[d].number # 0 => numbered[d].number \notin {x.number, x.reserved}
    BY <2>3, <2>4, <2>5, <2>6, <2>7
  <2>9. subgroup[x.sub].exists
    BY <2>2, <2>7
  <2> QED BY ONLY BandingInv, c \in BandCodes, <2>1, <2>7, <2>8, <2>9, OneCodeChanges
<1>9. ASSUME NEW c \in BandCodes, Banding!withdraw(c) PROVE BandingInv'
  <2> DEFINE old == numbered[c]
             x == [old EXCEPT !.reserved = 0]
  <2>1. /\ numbered' = [numbered EXCEPT ![c] = x] /\ UNCHANGED <<group, subgroup>>
        /\ old.exists /\ old.number = 0
    BY <1>9, Zenon DEF Banding!withdraw
  <2>2. old \in NumberedCode /\ subgroup[old.sub].exists
    BY <1>1, <2>1 DEF BandingInv
  <2> HIDE DEF old
  <2>3. /\ x \in NumberedCode /\ x.exists = old.exists /\ x.sub = old.sub
        /\ x.number = old.number /\ x.reserved = 0
    BY ONLY <2>2 DEF NumberedCode
  <2> HIDE DEF x
  <2> QED BY <2>1, <2>2, <2>3, OneCodeChanges
<1> QED BY <1>2, <1>3, <1>4, <1>5, <1>6, <1>7, <1>8, <1>9 DEF Banding!Next

\* LookupsHold: however the Administrators add and switch off bands and reorder versions while
\* codes draw, reserve and give up numbers, bands are disjoint, a number is one code's and in
\* its band, saved ranges hold and the targets of a published Release stand
\* (lookup_admin_service, numbering_service, software_version_service).
THEOREM WorkLookupsHold == Spec => LookupsHold
<1>1. Init => BandingInv /\ VersioningInv
  BY BandingBegins, VersioningBegins DEF Init
<1>2. BandingInv /\ [Next]_vars => BandingInv'
  <2> SUFFICES ASSUME BandingInv, [Next]_vars PROVE BandingInv'
    OBVIOUS
  <2>1. Banding!Next \/ UNCHANGED banding
    BY DEF Next, Only, vars
  <2>2. ASSUME UNCHANGED banding PROVE BandingInv'
    BY <2>2 DEF banding, BandingInv, Banding!BandsAreDisjoint, Banding!Overlap,
                Banding!NumbersAgree, Banding!NumbersStayInTheirBand, Banding!Band
  <2> QED BY <2>1, <2>2, BandingStep
<1>3. VersioningInv /\ [Next]_vars => VersioningInv' /\ TargetsStay
  <2> SUFFICES ASSUME VersioningInv, [Next]_vars PROVE VersioningInv' /\ TargetsStay
    OBVIOUS
  <2>1. Versioning!Next \/ UNCHANGED versioning
    BY DEF Next, Only, vars
  <2>2. ASSUME UNCHANGED versioning PROVE VersioningInv' /\ TargetsStay
    BY <2>2 DEF versioning, VersioningInv, Fits, TargetsStay
  <2> QED BY <2>1, <2>2, VersioningStep
<1>4. BandingInv => /\ Banding!BandsAreDisjoint /\ Banding!NumbersAgree
                    /\ Banding!NumbersStayInTheirBand
  BY DEF BandingInv
<1>5. VersioningInv => Versioning!SavedRangesHold
  BY RangesHold
<1> QED BY <1>1, <1>2, <1>3, <1>4, <1>5, PTL
        DEF Spec, LookupsHold, Versioning!TargetsStand, TargetsStay

-----------------------------------------------------------------------------
(* Hub consolidation.  Only the newest revision of a code is open; one     *)
(* that is released stays so; a replacement, once there, stays; and the    *)
(* rows a bulk request still asks for have a replacement that was released.*)

WasReleased(m) == \E k \in DOMAIN catalogue[m] : catalogue[m][k].status = "RELEASED"

Superseded(h) == replacement[h] \in MainCodes /\ WasReleased(replacement[h])

CatalogueFits ==
  /\ catalogue \in [Hubs!Codes -> Seq(Hubs!Revision)]
  /\ replacement \in [HubCodes -> MainCodes \union {0}]
  /\ \A c \in Hubs!Codes : \A n \in DOMAIN catalogue[c] :
       catalogue[c][n].status = "DRAFT" => n = Len(catalogue[c])
  /\ \A h \in HubCodes : \A n \in DOMAIN catalogue[h] :
       catalogue[h][n].bulk => catalogue[h][n].by = replacement[h] /\ Superseded(h)

IsJob(x) ==
  /\ x = [running |-> x.running, report |-> x.report, created |-> x.created, skipped |-> x.skipped]
  /\ DOMAIN x.report \subseteq HubCodes

JobsFit ==
  /\ job = [a \in HubAdmins |-> job[a]]
  /\ \A a \in HubAdmins :
       /\ IsJob(job[a])
       /\ \A h \in DOMAIN job[a].report : job[a].report[h] = "ASK" => Superseded(h)

\* What is released and what is replaced stay.
Steady ==
  /\ \A h \in HubCodes : replacement[h] # 0 => replacement'[h] = replacement[h]
  /\ \A c \in Hubs!Codes : \A k \in DOMAIN catalogue[c] :
       catalogue[c][k].status = "RELEASED" =>
         k \in DOMAIN catalogue'[c] /\ catalogue'[c][k].status = "RELEASED"

LEMMA HubNumbers ==
  /\ HubCodes \subseteq Nat \ {0} /\ MainCodes \subseteq Nat \ {0}
  /\ Hubs!Codes = HubCodes \union MainCodes
BY HubsAssumption DEF HubsAssumption, Hubs!HubAssumption, Hubs!Codes

LEMMA HubsBegin == Hubs!Init => CatalogueFits /\ JobsFit
<1> SUFFICES ASSUME Hubs!Init PROVE CatalogueFits /\ JobsFit
  OBVIOUS
<1> DEFINE x == [Hubs!NewRevision EXCEPT !.status = "RELEASED"]
<1>1. x \in Hubs!Revision /\ x.status = "RELEASED" /\ ~x.bulk
  BY DEF Hubs!NewRevision, Hubs!Revision, Hubs!Statuses
<1>2. catalogue = [c \in Hubs!Codes |-> IF c \in HubCodes THEN <<x>> ELSE <<>>]
  BY DEF Hubs!Init
<1> HIDE DEF x
<1>3. <<x>> \in Seq(Hubs!Revision) /\ DOMAIN <<x>> = {1} /\ <<x>>[1] = x /\ Len(<<x>>) = 1
  BY <1>1
<1>4. catalogue \in [Hubs!Codes -> Seq(Hubs!Revision)]
  BY <1>2, <1>3
<1>5. \A c \in Hubs!Codes : \A n \in DOMAIN catalogue[c] : catalogue[c][n] = x
  BY <1>2, <1>3
<1>6. replacement \in [HubCodes -> MainCodes \union {0}]
  BY DEF Hubs!Init
<1>7. CatalogueFits
  BY <1>1, <1>4, <1>5, <1>6, HubNumbers DEF CatalogueFits
<1>8. \A a \in HubAdmins : job[a] = Hubs!NoJob
  BY DEF Hubs!Init
<1>9. IsJob(Hubs!NoJob) /\ DOMAIN Hubs!NoJob.report = {}
  BY DEF Hubs!NoJob, IsJob
<1>10. JobsFit
  BY <1>8, <1>9 DEF JobsFit, Hubs!Init
<1> QED BY <1>7, <1>10

LEMMA SupersededStays ==
  ASSUME CatalogueFits, Steady, NEW h \in HubCodes, Superseded(h)
  PROVE  Superseded(h)'
<1>1. replacement'[h] = replacement[h] /\ replacement[h] \in Hubs!Codes
  BY HubNumbers DEF Superseded, Steady
<1> QED BY <1>1 DEF Superseded, WasReleased, Steady

\* The revisions of one code change: what is open is the newest, what is released stays, and
\* what a bulk request asked for names the replacement.
LEMMA OneCatalogueRowChanges ==
  ASSUME CatalogueFits, NEW c \in Hubs!Codes, NEW x \in Seq(Hubs!Revision),
         catalogue' = [catalogue EXCEPT ![c] = x],
         replacement' \in [HubCodes -> MainCodes \union {0}],
         \A h \in HubCodes : replacement[h] # 0 => replacement'[h] = replacement[h],
         \A n \in DOMAIN x : x[n].status = "DRAFT" => n = Len(x),
         \A k \in DOMAIN catalogue[c] :
           catalogue[c][k].status = "RELEASED" => k \in DOMAIN x /\ x[k].status = "RELEASED",
         \A n \in DOMAIN x : x[n].bulk =>
           \/ n \in DOMAIN catalogue[c] /\ catalogue[c][n].bulk /\ catalogue[c][n].by = x[n].by
           \/ c \in HubCodes /\ x[n].by = replacement[c] /\ Superseded(c)
  PROVE  CatalogueFits' /\ Steady
<1>1. \A d \in Hubs!Codes : catalogue'[d] = IF d = c THEN x ELSE catalogue[d]
  BY DEF CatalogueFits
<1>2. Steady
  BY <1>1 DEF Steady, CatalogueFits
<1>3. catalogue' \in [Hubs!Codes -> Seq(Hubs!Revision)]
  BY DEF CatalogueFits
<1>4. ASSUME NEW d \in Hubs!Codes, NEW n \in DOMAIN catalogue'[d], catalogue'[d][n].status = "DRAFT"
      PROVE  n = Len(catalogue'[d])
  BY <1>1, <1>4 DEF CatalogueFits
<1>5. ASSUME NEW h \in HubCodes, NEW n \in DOMAIN catalogue'[h], catalogue'[h][n].bulk
      PROVE  catalogue'[h][n].by = replacement'[h] /\ Superseded(h)'
  <2>1. h \in Hubs!Codes
    BY HubNumbers
  <2>2. catalogue'[h][n].by = replacement[h] /\ Superseded(h)
    BY <1>1, <1>5, <2>1 DEF CatalogueFits
  <2>3. replacement[h] # 0
    BY <2>2, HubNumbers DEF Superseded
  <2> QED BY <1>2, <2>2, <2>3, SupersededStays DEF Steady
<1> QED BY <1>2, <1>3, <1>4, <1>5 DEF CatalogueFits

LEMMA JobsStay ==
  ASSUME CatalogueFits, JobsFit, Steady, UNCHANGED job
  PROVE  JobsFit'
<1>1. \A a \in HubAdmins, h \in HubCodes :
        h \in DOMAIN job[a].report /\ job[a].report[h] = "ASK" => Superseded(h)'
  BY SupersededStays DEF JobsFit
<1> QED BY <1>1 DEF JobsFit, IsJob

\* A revision is added to a code that has no open one.
LEMMA RevisionIsAdded ==
  ASSUME CatalogueFits, NEW c \in Hubs!Codes, NEW r \in Hubs!Revision, ~Hubs!HasOpen(c),
         catalogue' = [catalogue EXCEPT ![c] = Append(@, r)],
         replacement' \in [HubCodes -> MainCodes \union {0}],
         \A h \in HubCodes : replacement[h] # 0 => replacement'[h] = replacement[h],
         r.bulk => c \in HubCodes /\ r.by = replacement[c] /\ Superseded(c)
  PROVE  CatalogueFits' /\ Steady
<1> DEFINE old == catalogue[c]
           x == Append(old, r)
<1>1. catalogue' = [catalogue EXCEPT ![c] = x]
  BY Zenon
<1>2. old \in Seq(Hubs!Revision)
  BY DEF CatalogueFits
<1> HIDE DEF old
<1>3. /\ x \in Seq(Hubs!Revision) /\ Len(x) = Len(old) + 1 /\ Len(old) \in Nat
      /\ DOMAIN x = 1 .. Len(old) + 1 /\ DOMAIN old = 1 .. Len(old)
      /\ x[Len(old) + 1] = r /\ \A n \in 1 .. Len(old) : x[n] = old[n]
  BY ONLY <1>2, r \in Hubs!Revision
<1> HIDE DEF x
<1>4. \A n \in DOMAIN old : old[n].status # "DRAFT"
  BY DEF Hubs!HasOpen, old
<1>5. /\ \A n \in DOMAIN x : x[n].status = "DRAFT" => n = Len(x)
      /\ \A k \in DOMAIN old : old[k].status = "RELEASED" => k \in DOMAIN x /\ x[k].status = "RELEASED"
      /\ \A n \in DOMAIN x : (n \in DOMAIN old /\ x[n] = old[n]) \/ x[n] = r
  BY ONLY <1>3, <1>4
<1>6. \A n \in DOMAIN x : x[n].bulk =>
           \/ n \in DOMAIN catalogue[c] /\ catalogue[c][n].bulk /\ catalogue[c][n].by = x[n].by
           \/ c \in HubCodes /\ x[n].by = replacement[c] /\ Superseded(c)
  BY <1>5 DEF old
<1> QED BY <1>1, <1>3, <1>5, <1>6, OneCatalogueRowChanges DEF old

\* The status of a revision that is not released changes.
LEMMA RevisionMoves ==
  ASSUME CatalogueFits, UNCHANGED replacement, NEW c \in Hubs!Codes, NEW k \in DOMAIN catalogue[c],
         NEW status \in Hubs!Statuses \ {"DRAFT"}, catalogue[c][k].status # "RELEASED",
         catalogue' = [catalogue EXCEPT ![c][k].status = status]
  PROVE  CatalogueFits' /\ Steady
<1> DEFINE old == catalogue[c]
           r == [old[k] EXCEPT !.status = status]
           x == [old EXCEPT ![k] = r]
<1>1. catalogue' = [catalogue EXCEPT ![c] = x]
  BY Zenon
<1>2. old \in Seq(Hubs!Revision) /\ k \in DOMAIN old /\ old[k].status # "RELEASED"
  BY DEF CatalogueFits
<1>3. \A n \in DOMAIN old : old[n].status = "DRAFT" => n = Len(old)
  BY DEF CatalogueFits
<1> HIDE DEF old, r
<1>4. r \in Hubs!Revision /\ r.bulk = old[k].bulk /\ r.by = old[k].by /\ r.status = status
  <2> DEFINE o == old[k]
  <2>1. ASSUME NEW S, NEW q \in Seq(S), NEW i \in DOMAIN q PROVE q[i] \in S
    OBVIOUS
  <2>2. o \in Hubs!Revision
    BY ONLY <1>2, <2>1
  <2>3. r = [o EXCEPT !.status = status]
    BY DEF r
  <2> HIDE DEF o
  <2>4. r \in Hubs!Revision /\ r.bulk = o.bulk /\ r.by = o.by /\ r.status = status
    BY ONLY <2>2, <2>3, status \in Hubs!Statuses \ {"DRAFT"} DEF Hubs!Revision
  <2> QED BY <2>4 DEF o
<1>5. /\ x \in Seq(Hubs!Revision) /\ Len(x) = Len(old) /\ DOMAIN x = DOMAIN old
      /\ \A n \in DOMAIN old : x[n] = IF n = k THEN r ELSE old[n]
  BY ONLY <1>2, <1>4
<1> HIDE DEF x
<1>6. status # "DRAFT"
  OBVIOUS
<1>7. /\ \A n \in DOMAIN x : x[n].status = "DRAFT" => n = Len(x)
      /\ \A n \in DOMAIN old : old[n].status = "RELEASED" => n \in DOMAIN x /\ x[n].status = "RELEASED"
      /\ \A n \in DOMAIN x : n \in DOMAIN old /\ x[n].bulk = old[n].bulk /\ x[n].by = old[n].by
  BY ONLY <1>2, <1>3, <1>4, <1>5, <1>6
<1> QED BY <1>1, <1>5, <1>7, OneCatalogueRowChanges DEF old, CatalogueFits

\* Who was asked about next is one of the rows that are left.
LEMMA NextRow ==
  ASSUME JobsFit, NEW a \in HubAdmins, Hubs!Rest(a) # {}
  PROVE  Hubs!NextItem(a) \in HubCodes /\ Hubs!NextItem(a) \in DOMAIN job[a].report
<1>1. Hubs!Rest(a) \subseteq DOMAIN job[a].report /\ DOMAIN job[a].report \subseteq HubCodes
  BY DEF JobsFit, IsJob, Hubs!Rest
<1>2. Hubs!Rest(a) \subseteq Nat
  BY <1>1, HubNumbers
<1>3. \E h \in Hubs!Rest(a) : \A k \in Hubs!Rest(a) : h <= k
  BY <1>2, LeastNumber
<1>4. Hubs!NextItem(a) \in Hubs!Rest(a)
  BY <1>3 DEF Hubs!NextItem
<1> QED BY <1>1, <1>4

\* A bulk request goes on, and its report stays.
LEMMA JobGoesOn ==
  ASSUME CatalogueFits, JobsFit, Steady, NEW a \in HubAdmins, NEW x, IsJob(x),
         x.report = job[a].report, job' = [job EXCEPT ![a] = x]
  PROVE  JobsFit'
<1>1. \A b \in HubAdmins : job'[b] = IF b = a THEN x ELSE job[b]
  BY DEF JobsFit
<1>2. job' = [b \in HubAdmins |-> job'[b]]
  BY DEF JobsFit
<1>3. ASSUME NEW b \in HubAdmins
      PROVE  /\ IsJob(job'[b])
             /\ \A h \in DOMAIN job'[b].report : job'[b].report[h] = "ASK" => Superseded(h)'
  <2>1. IsJob(job'[b]) /\ job'[b].report = job[b].report /\ DOMAIN job[b].report \subseteq HubCodes
    BY <1>1 DEF JobsFit, IsJob
  <2>2. \A h \in DOMAIN job[b].report : job[b].report[h] = "ASK" => Superseded(h)'
    BY <2>1, SupersededStays DEF JobsFit
  <2> QED BY <2>1, <2>2
<1> QED BY <1>2, <1>3 DEF JobsFit

LEMMA JobsAreWritten ==
  ASSUME NEW w, IsJob(w), NEW created, NEW skipped, NEW x,
         x = [w EXCEPT !.created = created] \/ x = [w EXCEPT !.skipped = skipped]
  PROVE  IsJob(x) /\ x.report = w.report
<1> DEFINE running == w.running
           report == w.report
           c == w.created
           s == w.skipped
<1>1. w = [running |-> running, report |-> report, created |-> c, skipped |-> s]
  BY DEF IsJob
<1>2. DOMAIN report \subseteq HubCodes
  BY DEF IsJob
<1> HIDE DEF running, report, c, s
<1>3. \/ x = [running |-> running, report |-> report, created |-> created, skipped |-> s]
      \/ x = [running |-> running, report |-> report, created |-> c, skipped |-> skipped]
  BY ONLY <1>1, x = [w EXCEPT !.created = created] \/ x = [w EXCEPT !.skipped = skipped]
<1> QED BY ONLY <1>1, <1>2, <1>3 DEF IsJob

\* The newest revision of a code: what Current is about.
LEMMA NewestRevision ==
  ASSUME CatalogueFits, NEW c \in Hubs!Codes, Hubs!Current(c) # "NONE"
  PROVE  /\ Len(catalogue[c]) \in DOMAIN catalogue[c]
         /\ catalogue[c][Len(catalogue[c])].status = Hubs!Current(c)
<1>1. catalogue[c] \in Seq(Hubs!Revision) /\ catalogue[c] # <<>>
  BY DEF CatalogueFits, Hubs!Current
<1>2. Len(catalogue[c]) \in DOMAIN catalogue[c]
  BY <1>1
<1> QED BY <1>1, <1>2 DEF Hubs!Current

LEMMA CurrentMoves ==
  ASSUME CatalogueFits, UNCHANGED replacement, NEW c \in Hubs!Codes,
         Hubs!Current(c) \notin {"NONE", "RELEASED"},
         NEW status \in Hubs!Statuses \ {"DRAFT"}, Hubs!SetCurrent(c, status)
  PROVE  CatalogueFits' /\ Steady
<1>1. /\ Len(catalogue[c]) \in DOMAIN catalogue[c]
      /\ catalogue[c][Len(catalogue[c])].status # "RELEASED"
  BY NewestRevision
<1>2. catalogue' = [catalogue EXCEPT ![c][Len(catalogue[c])].status = status]
  BY DEF Hubs!SetCurrent
<1> QED BY <1>1, <1>2, RevisionMoves

\* A sequence without its last element.
LEMMA AllButLast ==
  ASSUME NEW S, NEW q \in Seq(S), q # <<>>
  PROVE  /\ SubSeq(q, 1, Len(q) - 1) \in Seq(S) /\ Len(SubSeq(q, 1, Len(q) - 1)) = Len(q) - 1
         /\ \A n \in 1 .. Len(q) - 1 : SubSeq(q, 1, Len(q) - 1)[n] = q[n]
<1> DEFINE k == Len(q) - 1
<1>1. Len(q) \in Nat \ {0} /\ k \in Nat /\ k \in Int /\ 1 \in Int
  OBVIOUS
<1>2. \A n \in 1 .. k : q[n] \in S
  OBVIOUS
<1> HIDE DEF k
<1>3. /\ SubSeq(q, 1, k) \in Seq(S)
      /\ Len(SubSeq(q, 1, k)) = IF 1 <= k THEN k - 1 + 1 ELSE 0
      /\ \A n \in 1 .. k - 1 + 1 : SubSeq(q, 1, k)[n] = q[1 + n - 1]
  BY ONLY <1>1, <1>2, SubSeqProperties
<1>4. /\ SubSeq(q, 1, k) \in Seq(S) /\ Len(SubSeq(q, 1, k)) = k
      /\ \A n \in 1 .. k : SubSeq(q, 1, k)[n] = q[n]
  BY <1>1, <1>3
<1> QED BY <1>4 DEF k

\* The draft on top is deleted.
LEMMA DraftIsWithdrawn ==
  ASSUME CatalogueFits, UNCHANGED replacement, NEW c \in Hubs!Codes, Hubs!Current(c) = "DRAFT",
         catalogue' = [catalogue EXCEPT ![c] = SubSeq(@, 1, Len(@) - 1)]
  PROVE  CatalogueFits' /\ Steady
<1> DEFINE old == catalogue[c]
           x == SubSeq(old, 1, Len(old) - 1)
<1>1. catalogue' = [catalogue EXCEPT ![c] = x]
  BY Zenon
<1>2. old \in Seq(Hubs!Revision) /\ Len(old) \in DOMAIN old /\ old[Len(old)].status = "DRAFT"
  BY NewestRevision DEF CatalogueFits
<1>3. \A n \in DOMAIN old : old[n].status = "DRAFT" => n = Len(old)
  BY DEF CatalogueFits
<1> HIDE DEF old
<1>4. /\ x \in Seq(Hubs!Revision) /\ Len(x) = Len(old) - 1 /\ Len(old) \in Nat \ {0}
      /\ DOMAIN x = 1 .. Len(old) - 1 /\ DOMAIN old = 1 .. Len(old)
      /\ \A n \in 1 .. Len(old) - 1 : x[n] = old[n]
  <2>1. old # <<>> /\ Len(old) \in Nat \ {0} /\ DOMAIN old = 1 .. Len(old)
    BY ONLY <1>2
  <2>2. /\ x \in Seq(Hubs!Revision) /\ Len(x) = Len(old) - 1
        /\ \A n \in 1 .. Len(old) - 1 : x[n] = old[n]
    BY ONLY <1>2, <2>1, AllButLast DEF x
  <2> HIDE DEF x
  <2> QED BY ONLY <2>1, <2>2
<1> HIDE DEF x
<1>5. /\ \A n \in DOMAIN x : x[n].status = "DRAFT" => n = Len(x)
      /\ \A n \in DOMAIN old : old[n].status = "RELEASED" => n \in DOMAIN x /\ x[n].status = "RELEASED"
      /\ \A n \in DOMAIN x : n \in DOMAIN old /\ x[n] = old[n]
  BY ONLY <1>2, <1>3, <1>4
<1> QED BY <1>1, <1>4, <1>5, OneCatalogueRowChanges DEF old, CatalogueFits

LEMMA RevisionsOfRequests ==
  /\ Hubs!NewRevision \in Hubs!Revision /\ ~Hubs!NewRevision.bulk
  /\ [Hubs!NewRevision EXCEPT !.deprecation = TRUE] \in Hubs!Revision
  /\ ~[Hubs!NewRevision EXCEPT !.deprecation = TRUE].bulk
BY DEF Hubs!NewRevision, Hubs!Revision, Hubs!Statuses

\* Each operation on one code keeps the catalogue in order.
LEMMA CodeStep ==
  ASSUME CatalogueFits, NEW c \in Hubs!Codes,
         \/ Hubs!create_revision(c) \/ Hubs!create_deprecation_request(c) \/ Hubs!Approve(c)
         \/ Hubs!withdraw(c) \/ Hubs!publish(c) \/ Hubs!archive(c) \/ Hubs!reinstate(c)
  PROVE  CatalogueFits' /\ Steady /\ UNCHANGED job
<1>1. replacement \in [HubCodes -> MainCodes \union {0}]
  BY DEF CatalogueFits
<1>2. CASE Hubs!create_revision(c)
  <2>1. /\ ~Hubs!HasOpen(c) /\ UNCHANGED <<replacement, job>>
        /\ catalogue' = [catalogue EXCEPT ![c] = Append(@, Hubs!NewRevision)]
    BY <1>2 DEF Hubs!create_revision, Hubs!Append1
  <2>2. CatalogueFits' /\ Steady
    BY <1>1, <2>1, RevisionsOfRequests, RevisionIsAdded
  <2> QED BY <2>1, <2>2
<1>3. CASE Hubs!create_deprecation_request(c)
  <2> DEFINE r == [Hubs!NewRevision EXCEPT !.deprecation = TRUE]
  <2>1. /\ ~Hubs!HasOpen(c) /\ UNCHANGED <<replacement, job>>
        /\ catalogue' = [catalogue EXCEPT ![c] = Append(@, r)]
    BY <1>3, Zenon DEF Hubs!create_deprecation_request, Hubs!Append1, Hubs!MayBeDeprecated
  <2>2. r \in Hubs!Revision /\ ~r.bulk
    BY RevisionsOfRequests
  <2> HIDE DEF r
  <2>3. CatalogueFits' /\ Steady
    BY <1>1, <2>1, <2>2, RevisionIsAdded
  <2> QED BY <2>1, <2>3
<1>4. CASE Hubs!Approve(c)
  <2> DEFINE to == IF catalogue[c][Len(catalogue[c])].deprecation THEN "DEPRECATED" ELSE "APPROVED"
  <2>1. Hubs!Current(c) = "DRAFT" /\ Hubs!SetCurrent(c, to) /\ UNCHANGED <<replacement, job>>
    BY <1>4 DEF Hubs!Approve
  <2>2. to \in Hubs!Statuses \ {"DRAFT"}
    BY DEF Hubs!Statuses
  <2> HIDE DEF to
  <2> QED BY <2>1, <2>2, CurrentMoves
<1>5. CASE Hubs!withdraw(c)
  BY <1>5, DraftIsWithdrawn DEF Hubs!withdraw
<1>6. CASE Hubs!publish(c)
  <2>1. PICK n \in DOMAIN catalogue[c] :
          /\ catalogue[c][n].status = "APPROVED"
          /\ catalogue' = [catalogue EXCEPT ![c][n].status = "RELEASED"]
    BY <1>6 DEF Hubs!publish
  <2>2. UNCHANGED <<replacement, job>> /\ "RELEASED" \in Hubs!Statuses \ {"DRAFT"}
    BY <1>6 DEF Hubs!publish, Hubs!Statuses
  <2> QED BY <2>1, <2>2, RevisionMoves
<1>7. CASE Hubs!archive(c) \/ Hubs!reinstate(c)
  <2>1. /\ Hubs!Current(c) = "DEPRECATED" /\ UNCHANGED <<replacement, job>>
        /\ Hubs!SetCurrent(c, "ARCHIVED") \/ Hubs!SetCurrent(c, "RELEASED")
    BY <1>7 DEF Hubs!archive, Hubs!reinstate
  <2>2. {"ARCHIVED", "RELEASED"} \subseteq Hubs!Statuses \ {"DRAFT"}
    BY DEF Hubs!Statuses
  <2> QED BY <2>1, <2>2, CurrentMoves
<1> QED BY <1>2, <1>3, <1>4, <1>5, <1>6, <1>7

\* A replacement is drafted: a new row, and the first revision of an unused code.
LEMMA ReplacementIsDrafted ==
  ASSUME CatalogueFits, NEW h \in HubCodes, Hubs!create_mc_draft(h)
  PROVE  CatalogueFits' /\ Steady /\ UNCHANGED job
<1>1. PICK m \in MainCodes :
        /\ catalogue[m] = <<>> /\ replacement' = [replacement EXCEPT ![h] = m]
        /\ catalogue' = [catalogue EXCEPT ![m] = Append(@, Hubs!NewRevision)]
  BY DEF Hubs!create_mc_draft, Hubs!Append1
<1>2. replacement[h] = 0 /\ UNCHANGED job
  BY DEF Hubs!create_mc_draft, Hubs!HasReplacement
<1>3. /\ replacement' \in [HubCodes -> MainCodes \union {0}]
      /\ \A k \in HubCodes : replacement[k] # 0 => replacement'[k] = replacement[k]
  BY <1>1, <1>2 DEF CatalogueFits
<1>4. m \in Hubs!Codes /\ ~Hubs!HasOpen(m)
  BY <1>1, HubNumbers DEF Hubs!HasOpen
<1>5. CatalogueFits' /\ Steady
  BY <1>1, <1>3, <1>4, RevisionsOfRequests, RevisionIsAdded
<1> QED BY <1>2, <1>5

LEMMA FreshJob ==
  ASSUME NEW report, NEW w, w = Hubs!NoJob, NEW x,
         x = [w EXCEPT !.running = TRUE, !.report = report]
  PROVE  x = [running |-> TRUE, report |-> report, created |-> {}, skipped |-> {}]
<1> DEFINE none == [h \in {} |-> "OPEN"]
<1>1. w = [running |-> FALSE, report |-> none, created |-> {}, skipped |-> {}]
  BY DEF Hubs!NoJob
<1> HIDE DEF none
<1> QED BY ONLY <1>1, x = [w EXCEPT !.running = TRUE, !.report = report]

\* A bulk request begins with the rows whose replacement is released at that moment.
LEMMA BulkBegins ==
  ASSUME CatalogueFits, JobsFit, NEW a \in HubAdmins, Hubs!StartBulk(a)
  PROVE  CatalogueFits' /\ JobsFit'
<1> DEFINE report == [h \in {y \in HubCodes : catalogue[y] # <<>>} |->
                        IF Hubs!Askable(h) THEN "ASK" ELSE Hubs!mapping_report(h)]
           x == [Hubs!NoJob EXCEPT !.running = TRUE, !.report = report]
<1>1. job' = [job EXCEPT ![a] = x] /\ UNCHANGED <<catalogue, replacement>>
  BY Zenon DEF Hubs!StartBulk
<1>2. DOMAIN report \subseteq HubCodes
  OBVIOUS
<1>3. \A h \in HubCodes : Hubs!mapping_report(h) # "ASK"
  BY DEF Hubs!mapping_report
<1>4. ASSUME NEW h \in DOMAIN report, report[h] = "ASK" PROVE Superseded(h)
  <2>1. h \in HubCodes /\ Hubs!Askable(h)
    BY <1>3, <1>4
  <2>2. replacement[h] \in MainCodes /\ Hubs!Current(replacement[h]) = "RELEASED"
    BY <2>1 DEF Hubs!Askable, Hubs!mapping_report, CatalogueFits
  <2>3. replacement[h] \in Hubs!Codes
    BY <2>2, HubNumbers
  <2>4. WasReleased(replacement[h])
    BY <2>2, <2>3, NewestRevision DEF WasReleased
  <2> QED BY <2>2, <2>4 DEF Superseded
<1> HIDE DEF report
<1>5. x = [running |-> TRUE, report |-> report, created |-> {}, skipped |-> {}]
  BY FreshJob, Zenon
<1> HIDE DEF x
<1>6. IsJob(x) /\ x.report = report
  BY ONLY <1>2, <1>5 DEF IsJob
<1>7. job' = [b \in HubAdmins |-> job'[b]] /\ \A b \in HubAdmins : job'[b] = IF b = a THEN x ELSE job[b]
  BY <1>1 DEF JobsFit
<1>8. /\ \A h \in DOMAIN x.report : x.report[h] = "ASK" => Superseded(h)
      /\ \A b \in HubAdmins :
           /\ IsJob(job[b])
           /\ \A h \in DOMAIN job[b].report : job[b].report[h] = "ASK" => Superseded(h)
  BY <1>4, <1>6 DEF JobsFit
<1>9. \A b \in HubAdmins :
        /\ IsJob(job'[b])
        /\ \A h \in DOMAIN job'[b].report : job'[b].report[h] = "ASK" => Superseded(h)
  BY <1>6, <1>7, <1>8
<1>10. CatalogueFits' /\ (\A h : Superseded(h)' <=> Superseded(h))
  BY <1>1 DEF CatalogueFits, Superseded, WasReleased
<1> QED BY <1>7, <1>9, <1>10 DEF JobsFit

\* An item is skipped, because of its row or because the request is refused.
LEMMA ItemIsSkipped ==
  ASSUME CatalogueFits, JobsFit, NEW a \in HubAdmins, Hubs!SkipItem(a) \/ Hubs!ItemFails(a)
  PROVE  CatalogueFits' /\ JobsFit'
<1> DEFINE w == job[a]
           skipped == w.skipped \union {Hubs!NextItem(a)}
           x == [w EXCEPT !.skipped = skipped]
<1>1. job' = [job EXCEPT ![a] = x] /\ UNCHANGED <<catalogue, replacement>>
  BY Zenon DEF Hubs!SkipItem, Hubs!ItemFails, Hubs!Skip
<1>2. CatalogueFits' /\ Steady
  BY <1>1 DEF CatalogueFits, Steady, Superseded, WasReleased
<1>3. IsJob(w)
  BY DEF JobsFit
<1> HIDE DEF w, skipped
<1>4. IsJob(x) /\ x.report = w.report
  BY <1>3, JobsAreWritten
<1> HIDE DEF x
<1> QED BY <1>1, <1>2, <1>4, JobGoesOn DEF w

\* A request is opened for an item, whose replacement was released when the report was read.
LEMMA ItemIsAskedFor ==
  ASSUME CatalogueFits, JobsFit, NEW a \in HubAdmins, Hubs!AskItem(a)
  PROVE  CatalogueFits' /\ JobsFit'
<1> DEFINE h == Hubs!NextItem(a)
           w == job[a]
           created == w.created \union {h}
           x == [w EXCEPT !.created = created]
           r == [status |-> "DRAFT", deprecation |-> TRUE, bulk |-> TRUE, by |-> replacement[h]]
<1>1. /\ job' = [job EXCEPT ![a] = x] /\ UNCHANGED replacement
      /\ catalogue' = [catalogue EXCEPT ![h] = Append(@, r)]
      /\ ~Hubs!HasOpen(h) /\ job[a].report[h] = "ASK" /\ Hubs!Rest(a) # {}
  BY Zenon DEF Hubs!AskItem, Hubs!Append1, Hubs!MayBeDeprecated
<1>2. h \in HubCodes /\ h \in DOMAIN job[a].report
  BY <1>1, NextRow
<1>3. Superseded(h) /\ h \in Hubs!Codes /\ replacement \in [HubCodes -> MainCodes \union {0}]
  BY <1>1, <1>2, HubNumbers DEF JobsFit, CatalogueFits
<1>4. r \in Hubs!Revision /\ r.by = replacement[h]
  BY <1>2, <1>3 DEF Hubs!Revision, Hubs!Statuses
<1>5. IsJob(w)
  BY DEF JobsFit
<1> HIDE DEF h, r, created, w
<1>6. CatalogueFits' /\ Steady
  BY <1>1, <1>2, <1>3, <1>4, RevisionIsAdded
<1>7. IsJob(x) /\ x.report = w.report
  BY <1>5, JobsAreWritten
<1> HIDE DEF x
<1> QED BY <1>1, <1>6, <1>7, JobGoesOn DEF w

LEMMA BulkEnds ==
  ASSUME CatalogueFits, JobsFit, NEW a \in HubAdmins, Hubs!FinishBulk(a)
  PROVE  CatalogueFits' /\ JobsFit'
<1>1. job' = [job EXCEPT ![a] = Hubs!NoJob] /\ UNCHANGED <<catalogue, replacement>>
  BY DEF Hubs!FinishBulk
<1>2. CatalogueFits' /\ Steady
  BY <1>1 DEF CatalogueFits, Steady, Superseded, WasReleased
<1>3. IsJob(Hubs!NoJob) /\ DOMAIN Hubs!NoJob.report = {}
  BY DEF Hubs!NoJob, IsJob
<1>4. job' = [b \in HubAdmins |-> job'[b]]
      /\ \A b \in HubAdmins : job'[b] = IF b = a THEN Hubs!NoJob ELSE job[b]
  BY <1>1 DEF JobsFit
<1>5. \A b \in HubAdmins : \A h \in HubCodes :
        h \in DOMAIN job[b].report /\ job[b].report[h] = "ASK" => Superseded(h)'
  BY <1>2, SupersededStays DEF JobsFit
<1>6. ASSUME NEW b \in HubAdmins
      PROVE  /\ IsJob(job'[b])
             /\ \A h \in DOMAIN job'[b].report : job'[b].report[h] = "ASK" => Superseded(h)'
  <2>1. CASE b = a
    BY <1>3, <1>4, <2>1
  <2>2. CASE b # a
    BY <1>4, <1>5, <2>2 DEF JobsFit, IsJob
  <2> QED BY <2>1, <2>2
<1> QED BY <1>2, <1>4, <1>6 DEF JobsFit

LEMMA HubsStep ==
  ASSUME CatalogueFits, JobsFit, Hubs!Next
  PROVE  CatalogueFits' /\ JobsFit'
<1>1. ASSUME NEW c \in Hubs!Codes,
             \/ Hubs!create_revision(c) \/ Hubs!create_deprecation_request(c) \/ Hubs!Approve(c)
             \/ Hubs!withdraw(c) \/ Hubs!publish(c) \/ Hubs!archive(c) \/ Hubs!reinstate(c)
      PROVE  CatalogueFits' /\ JobsFit'
  BY <1>1, CodeStep, JobsStay
<1>2. ASSUME NEW h \in HubCodes, Hubs!create_mc_draft(h) PROVE CatalogueFits' /\ JobsFit'
  BY <1>2, ReplacementIsDrafted, JobsStay
<1>3. ASSUME NEW a \in HubAdmins,
             \/ Hubs!StartBulk(a) \/ Hubs!SkipItem(a) \/ Hubs!AskItem(a) \/ Hubs!ItemFails(a)
             \/ Hubs!FinishBulk(a)
      PROVE  CatalogueFits' /\ JobsFit'
  BY <1>3, BulkBegins, ItemIsSkipped, ItemIsAskedFor, BulkEnds
<1> QED BY <1>1, <1>2, <1>3 DEF Hubs!Next

\* What the invariant says of the requests and the open revisions.
LEMMA SupersessionHolds ==
  ASSUME CatalogueFits
  PROVE  Hubs!OneOpenRevision /\ Hubs!SupersededByItsReplacement /\ Hubs!SupersededByReleased
<1>1. ASSUME NEW c \in Hubs!Codes
      PROVE  Hubs!Cardinality({n \in DOMAIN catalogue[c] : catalogue[c][n].status = "DRAFT"}) <= 1
  <2> DEFINE D == {n \in DOMAIN catalogue[c] : catalogue[c][n].status = "DRAFT"}
  <2>1. D \subseteq {Len(catalogue[c])}
    BY DEF CatalogueFits
  <2> HIDE DEF D
  <2>2. IsFiniteSet({Len(catalogue[c])}) /\ Cardinality({Len(catalogue[c])}) = 1
    BY FS_Singleton
  <2>3. IsFiniteSet(D) /\ Cardinality(D) <= 1
    BY <2>1, <2>2, FS_Subset
  <2>4. Hubs!Cardinality(D) = Cardinality(D)
    BY DEF Hubs!Cardinality, Cardinality
  <2>5. Hubs!Cardinality(D) <= 1
    BY <2>3, <2>4
  <2> QED BY <2>5 DEF D
<1>2. ASSUME NEW h \in HubCodes, NEW n \in DOMAIN catalogue[h], catalogue[h][n].bulk
      PROVE  /\ catalogue[h][n].by = replacement[h]
             /\ \E k \in DOMAIN catalogue[catalogue[h][n].by] :
                  catalogue[catalogue[h][n].by][k].status = "RELEASED"
  <2>1. catalogue[h][n].by = replacement[h] /\ Superseded(h)
    BY <1>2, Zenon DEF CatalogueFits
  <2>2. \E k \in DOMAIN catalogue[replacement[h]] : catalogue[replacement[h]][k].status = "RELEASED"
    BY <2>1 DEF Superseded, WasReleased
  <2> QED BY <2>1, <2>2
<1>3. Hubs!OneOpenRevision
  BY <1>1 DEF Hubs!OneOpenRevision
<1> QED BY <1>2, <1>3 DEF Hubs!SupersededByItsReplacement, Hubs!SupersededByReleased

\* HubsAreSuperseded: over any number of Hub and Main codes and administrators who run the bulk
\* request at once, a code has one open revision at most, and every request made in bulk names
\* the code that is still the replacement and has been released
\* (create_mc_draft, mapping_report, request_hub_deprecation).
THEOREM WorkHubsAreSuperseded == Spec => []HubsAreSuperseded
<1>1. Init => CatalogueFits /\ JobsFit
  BY HubsBegin DEF Init
<1>2. CatalogueFits /\ JobsFit /\ [Next]_vars => CatalogueFits' /\ JobsFit'
  <2> SUFFICES ASSUME CatalogueFits, JobsFit, [Next]_vars PROVE CatalogueFits' /\ JobsFit'
    OBVIOUS
  <2>1. Hubs!Next \/ UNCHANGED hubs
    BY DEF Next, Only, vars
  <2>2. ASSUME UNCHANGED hubs PROVE CatalogueFits' /\ JobsFit'
    BY <2>2 DEF hubs, CatalogueFits, JobsFit, Superseded, WasReleased, IsJob
  <2> QED BY <2>1, <2>2, HubsStep
<1>3. CatalogueFits => HubsAreSuperseded
  BY SupersessionHolds DEF HubsAreSuperseded
<1> QED BY <1>1, <1>2, <1>3, PTL DEF Spec

-----------------------------------------------------------------------------
(* Reminders.  Who is told that a request waits and who may decide it are  *)
(* two computations over the same sign-offs and roles.                     *)

\* Whoever may decide as one of the three parties, by the role of their own, is among those
\* whose decision is missing.
LEMMA DecidersAreHolders ==
  ASSUME NEW p \in Covering!Waiting, NEW u \in Office,
         Covering!OwnDecision(u, p[1], p[2])
  PROVE  u \in Covering!FirstHolders(p[1], p[2])
<1> DEFINE r == governedRev[p[1]][p[2]]
<1>1. CASE /\ Covering!HasRole(u, {"REVIEWER"}) /\ r.reviewer = Nobody
           /\ Covering!ReviewerMayDecide(u, p[1], p[2])
  <2>1. r.status = "REVIEW" /\ u # r.author
    BY <1>1 DEF Covering!ReviewerMayDecide
  <2>2. r.assigned \in {Nobody, u}
    BY <1>1 DEF Covering!ReviewerMayDecide, Covering!MayReviewAssigned, Covering!HasRole
  <2>3. u \in Covering!ActiveUsers("REVIEWER") /\ Covering!SignedIn(u)
    BY <1>1 DEF Covering!ActiveUsers, Covering!HasRole
  <2> QED BY <1>1, <2>1, <2>2, <2>3 DEF Covering!FirstHolders
<1>2. CASE /\ Covering!HasRole(u, {"ADMINISTRATOR"}) /\ r.admin = Nobody
           /\ Covering!AdminMayDecide(u, p[1], p[2])
  <2>1. r.status = "REVIEW" /\ u # r.author
    BY <1>2 DEF Covering!AdminMayDecide
  <2>2. u \in Covering!ActiveUsers("ADMINISTRATOR")
    BY <1>2 DEF Covering!ActiveUsers
  <2> QED BY <1>2, <2>1, <2>2 DEF Covering!FirstHolders
<1>3. CASE Covering!HasRole(u, {"CHIEF_ENGINEER"}) /\ Covering!ChiefMayDecide(u, p[1], p[2])
  <2>1. r.status = "PENDING_APPROVAL" /\ u \notin {r.author, r.reviewer, r.admin}
    BY <1>3 DEF Covering!ChiefMayDecide
  <2>2. u \in Covering!ActiveUsers("CHIEF_ENGINEER")
    BY <1>3 DEF Covering!ActiveUsers
  <2> QED BY <2>1, <2>2 DEF Covering!FirstHolders
<1> QED BY <1>1, <1>2, <1>3 DEF Covering!OwnDecision

\* OwnersAreReminded: whoever may take the next decision by a role of their own is reminded of
\* it, and an author never is, for any staff, any assignments and any covers
\* (notification_service.decision_holders beside the guards of _dual_signoff and decide).
THEOREM WorkOwnersAreReminded == Spec => []OwnersAreReminded
<1>1. Covering!OwnersAreReminded
  BY DecidersAreHolders DEF Covering!OwnersAreReminded, Covering!decision_holders
<1>2. Covering!AuthorsAreLeftAlone
  BY DEF Covering!AuthorsAreLeftAlone, Covering!decision_holders, Covering!FirstHolders
<1>3. OwnersAreReminded
  BY <1>1, <1>2 DEF OwnersAreReminded
<1> QED BY <1>3, PTL

=============================================================================
