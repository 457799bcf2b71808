--------------------------- MODULE MappingChanges ---------------------------
(***************************************************************************)
(* The legacy -> new mapping: a table that changes only through requests   *)
(* which the StCd Owner, the Chief Engineer and an Administrator approve,  *)
(* beside a catalogue that takes and gives back numbers, and people whose  *)
(* roles change.                                                           *)
(*                                                                         *)
(* A row is its two numbers and a text, which stands for every other       *)
(* editable field; the family is decided by the number's band and is part  *)
(* of the legacy number here.  The rows of a request arrive cleaned:       *)
(* wording, limits and spelling of their fields are checked before.        *)
(***************************************************************************)
EXTENDS Accounts, Integers, Functions

CONSTANTS
  RowIds,         \* the status_code_mapping ids that can ever be used
  ChangeIds,      \* the mapping_change ids that can ever be used
  Numbers,        \* new numbers
  Legacies,       \* legacy numbers, with their family
  Texts,          \* contents of the other fields
  Incomplete,     \* the texts that lack a type, a counter, a group or a node
  Seeds,          \* seed workbooks, as tables
  Workbooks,      \* uploaded workbooks, as sets of rows
  Askers,         \* bound: the people who make requests
  MaxItems,       \* bound: rows of a request made in the form, at most 2
  MaxVersion      \* bound: version of a row

NoLegacy == -1

AnyRow == CHOOSE r \in RowIds : TRUE

Approvers == {"STCD_OWNER", "CHIEF_ENGINEER", "ADMINISTRATOR"}

Requesters == Approvers \union {"ENGINEER", "REVIEWER"}

Settled == {"APPROVED", "ISSUED"}

Core == [number: Numbers, legacy: Legacies \union {NoLegacy}, text: Texts]

Row == [core: Core, version: 1 .. MaxVersion,
        status: Settled \union {"NONE", "PROPOSED", "FROM_PROGRAM", "REJECTED"}]

NoRow == [core |-> CHOOSE c \in Core : TRUE, version |-> 1, status |-> "NONE"]

\* An item of a request.  `row` is not looked at in an ADD.
Item == [action: {"ADD", "CHANGE", "CONFIRM", "REJECT"}, row: RowIds,
         base: 1 .. MaxVersion, before: Core, after: Core]

Approval == [role: Approvers, user: Users, decision: {"APPROVE", "REJECT"}]

MappingChange == [state: {"NONE", "OPEN", "APPLIED", "REJECTED", "WITHDRAWN"},
                  requester: Users \union {Nobody},
                  items: SUBSET Item,
                  approvals: SUBSET Approval]

NoChange == [state |-> "NONE", requester |-> Nobody, items |-> {}, approvals |-> {}]

\* What the constants are; assumed by the module that gives them values.
MappingAssumption ==
  /\ Numbers \subseteq Nat /\ Legacies \subseteq Nat
  /\ Incomplete \subseteq Texts
  /\ Seeds \subseteq [RowIds -> Row]
  /\ Workbooks \subseteq SUBSET Core
  /\ Askers \subseteq Users
  /\ MaxItems \in 0 .. 2 /\ MaxVersion \in Nat \ {0}

VARIABLES
  table,    \* the table status_code_mapping
  change,   \* mapping_change with its items and approvals
  held      \* numbers_in_catalogue(): issued or reserved by a code

mappingVars == <<table, change, held>>

MappingTypeOK ==
  /\ table \in [RowIds -> Row]
  /\ change \in [ChangeIds -> MappingChange]
  /\ held \subseteq Numbers

EmptyTable(t) == \A r \in RowIds : t[r].status = "NONE"

MappingInit ==
  /\ table = [r \in RowIds |-> NoRow]
  /\ change = [k \in ChangeIds |-> NoChange]
  /\ held = {}

-----------------------------------------------------------------------------
(* The checks of a request                                                 *)

Stored == {r \in RowIds : table[r].status # "NONE"}

Changed(items) == {i.row : i \in {j \in items : j.action # "ADD"}}

\* completeness: an import needs the type, the counter, the group and the node.
Complete(core) == core.text \notin Incomplete

\* The contents of the table after the request, rejected rows included: those
\* that stay, and the items.  Each content says where it is from, as two may agree.
Result(items) ==
  {<<"row", r, table[r].core>> : r \in Stored \ Changed(items)}
  \union {<<"item", i, i.after>> : i \in items}

\* A defect to test NumbersUnique with: legacy numbers are not compared.
ClashDefect(a, b) == a.number = b.number

\* A new number is one row's, and so is a legacy number.
Clash(a, b) == a.number = b.number \/ (a.legacy = b.legacy /\ a.legacy # NoLegacy)

Unique(result) == \A p, q \in result : p # q => ~Clash(p[3], q[3])

\* _check_items finds nothing wrong with the table as it is now.
Fits(items) ==
  /\ \A i \in items : i.action # "REJECT" => Complete(i.after)
  /\ \A i, j \in items : (i # j /\ "ADD" \notin {i.action, j.action}) => i.row # j.row
  /\ \A i \in {j \in items : j.action # "ADD"} :
       LET now == table[i.row].core IN
       /\ i.row \in Stored
       /\ now.number \in held =>
            /\ i.action # "REJECT"
            /\ i.after.number = now.number /\ i.after.legacy = now.legacy
       /\ i.action = "CHANGE" => i.after # now
       /\ i.action = "CONFIRM" => i.after = now /\ table[i.row].status \notin Settled
  /\ Unique(Result(items))

\* A defect to test ImplementsBallot with: nobody looks whether a row changed.
StaleDefect(items) == FALSE

\* stale_items: a row changed after the request was made.
Stale(items) == \E i \in items : i.action # "ADD" /\ table[i.row].version # i.base

\* The database checks uniqueness row by row: there is an order in which every
\* number is given up before another row takes it.  New rows come last.
Writable(items) ==
  LET changes == {i \in items : i.action # "ADD"} IN
  /\ Unique(Result(items))
  /\ \E rank \in [changes -> 1 .. Cardinality(changes)] :
       \A i, j \in changes :
         i # j /\ Clash(i.after, table[j.row].core) => rank[j] < rank[i]

-----------------------------------------------------------------------------
(* Requests                                                                *)

\* `items` with the row each was made on; a rejected row keeps its content.
AsRequested(items) ==
  {LET now == table[i.row] IN
   IF i.action = "ADD" THEN i
   ELSE [i EXCEPT !.base = now.version, !.before = now.core,
                  !.after = IF i.action = "REJECT" THEN now.core ELSE i.after] : i \in items}

Propose(actor, k, items) ==
  /\ HasRole(actor, Requesters)
  /\ change[k].state = "NONE"
  /\ items # {}
  /\ Fits(AsRequested(items))
  /\ change' = [change EXCEPT ![k] =
       [state |-> "OPEN", requester |-> actor, items |-> AsRequested(items), approvals |-> {}]]
  /\ UNCHANGED <<table, held>>

\* The stored row that a row of a workbook speaks of: the one with its new
\* number or, if there is none, the one with its legacy number.
SpokenOf(core) ==
  LET sameNumber == {r \in Stored : table[r].core.number = core.number}
      sameLegacy == {r \in Stored : core.legacy # NoLegacy /\ table[r].core.legacy = core.legacy}
  IN  IF sameNumber # {} THEN sameNumber ELSE sameLegacy

\* plan_from_workbook: what is new and what differs, and on demand what only
\* waits for its approval.
Plan(workbook, confirm) ==
  {[action |-> "ADD", row |-> AnyRow, base |-> 1,
    before |-> core, after |-> core] : core \in {c \in workbook : SpokenOf(c) = {}}}
  \union
  {[action |-> IF table[p[1]].core = p[2] THEN "CONFIRM" ELSE "CHANGE", row |-> p[1],
    base |-> 1, before |-> p[2], after |-> p[2]] :
     p \in {q \in Stored \X workbook :
              /\ q[1] \in SpokenOf(q[2])
              /\ \/ table[q[1]].core # q[2]
                 \/ confirm /\ table[q[1]].status \in {"PROPOSED", "FROM_PROGRAM"}}}

ProposeWorkbook(actor, k, workbook, confirm) ==
  /\ \A c, d \in workbook :
       c # d => SpokenOf(c) \intersect SpokenOf(d) = {}
  /\ Propose(actor, k, Plan(workbook, confirm))

Withdraw(actor, k) ==
  /\ HasRole(actor, Requesters)
  /\ change[k].requester = actor
  /\ change[k].state = "OPEN"
  /\ change' = [change EXCEPT ![k].state = "WITHDRAWN"]
  /\ UNCHANGED <<table, held>>

\* A defect to test TypeOK with: the action is taken for the status.
StatusAfterDefect(i) ==
  IF i.action # "ADD" /\ table[i.row].core.number \in held THEN "ISSUED" ELSE i.action

\* The status an approved item gives its row.
StatusAfter(i) ==
  IF i.action = "REJECT" THEN "REJECTED"
  ELSE IF i.action # "ADD" /\ table[i.row].core.number \in held THEN "ISSUED"
       ELSE "APPROVED"

\* The rows as the items write them; new rows take free ids.
Write(items) ==
  LET adds == {i \in items : i.action = "ADD"} IN
  /\ \A i \in items \ adds : table[i.row].version < MaxVersion
  /\ \E place \in Injection(adds, RowIds \ Stored) :
       table' = [r \in RowIds |->
         IF \E i \in items \ adds : i.row = r
         THEN LET i == CHOOSE j \in items \ adds : j.row = r IN
              [core |-> i.after, version |-> table[r].version + 1, status |-> StatusAfter(i)]
         ELSE IF \E i \in adds : place[i] = r
              THEN LET i == CHOOSE j \in adds : place[j] = r IN
                   [core |-> i.after, version |-> 1, status |-> StatusAfter(i)]
              ELSE table[r]]

\* A defect to test HeldNumbersStay with: the request is not checked once more.
ApplyDefect(items) == ~Stale(items) /\ Writable(items) /\ Write(items)

\* The rows are written if the request still fits the table as it is now.
Apply(items) == ~Stale(items) /\ Fits(items) /\ Writable(items) /\ Write(items)

\* A defect to test ImplementsBallot with: nobody checks who asked.
MayDecideDefect(actor, k) ==
  /\ HasRole(actor, Approvers)
  /\ change[k].state = "OPEN"
  /\ \A a \in change[k].approvals : a.role # account[actor].role /\ a.user # actor

\* One decision per role and per person (unique indexes), none by the requester.
\* A delegation does not count.
MayDecide(actor, k) ==
  /\ HasRole(actor, Approvers)
  /\ change[k].state = "OPEN"
  /\ change[k].requester # actor
  /\ \A a \in change[k].approvals : a.role # account[actor].role /\ a.user # actor

\* The third approval applies the request; if it cannot be applied, nothing of
\* the decision stays.
Decide(actor, k, decision) ==
  LET approvals == change[k].approvals \union
        {[role |-> account[actor].role, user |-> actor, decision |-> decision]}
      last == {a.role : a \in approvals} = Approvers
  IN
  /\ MayDecide(actor, k)
  /\ change' = [change EXCEPT
       ![k].approvals = approvals,
       ![k].state = IF decision = "REJECT" THEN "REJECTED"
                    ELSE IF last THEN "APPLIED" ELSE "OPEN"]
  /\ IF decision = "APPROVE" /\ last THEN Apply(change[k].items) ELSE UNCHANGED table
  /\ UNCHANGED held

-----------------------------------------------------------------------------
(* The table beside its requests                                           *)

\* The initial mapping, into an empty table and all of it or nothing.
Seed(actor, seed) ==
  /\ HasRole(actor, {"ADMINISTRATOR"})
  /\ EmptyTable(table)
  /\ Unique({<<"row", r, seed[r].core>> : r \in {s \in RowIds : seed[s].status # "NONE"}})
  /\ table' = [r \in RowIds |-> [seed[r] EXCEPT !.version = 1]]
  /\ UNCHANGED <<change, held>>

\* A Draft is submitted, or an import reserves the number of its program; the
\* import marks the row in the same transaction.
CatalogueTakes(n, imported) ==
  /\ n \notin held
  /\ held' = held \union {n}
  /\ table' = [r \in RowIds |->
       IF imported /\ table[r].status = "APPROVED" /\ table[r].core.number = n
                   /\ table[r].version < MaxVersion
       THEN [table[r] EXCEPT !.status = "ISSUED", !.version = @ + 1]
       ELSE table[r]]
  /\ UNCHANGED change

\* A Draft with a reservation is withdrawn, or a shell is erased.
CatalogueGivesUp(n) ==
  /\ n \in held
  /\ held' = held \ {n}
  /\ UNCHANGED <<table, change>>

-----------------------------------------------------------------------------

\* Bound: requests of at most two rows.
Requests ==
  LET item(action, r, core) ==
        [action |-> action, row |-> r, base |-> 1, before |-> core, after |-> core]
      one ==
        UNION {{item("ADD", AnyRow, c) : c \in Core},
               {item("CHANGE", r, c) : r \in Stored, c \in Core},
               {item(a, r, table[r].core) : a \in {"CONFIRM", "REJECT"}, r \in Stored}}
  IN  {S \in {{i, j} : i, j \in one} : Cardinality(S) <= MaxItems}

MappingNext ==
  \/ \E actor \in Askers, k \in {j \in ChangeIds : change[j].state = "NONE"} :
       \/ \E items \in Requests : Propose(actor, k, items)
       \/ \E workbook \in Workbooks, confirm \in BOOLEAN :
            ProposeWorkbook(actor, k, workbook, confirm)
  \/ \E actor \in Users, k \in ChangeIds :
       \/ Withdraw(actor, k)
       \/ \E decision \in {"APPROVE", "REJECT"} : Decide(actor, k, decision)
  \/ \E actor \in Users, seed \in Seeds : Seed(actor, seed)
  \/ \E n \in Numbers :
       \/ \E imported \in BOOLEAN : CatalogueTakes(n, imported)
       \/ CatalogueGivesUp(n)

Init == AccountsInit /\ MappingInit

vars == <<account, delegations, table, change, held>>

Next ==
  \/ AccountsNext /\ UNCHANGED mappingVars
  \/ MappingNext /\ UNCHANGED accountVars

Spec == Init /\ [][Next]_vars

TypeOK == AccountsTypeOK /\ MappingTypeOK

-----------------------------------------------------------------------------

\* What approvers promise, in terms of the rows as they were shown to them.
Votes == INSTANCE Ballot WITH
  People <- Users, Places <- RowIds, Contents <- Core, Ballots <- ChangeIds,
  Quorum <- 3,
  content <- [r \in RowIds |-> IF r \in Stored THEN {table[r].core} ELSE {}],
  ballot <- [k \in ChangeIds |->
    [state |-> CASE change[k].state \in {"NONE", "OPEN"} -> change[k].state
                 [] change[k].state = "APPLIED" -> "CARRIED"
                 [] OTHER -> "CLOSED",
     proposer |-> change[k].requester,
     motions |-> {[place |-> IF i.action = "ADD" THEN {} ELSE {i.row},
                   from |-> IF i.action = "ADD" THEN {} ELSE {i.before},
                   to |-> i.after] : i \in change[k].items},
     yes |-> {a.user : a \in {b \in change[k].approvals : b.decision = "APPROVE"}}]]

\* BR-027, FR-194: a row's content changes only when three people, none of them
\* the requester, approved exactly that change of exactly the content the row
\* still has - however requests, imports, withdrawals and changes of people's
\* roles interleave.
ImplementsBallot == Votes!Spec

\* FR-195: no two rows ever share a new number or a legacy number, rejected rows
\* included, although requests are made and applied in any order.
NumbersUnique ==
  \A r, s \in Stored :
    r # s =>
      /\ table[r].core.number # table[s].core.number
      /\ table[r].core.legacy \in Legacies => table[r].core.legacy # table[s].core.legacy

\* FR-195: while a code of the catalogue carries a row's number, no request -
\* also none that was made or approved before the code took it - renumbers or
\* rejects the row.
HeldNumbersStay ==
  [][\A r \in Stored :
       LET now == table[r] IN
       now.core.number \in held =>
         /\ table'[r].core.number = now.core.number
         /\ table'[r].core.legacy = now.core.legacy
         /\ table'[r].status = "REJECTED" => now.status = "REJECTED"]_vars

\* The third approval applies an open request whose rows did not change and
\* that fits the mapping as it is: no request that was accepted and is still
\* right is refused by the database.
AcceptedCanBeApplied ==
  \A k \in ChangeIds :
    LET items == change[k].items IN
    change[k].state = "OPEN" /\ ~Stale(items) /\ Fits(items) => Writable(items)

\* FR-195: the numbers of a row that is ISSUED never change.
IssuedNumbersStay ==
  [][\A r \in Stored :
       table[r].status = "ISSUED" =>
         /\ table'[r].core.number = table[r].core.number
         /\ table'[r].core.legacy = table[r].core.legacy]_vars
=============================================================================
