--------------------------- MODULE HubConsolidation ---------------------------
(***************************************************************************)
(* Moving the codes of the Hub Controller to the Main Controller           *)
(* (hub_consolidation_service): a replacement is drafted for a Hub code,   *)
(* the report says how far it is, and a bulk request asks for the          *)
(* deprecation of the Hub codes whose replacement is Released.             *)
(*                                                                         *)
(* The bulk request reads the report once and commits item by item, so     *)
(* everybody else goes on in between.  The review cycle of one request is  *)
(* in ChangeRequests; here it is one step from Draft to its outcome.  The  *)
(* newest revision of a code is its current one (NewestIsCurrent in        *)
(* Governance).                                                            *)
(***************************************************************************)
EXTENDS Naturals, Sequences, FiniteSets

CONSTANTS
  Hubs,          \* Hub Controller codes of one group, numbers in the report's order
  Mains,         \* Main Controller codes that can be created, numbers
  Admins,        \* administrators who run the bulk request
  MaxRevisions   \* bound: revisions of the catalogue

\* What the constants are; assumed by the module that gives them values.
HubAssumption == Hubs \subseteq Nat \ {0} /\ Mains \subseteq Nat \ {0} /\ Hubs \cap Mains = {}

VARIABLES
  rev,           \* code -> its revisions, oldest first
  replacement,   \* hub_mc_mapping: Hub code -> Main code, 0 without a row
  job            \* administrator -> the bulk request he is running
vars == <<rev, replacement, job>>

Codes == Hubs \union Mains
Statuses == {"DRAFT", "APPROVED", "RELEASED", "DEPRECATED", "ARCHIVED"}
Revision == [status: Statuses, deprecation: BOOLEAN, bulk: BOOLEAN, by: Mains \union {0}]
NewRevision == [status |-> "DRAFT", deprecation |-> FALSE, bulk |-> FALSE, by |-> 0]
States == {"OPEN", "MAPPED_DRAFT", "MAPPED_LIVE", "HUB_RETIRED"}
NoJob == [running |-> FALSE, report |-> [h \in {} |-> "OPEN"], created |-> {}, skipped |-> {}]

Init ==
  /\ rev = [c \in Codes |-> IF c \in Hubs THEN <<[NewRevision EXCEPT !.status = "RELEASED"]>> ELSE <<>>]
  /\ replacement = [h \in Hubs |-> 0]
  /\ job = [a \in Admins |-> NoJob]

Total == LET sum[s \in SUBSET Codes] ==
               IF s = {} THEN 0 ELSE LET c == CHOOSE x \in s : TRUE IN Len(rev[c]) + sum[s \ {c}]
         IN  sum[Codes]

Current(c) == IF rev[c] = <<>> THEN "NONE" ELSE rev[c][Len(rev[c])].status
HasOpen(c) == \E n \in DOMAIN rev[c] : rev[c][n].status = "DRAFT"
Taken(m) == \E h \in Hubs : replacement[h] = m
InUse(c) == c \in Hubs \/ Taken(c)
Append1(c, r) == Total < MaxRevisions /\ rev' = [rev EXCEPT ![c] = Append(@, r)]
SetCurrent(c, status) == rev' = [rev EXCEPT ![c][Len(rev[c])].status = status]

----------------------------------------------------------------------------
(* The life of one code, as far as it matters here. *)
create_revision(c) ==
  /\ InUse(c) /\ ~HasOpen(c)
  /\ Append1(c, NewRevision)
  /\ UNCHANGED <<replacement, job>>

\* A defect to test OneOpenRevision with: an open revision is overlooked when its code is Released.
MayBeDeprecatedDefect(c) == \E n \in DOMAIN rev[c] : rev[c][n].status = "RELEASED"

MayBeDeprecated(c) == Current(c) = "RELEASED" /\ ~HasOpen(c)

create_deprecation_request(c) ==
  /\ InUse(c) /\ MayBeDeprecated(c)
  /\ Append1(c, [NewRevision EXCEPT !.deprecation = TRUE])
  /\ UNCHANGED <<replacement, job>>

\* Submit, two sign-offs and the Chief Engineer's decision.
Approve(c) ==
  /\ Current(c) = "DRAFT"
  /\ SetCurrent(c, IF rev[c][Len(rev[c])].deprecation THEN "DEPRECATED" ELSE "APPROVED")
  /\ UNCHANGED <<replacement, job>>

(* The draft is deleted, the row of the code and of the mapping stay. *)
withdraw(c) ==
  /\ Current(c) = "DRAFT"
  /\ rev' = [rev EXCEPT ![c] = SubSeq(@, 1, Len(@) - 1)]
  /\ UNCHANGED <<replacement, job>>

publish(c) ==
  /\ \E n \in DOMAIN rev[c] : rev[c][n].status = "APPROVED"
                              /\ rev' = [rev EXCEPT ![c][n].status = "RELEASED"]
  /\ UNCHANGED <<replacement, job>>

archive(c) == Current(c) = "DEPRECATED" /\ SetCurrent(c, "ARCHIVED") /\ UNCHANGED <<replacement, job>>

reinstate(c) == Current(c) = "DEPRECATED" /\ SetCurrent(c, "RELEASED") /\ UNCHANGED <<replacement, job>>

----------------------------------------------------------------------------
\* A defect to test SupersededByItsReplacement with: a replacement may be exchanged while the Hub code
\* is being revised.
HasReplacementDefect(h) == replacement[h] # 0 /\ ~HasOpen(h)

HasReplacement(h) == replacement[h] # 0

(* create_mc_draft: the newest Approved or Released revision is copied, even below a newer one. *)
create_mc_draft(h) ==
  /\ ~HasReplacement(h)
  /\ \E n \in DOMAIN rev[h] : rev[h][n].status \in {"RELEASED", "APPROVED"}
  /\ \E m \in Mains :
       /\ ~Taken(m) /\ rev[m] = <<>>
       /\ \A k \in Mains : (~Taken(k) /\ rev[k] = <<>>) => m <= k
       /\ replacement' = [replacement EXCEPT ![h] = m]
       /\ Append1(m, NewRevision)
  /\ UNCHANGED job

\* A defect to test SupersededByReleased with: an Approved replacement is live, too.
mapping_reportDefect(h) ==
  IF Current(h) \in {"DEPRECATED", "ARCHIVED"} THEN "HUB_RETIRED"
  ELSE IF replacement[h] = 0 THEN "OPEN"
  ELSE IF Current(replacement[h]) \in {"RELEASED", "APPROVED"} THEN "MAPPED_LIVE"
  ELSE "MAPPED_DRAFT"

(* mapping_report: the state of one Hub code and its replacement. *)
mapping_report(h) ==
  IF Current(h) \in {"DEPRECATED", "ARCHIVED"} THEN "HUB_RETIRED"
  ELSE IF replacement[h] = 0 THEN "OPEN"
  ELSE IF Current(replacement[h]) = "RELEASED" THEN "MAPPED_LIVE"
  ELSE "MAPPED_DRAFT"

\* The rows of the report a request is opened for: state and hub_lifecycle.
Askable(h) == mapping_report(h) = "MAPPED_LIVE" /\ Current(h) = "RELEASED"

----------------------------------------------------------------------------
(* request_hub_deprecation: the report once, then one commit for each Hub code. *)
StartBulk(a) ==
  /\ ~job[a].running
  /\ job' = [job EXCEPT ![a] =
       [NoJob EXCEPT !.running = TRUE,
                     !.report = [h \in {x \in Hubs : rev[x] # <<>>} |->
                                   IF Askable(h) THEN "ASK" ELSE mapping_report(h)]]]
  /\ UNCHANGED <<rev, replacement>>

Rest(a) == DOMAIN job[a].report \ (job[a].created \union job[a].skipped)
NextItem(a) == CHOOSE h \in Rest(a) : \A k \in Rest(a) : h <= k
Skip(a, h) == job' = [job EXCEPT ![a].skipped = @ \union {h}]

\* A defect to test HubTypeOK with: the report's state is not looked at, the code is skipped and asked for.
SkipItemDefect(a) ==
  /\ job[a].running /\ Rest(a) # {}
  /\ job[a].report[NextItem(a)] # "ASK"
  /\ job' = [job EXCEPT ![a].skipped = @ \union {NextItem(a)}, ![a].created = @ \union {NextItem(a)}]
  /\ UNCHANGED <<rev, replacement>>

SkipItem(a) ==
  /\ job[a].running /\ Rest(a) # {}
  /\ job[a].report[NextItem(a)] # "ASK"
  /\ Skip(a, NextItem(a))
  /\ UNCHANGED <<rev, replacement>>

AskItem(a) ==
  /\ job[a].running /\ Rest(a) # {}
  /\ job[a].report[NextItem(a)] = "ASK"
  /\ MayBeDeprecated(NextItem(a))
  /\ Append1(NextItem(a), [status |-> "DRAFT", deprecation |-> TRUE, bulk |-> TRUE,
                           by |-> replacement[NextItem(a)]])
  /\ job' = [job EXCEPT ![a].created = @ \union {NextItem(a)}]
  /\ UNCHANGED replacement

(* create_deprecation_request raises: rollback, the code is skipped. *)
ItemFails(a) ==
  /\ job[a].running /\ Rest(a) # {}
  /\ job[a].report[NextItem(a)] = "ASK"
  /\ ~MayBeDeprecated(NextItem(a))
  /\ Skip(a, NextItem(a))
  /\ UNCHANGED <<rev, replacement>>

FinishBulk(a) ==
  /\ job[a].running /\ Rest(a) = {}
  /\ job' = [job EXCEPT ![a] = NoJob]
  /\ UNCHANGED <<rev, replacement>>

Next ==
  \/ \E c \in Codes : \/ create_revision(c) \/ create_deprecation_request(c) \/ Approve(c)
                      \/ withdraw(c) \/ publish(c) \/ archive(c) \/ reinstate(c)
  \/ \E h \in Hubs : create_mc_draft(h)
  \/ \E a \in Admins : \/ StartBulk(a) \/ SkipItem(a) \/ AskItem(a) \/ ItemFails(a) \/ FinishBulk(a)

Spec == Init /\ [][Next]_vars

----------------------------------------------------------------------------
(* Types; a bulk request answers for every code at most once (request_hub_deprecation). *)
HubTypeOK ==
  /\ \A c \in Codes : \A n \in DOMAIN rev[c] : rev[c][n] \in Revision
  /\ replacement \in [Hubs -> Mains \union {0}]
  /\ \A a \in Admins :
       /\ DOMAIN job[a].report \subseteq Hubs
       /\ \A h \in DOMAIN job[a].report : job[a].report[h] \in {"ASK"} \union States
       /\ job[a].created \union job[a].skipped \subseteq DOMAIN job[a].report
       /\ job[a].created \cap job[a].skipped = {}

(* No code ever has two open revisions, whoever else edits, deprecates or runs the bulk request
   at the same time (BR-003 in create_deprecation_request, called with an old report). *)
OneOpenRevision ==
  \A c \in Codes : Cardinality({n \in DOMAIN rev[c] : rev[c][n].status = "DRAFT"}) <= 1

(* A Hub code the bulk request has asked to deprecate names the code that is still its replacement
   (hub_mc_mapping has one row for a Hub code, and it is never changed). *)
SupersededByItsReplacement ==
  \A h \in Hubs : \A n \in DOMAIN rev[h] : rev[h][n].bulk => rev[h][n].by = replacement[h]

(* The code it is superseded by has been released, whatever happened to it since
   (MAPPED_LIVE in mapping_report). *)
SupersededByReleased ==
  \A h \in Hubs : \A n \in DOMAIN rev[h] :
     rev[h][n].bulk => \E k \in DOMAIN rev[rev[h][n].by] : rev[rev[h][n].by][k].status = "RELEASED"

(* "Only an Approved or Released Hub Controller code can be carried over."
   (create_mc_draft) *)
CarriedOverAreLive ==
  [][\A h \in Hubs : replacement'[h] # replacement[h] => Current(h) \notin {"DEPRECATED", "ARCHIVED"}]_vars

(* A deprecation request is opened for a Hub code "whose MC replacement is Released"
   (docs/09-api-specification.md; request_hub_deprecation). *)
AskedWhileReleased ==
  [][\A h \in Hubs :
       (Len(rev'[h]) > Len(rev[h]) /\ rev'[h][Len(rev'[h])].bulk) => Current(replacement[h]) = "RELEASED"]_vars

(* "the MC replacement is not Released yet" is said of a replacement without a Released revision
   (request_hub_deprecation, mapping_report). *)
NotReleasedIsTrue ==
  \A h \in Hubs : mapping_report(h) = "MAPPED_DRAFT"
    => \A n \in DOMAIN rev[replacement[h]] : rev[replacement[h]][n].status # "RELEASED"
=============================================================================
