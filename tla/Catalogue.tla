----------------------------- MODULE Catalogue ------------------------------
(***************************************************************************)
(* The rows of the catalogue and the numbers it hands out: status codes    *)
(* and their revisions, each revision together with the change request     *)
(* that wraps it (they are created and deleted as one).                    *)
(*                                                                         *)
(* cr.state is not kept: every handler that assigns it assigns             *)
(* revision.lifecycle_status in the same statement block, and it is a      *)
(* function of that status.                                                *)
(***************************************************************************)
EXTENDS Accounts, Integers

CONSTANTS
  Codes,          \* the status_code ids that can ever be used
  Bands,          \* functional subgroups
  BandFirst,      \* [Bands -> Nat], sub_range_start
  BandLast,       \* [Bands -> Nat], sub_range_end
  SandboxLast,    \* the last number of the isolated sandbox band
  MaxRevisions    \* bound: revisions per code

NoNumber == -1

\* A defect to test DecisionsStand with: an approved revision still counts as open.
OpenStatesDefect == {"DRAFT", "REVIEW", "PENDING_APPROVAL", "APPROVED"}

OpenStates == {"DRAFT", "REVIEW", "PENDING_APPROVAL"}

Statuses == OpenStates \union {"APPROVED", "RELEASED", "DEPRECATED", "ARCHIVED"}

RevNo == 1 .. MaxRevisions

NumbersOf(b) == BandFirst[b] .. BandLast[b]

AllNumbers == UNION {NumbersOf(b) : b \in Bands}

ASSUME CatalogueAssumption ==
  /\ Bands # {}
  /\ BandFirst \in [Bands -> Nat]
  /\ BandLast \in [Bands -> Nat]
  /\ \A a, b \in Bands : a # b => NumbersOf(a) \intersect NumbersOf(b) = {}
  /\ SandboxLast \in Nat
  /\ MaxRevisions \in Nat \ {0}

\* An unused id, an ordinary code or a sandbox code, with the number it was
\* issued, the number an import reserved for it, and the marks of a code whose
\* last revision was withdrawn (withdrawn_at) and that was erased (deleted_at).
Code == [kind: {"NONE", "REAL", "SANDBOX"},
         band: Bands,
         number: AllNumbers \union 0 .. SandboxLast \union {NoNumber},
         reserved: AllNumbers \union {NoNumber},
         withdrawn: BOOLEAN,
         deleted: BOOLEAN]

NoCode == [kind |-> "NONE", band |-> CHOOSE b \in Bands : TRUE,
           number |-> NoNumber, reserved |-> NoNumber,
           withdrawn |-> FALSE, deleted |-> FALSE]

\* `author` is created_by and requested_by: the same person in every creator.
\* `controls` is who recorded the CONTROLS domain sign-off.  A sandbox code's
\* first revision has no change request (cr = FALSE).
Revision == [status: Statuses \union {"NONE"},
             current: BOOLEAN,
             cr: BOOLEAN,
             deprecation: BOOLEAN,
             platforms: BOOLEAN,
             author: Users \union {Nobody},
             controls: Users \union {Nobody},
             assigned: Users \union {Nobody},
             reviewer: Users \union {Nobody},
             admin: Users \union {Nobody},
             chief: Users \union {Nobody}]

NoRevision == [status |-> "NONE", current |-> FALSE, cr |-> FALSE,
               deprecation |-> FALSE, platforms |-> FALSE,
               author |-> Nobody, controls |-> Nobody, assigned |-> Nobody,
               reviewer |-> Nobody, admin |-> Nobody, chief |-> Nobody]

VARIABLES
  code,   \* the table status_code
  rev     \* rev[c][n]: revision n of code c with its change request

catalogueVars == <<code, rev>>

CatalogueTypeOK ==
  /\ code \in [Codes -> Code]
  /\ rev \in [Codes -> [RevNo -> Revision]]

CatalogueInit ==
  /\ code = [c \in Codes |-> NoCode]
  /\ rev = [c \in Codes |-> [n \in RevNo |-> NoRevision]]

-----------------------------------------------------------------------------
(* Queries of the repositories                                             *)

Exists(c, n) == rev[c][n].status # "NONE"

HasRevision(c) == \E n \in RevNo : Exists(c, n)

\* A defect to test NewestIsCurrent with: only Drafts are looked for.
HasOpenRevisionDefect(c) == \E n \in RevNo : rev[c][n].status = "DRAFT"

\* get_open_revision
HasOpenRevision(c) == \E n \in RevNo : rev[c][n].status \in OpenStates

\* get_current_revision
IsCurrent(c, n) == Exists(c, n) /\ rev[c][n].current

\* max(revision_number) + 1
IsNextRevision(c, n) ==
  /\ \A m \in RevNo : Exists(c, m) => m < n
  /\ n > 1 => Exists(c, n - 1)

\* Numbers issued to ordinary codes.
Issued(k) == \E c \in Codes : code[c].kind = "REAL" /\ code[c].number = k

ReservedBy(c, k) == code[c].reserved = k

-----------------------------------------------------------------------------
(* Numbering                                                               *)

\* allocate_next_identifier: one past the highest number issued in the band
\* (its first number if there is none), skipping the reserved numbers.  Past
\* the end of the band there is no such number and the request fails.
IsNextNumber(b, k) ==
  LET past(j) == \A i \in NumbersOf(b) : Issued(i) => i < j
      free(j) == \A d \in Codes : ~ReservedBy(d, j)
  IN  /\ k \in NumbersOf(b)
      /\ past(k) /\ free(k)
      /\ \A j \in NumbersOf(b) : (j < k /\ past(j)) => ~free(j)

\* A defect to test NumbersAgree with: the reservations are forgotten.
MayTakeNumberDefect(c, k) ==
  /\ k \in NumbersOf(code[c].band)
  /\ ~Issued(k)

\* validate_manual_identifier and, with the code's own reservation excepted,
\* validate_reserved_identifier.
MayTakeNumber(c, k) ==
  /\ k \in NumbersOf(code[c].band)
  /\ ~Issued(k)
  /\ \A d \in Codes \ {c} : ~ReservedBy(d, k)

\* allocate_next_sandbox_identifier
IsNextSandboxNumber(k) ==
  LET taken(j) == \E c \in Codes : code[c].kind = "SANDBOX" /\ code[c].number = j
  IN  /\ k \in 0 .. SandboxLast
      /\ \A j \in 0 .. SandboxLast : taken(j) => j < k
      /\ k > 0 => taken(k - 1)
=============================================================================
