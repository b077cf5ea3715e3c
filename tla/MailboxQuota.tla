---------------------------- MODULE MailboxQuota ----------------------------
(***************************************************************************)
(* The mailbox limit of one domain: admin-api's mailbox.service.ts.        *)
(*                                                                         *)
(* Two handlers create mailboxes.  createMailbox() checks that the address *)
(* is free, counts the domain's mailboxes and inserts a row.               *)
(* commitImport() counts once and then inserts the rows of a CSV file one  *)
(* by one.  Both compare with the maxMailboxes of the domain row that the  *)
(* route has read before; no transaction holds the steps together.  Only   *)
(* the unique constraint on the address is enforced by the database.       *)
(*                                                                         *)
(* An action is the code between two awaits.  A row of a file is its       *)
(* address and whether its password, quota and domain pass validateRow().  *)
(***************************************************************************)
EXTENDS Integers, Sequences, FiniteSets

CONSTANTS Req,     \* requests in flight
          Addr,    \* addresses of the domain
          Caps,    \* limits an administrator chooses from
          Files    \* CSV files, sequences of rows

FileRow == [addr : Addr, ok : BOOLEAN]

ASSUME QuotaAssumption ==
  /\ Caps \subseteq Nat /\ Caps # {}
  /\ Files \subseteq Seq(FileRow)
  /\ IsFiniteSet(Addr)
  /\ IsFiniteSet(Req) /\ Req # {}

VARIABLES domain,    \* the Domain row
          boxes,     \* the Mailbox rows of the domain, by address
          req,       \* local variables of the requests
          peak       \* history: the highest limit so far

vars == <<domain, boxes, req, peak>>

Domain == [exists : BOOLEAN, maxMailboxes : Caps]

PC == {"idle", "unique", "count", "insert", "total", "row", "insertRow"}

Local == [pc        : PC,
          max       : Nat,              \* domain.maxMailboxes as read
          rows      : Seq(FileRow),     \* rows to do; a single mailbox is one row
          seen      : SUBSET Addr,
          remaining : Int]

Idle == [pc |-> "idle", max |-> 0, rows |-> <<>>, seen |-> {}, remaining |-> 0]

Init ==
  /\ domain \in [exists : {TRUE}, maxMailboxes : Caps]
  /\ boxes \in SUBSET Addr
  /\ Cardinality(boxes) <= domain.maxMailboxes
  /\ req = [r \in Req |-> Idle]
  /\ peak = domain.maxMailboxes

\* getScopedDomain() reads the domain; the limit used is the one read here.
Ask(r, pc, f) ==
  /\ req[r].pc = "idle"
  /\ domain.exists
  /\ req' = [req EXCEPT ![r] = [@ EXCEPT !.pc = pc, !.max = domain.maxMailboxes, !.rows = f]]
  /\ UNCHANGED <<domain, boxes, peak>>

Current(r) == Head(req[r].rows)

Goto(r, pc) == req' = [req EXCEPT ![r] = [@ EXCEPT !.pc = pc]]
Answer(r)   == req' = [req EXCEPT ![r] = Idle]

-----------------------------------------------------------------------------
(* POST /domains/:domainId/mailboxes                                       *)

AskCreate(r, a) == Ask(r, "unique", <<[addr |-> a, ok |-> TRUE]>>)

CheckUnique(r) ==
  /\ req[r].pc = "unique"
  /\ IF Current(r).addr \in boxes THEN Answer(r) ELSE Goto(r, "count")
  /\ UNCHANGED <<domain, boxes, peak>>

\* Mistake: one mailbox too many passes.
CheckCap_OffByOne(r) ==
  /\ req[r].pc = "count"
  /\ IF Cardinality(boxes) > req[r].max THEN Answer(r) ELSE Goto(r, "insert")
  /\ UNCHANGED <<domain, boxes, peak>>

\* DOM-009: DOMAIN_QUOTA_EXCEEDED when the limit is reached.
CheckCap(r) ==
  /\ req[r].pc = "count"
  /\ IF Cardinality(boxes) >= req[r].max THEN Answer(r) ELSE Goto(r, "insert")
  /\ UNCHANGED <<domain, boxes, peak>>

\* The database refuses a duplicate address, and a domain that is gone.
Insert(r) ==
  /\ req[r].pc = "insert"
  /\ boxes' = IF domain.exists THEN boxes \union {Current(r).addr} ELSE boxes
  /\ Answer(r)
  /\ UNCHANGED <<domain, peak>>

-----------------------------------------------------------------------------
(* POST /domains/:domainId/mailboxes/import                                *)

AskImport(r, f) == Ask(r, "total", f)

\* Respect remaining capacity on the domain: counted once, for all rows.
CountRemaining(r) ==
  /\ req[r].pc = "total"
  /\ req' = [req EXCEPT ![r] = [@ EXCEPT !.pc = "row",
                                         !.remaining = req[r].max - Cardinality(boxes)]]
  /\ UNCHANGED <<domain, boxes, peak>>

\* validateRow(): an address counts as seen even if its row was not valid.
Valid(r) == Current(r).ok /\ Current(r).addr \notin req[r].seen

\* The head row is done; n mailboxes were made of it.
Drop(r, n) ==
  req' = [req EXCEPT ![r] =
            [pc |-> "row", max |-> req[r].max, rows |-> Tail(req[r].rows),
             seen |-> req[r].seen \union {Current(r).addr},
             remaining |-> req[r].remaining - n]]

\* Not valid, or over the limit: reported, not created.
ReportRow(r) ==
  /\ req[r].pc = "row" /\ req[r].rows # <<>>
  /\ ~Valid(r) \/ req[r].remaining <= 0
  /\ Drop(r, 0)
  /\ UNCHANGED <<domain, boxes, peak>>

\* A valid row, while there is room: is the address free?
LookUpRow(r) ==
  /\ req[r].pc = "row" /\ req[r].rows # <<>>
  /\ Valid(r) /\ req[r].remaining > 0
  /\ IF Current(r).addr \in boxes THEN Drop(r, 0) ELSE Goto(r, "insertRow")
  /\ UNCHANGED <<domain, boxes, peak>>

\* An insert the database refuses throws: the import ends there, with an
\* error in place of its report, and the mailboxes made so far remain.
InsertRow(r) ==
  /\ req[r].pc = "insertRow"
  /\ IF domain.exists /\ Current(r).addr \notin boxes
     THEN boxes' = boxes \union {Current(r).addr} /\ Drop(r, 1)
     ELSE boxes' = boxes /\ Answer(r)
  /\ UNCHANGED <<domain, peak>>

EndImport(r) ==
  /\ req[r].pc = "row" /\ req[r].rows = <<>>
  /\ Answer(r)
  /\ UNCHANGED <<domain, boxes, peak>>

-----------------------------------------------------------------------------
(* Other handlers.                                                         *)

DeleteMailbox(a) ==
  /\ a \in boxes
  /\ boxes' = boxes \ {a}
  /\ UNCHANGED <<domain, req, peak>>

\* PATCH /domains/:id: nothing compares the new limit with the count.
UpdateDomain(c) ==
  /\ domain.exists
  /\ domain' = [domain EXCEPT !.maxMailboxes = c]
  /\ peak' = IF c > peak THEN c ELSE peak
  /\ UNCHANGED <<boxes, req>>

\* Deleting the domain deletes its mailboxes (onDelete: Cascade).
DeleteDomain ==
  /\ domain.exists
  /\ domain' = [domain EXCEPT !.exists = FALSE]
  /\ boxes' = {}
  /\ UNCHANGED <<req, peak>>

Continue(r) ==
  \/ CheckUnique(r) \/ CheckCap(r) \/ Insert(r)
  \/ CountRemaining(r) \/ ReportRow(r) \/ LookUpRow(r) \/ InsertRow(r) \/ EndImport(r)

Next ==
  \/ \E r \in Req :
       \/ \E a \in Addr : AskCreate(r, a)
       \/ \E f \in Files : AskImport(r, f)
       \/ Continue(r)
  \/ \E a \in Addr : DeleteMailbox(a)
  \/ \E c \in Caps : UpdateDomain(c)
  \/ DeleteDomain

Spec == Init /\ [][Next]_vars

-----------------------------------------------------------------------------
(* Properties.                                                             *)

TypeOK ==
  /\ domain \in Domain
  /\ boxes \subseteq Addr
  /\ req \in [Req -> Local]
  /\ peak \in Nat

\* How far concurrent requests can pass the limit: each of them may fill the
\* domain once.  With one request at a time the limit is kept.
Overshoot == Cardinality(boxes) <= Cardinality(Req) * peak

\* "enforcing the domain's mailbox cap"
CapEnforced == Cardinality(boxes) <= peak

=============================================================================
