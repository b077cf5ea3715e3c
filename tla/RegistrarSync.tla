--------------------------- MODULE RegistrarSync ---------------------------
(***************************************************************************)
(* Writing a domain's DNS records at the registrar: registrar-sync.service *)
(* and the Namecheap client of admin-api, with the wizard that calls them. *)
(*                                                                         *)
(* The registrar has one call that lists all hosts of a domain and one     *)
(* that replaces them all.  An apply lists the hosts and works out the     *)
(* merged list, lists them once more for the snapshot kept in audit_log,   *)
(* and sets the merged list.  An undo sets the list of the snapshot.       *)
(* Meanwhile the owner edits the hosts at the registrar's own site, and    *)
(* other administrators apply and undo.                                    *)
(*                                                                         *)
(* A host is a record kind of DnsVerdict with its value, or one of the     *)
(* domain's other records.  A list of hosts carries, as history, the hosts *)
(* added or removed since it was read.                                     *)
(***************************************************************************)
EXTENDS DnsVerdict

CONSTANTS
  Apply,      \* applies that may be under way together
  Managed,    \* the record kinds that have a row in dns_records
  Unrelated,  \* the domain's other records: www, verifications
  MaxSteps    \* bound: applies begun and edits made

ASSUME RegistrarAssumption ==
  /\ Managed \subseteq MailKind /\ Managed \cap Unrelated = {}
  /\ MaxSteps \in Nat

VARIABLES
  hosts,      \* the list the registrar holds
  apply,      \* apply[a]: registrar-apply, between two calls
  steps,
  theirs,     \* history: the unrelated hosts as their owner last left them
  undone      \* history: unrelated hosts added or removed after the list that
              \* a later write goes back to

registrarVars == <<hosts, apply, steps, theirs, undone>>

MailHost  == [kind : Managed, value : Value]
OtherHost == [kind : Unrelated, value : {"ours"}]
Host      == MailHost \cup OtherHost

Listed     == [hosts |-> hosts, moved |-> {}]
NotApplied == [phase |-> "rest"]

-----------------------------------------------------------------------------
(* previewDnsSync.                                                         *)

\* The hosts taken for the managed records: of a kind the first that matches,
\* of two either one.
Claims(list) ==
  {claimed \in SUBSET {h \in list : h.kind \in Managed} :
     \A k \in Managed : Cardinality(Answers(claimed, k)) =
                          (IF Answers(list, k) = {} THEN 0 ELSE 1)}

Desired == {[kind |-> k, value |-> "ours"] : k \in Managed}

\* Mistake: the managed records are all that is set.
Merged_Partial(list, claimed) == Desired

\* preserved, unchanged, toUpdate and toAdd together.
Merged(list, claimed) == (list \ claimed) \cup Desired

RegistrarInit ==
  /\ hosts \in SUBSET Host
  /\ apply = [a \in Apply |-> NotApplied]
  /\ steps = 0
  /\ theirs = hosts \cap OtherHost
  /\ undone = {}

-----------------------------------------------------------------------------
(* Every change of the hosts.                                              *)

Changed(now) == (hosts \ now) \cup (now \ hosts)

\* The lists that are held, once the hosts are `now`.
Older(list, now) == [list EXCEPT !.moved = @ \cup Changed(now)]

Outdated(now) ==
  [a \in Apply |->
    CASE apply[a].phase = "rest"    -> NotApplied
      [] apply[a].phase = "listed"  -> [apply[a] EXCEPT !.list = Older(@, now)]
      [] apply[a].phase = "kept"    ->
           [phase |-> "kept", list |-> Older(apply[a].list, now),
            merged |-> apply[a].merged, snapshot |-> Older(apply[a].snapshot, now)]
      [] OTHER -> [phase |-> "applied", snapshot |-> Older(apply[a].snapshot, now)]]

\* The owner adds or removes a host at the registrar.
OwnerEdits(h) ==
  /\ steps < MaxSteps
  /\ steps' = steps + 1
  /\ hosts' = IF h \in hosts THEN hosts \ {h} ELSE hosts \cup {h}
  /\ apply' = Outdated(hosts')
  /\ theirs' = IF h \in OtherHost THEN (theirs \ {h}) \cup (hosts' \cap {h}) ELSE theirs
  /\ undone' = undone \ {h}

-----------------------------------------------------------------------------
(* registrar-apply.  The preview the wizard shows is worked out in the same *)
(* way and thrown away.                                                     *)

\* The rows, the list of hosts, and the merged list.
ListHosts(a) ==
  /\ apply[a] = NotApplied
  /\ steps < MaxSteps
  /\ steps' = steps + 1
  /\ \E claimed \in Claims(hosts) :
       apply' = [apply EXCEPT ![a] = [phase |-> "listed", list |-> Listed,
                                      merged |-> Merged(hosts, claimed)]]
  /\ UNCHANGED <<hosts, theirs, undone>>

\* applyDnsSync lists the hosts again and keeps that list in audit_log.
KeepSnapshot(a) ==
  /\ apply[a].phase = "listed"
  /\ apply' = [apply EXCEPT ![a] =
                 [phase |-> "kept", list |-> apply[a].list,
                  merged |-> apply[a].merged, snapshot |-> Listed]]
  /\ UNCHANGED <<hosts, steps, theirs, undone>>

\* setHosts replaces the whole list.
SetHosts(a) ==
  /\ apply[a].phase = "kept"
  /\ hosts' = apply[a].merged
  /\ apply' = [Outdated(hosts') EXCEPT ![a] = [phase |-> "applied",
                                               snapshot |-> apply[a].snapshot]]
  /\ undone' = undone \cup (apply[a].list.moved \cap OtherHost)
  /\ UNCHANGED <<steps, theirs>>

\* The registrar refuses a call, or the server restarts: nothing is written,
\* and nobody is told of a snapshot.
ApplyFails(a) ==
  /\ apply[a].phase \in {"listed", "kept"}
  /\ apply' = [apply EXCEPT ![a] = NotApplied]
  /\ UNCHANGED <<hosts, steps, theirs, undone>>

\* Undo, while the wizard has the snapshot's id: rollbackDnsSync.
Rollback(a) ==
  /\ apply[a].phase = "applied"
  /\ hosts' = apply[a].snapshot.hosts
  /\ apply' = [Outdated(hosts') EXCEPT ![a] = NotApplied]
  /\ undone' = undone \cup (apply[a].snapshot.moved \cap OtherHost)
  /\ UNCHANGED <<steps, theirs>>

\* The wizard is left, and the id with it.
LeaveWizard(a) ==
  /\ apply[a].phase = "applied"
  /\ apply' = [apply EXCEPT ![a] = NotApplied]
  /\ UNCHANGED <<hosts, steps, theirs, undone>>

RegistrarNext ==
  \/ \E h \in Host : OwnerEdits(h)
  \/ \E a \in Apply : ListHosts(a) \/ KeepSnapshot(a) \/ SetHosts(a) \/ ApplyFails(a)
                      \/ Rollback(a) \/ LeaveWizard(a)

RegistrarSpec == RegistrarInit /\ [][RegistrarNext]_registrarVars

-----------------------------------------------------------------------------
(* Properties.                                                             *)

RegistrarType ==
  /\ hosts \in SUBSET Host /\ theirs \in SUBSET OtherHost /\ undone \in SUBSET OtherHost
  /\ \A a \in Apply : apply[a].phase \in {"rest", "listed", "kept", "applied"}
  /\ steps \in 0..MaxSteps

\* "Nothing else on the domain is touched": a record that is none of ours is at
\* the registrar exactly as its owner left it, unless the owner changed it
\* between the list a write goes back to and that write.
UnrelatedKept ==
  \A h \in OtherHost \ undone : h \in hosts <=> h \in theirs
=============================================================================
