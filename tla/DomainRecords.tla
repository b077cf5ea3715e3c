--------------------------- MODULE DomainRecords ---------------------------
(***************************************************************************)
(* The dns_records rows of one domain and their verdicts: admin-api's      *)
(* domain.service.ts, dns.service.ts and workers/jobs.ts.                  *)
(*                                                                         *)
(* Creating a domain writes the domain, its key and its rows one after the *)
(* other.  A PATCH of sourceType updates the domain, looks for the MX row  *)
(* and adds or deletes it.  A check reads the rows, asks the resolver      *)
(* about each and writes the verdicts as they come.  Checks are run for a  *)
(* request and by the worker: its sweep of the active domains comes every  *)
(* fifteen minutes, the recheck jobs of lib/queue.ts come or do not come   *)
(* (BullMQ ignores a job whose id it has seen and kept).                   *)
(***************************************************************************)
EXTENDS DnsVerdict

CONSTANTS
  Patcher,       \* PATCH requests that may be under way together
  Checker,       \* requests for a check that may be under way together
  Tracked,       \* the kinds besides MX that have a row
  MaxMx,         \* bound: MX rows ever created
  MaxEdits,      \* bound: changes of the public zone
  MaxFaults      \* bound: failures of the resolver and of the worker

ASSUME DomainRecordsAssumption ==
  /\ Tracked \subseteq MailKind \ {"MX"}
  /\ {MaxEdits, MaxFaults} \subseteq Nat /\ MaxMx \in Nat \ {0}
  /\ "worker" \notin Checker /\ "nobody" \notin Patcher

VARIABLES
  source,     \* Domain.sourceType, "none" before it exists, "deleted" after
  active,     \* Domain.isActive
  status,     \* the rows: their verdict, "absent" for no row
  mxMade,     \* MX rows created so far
  creating,   \* createDomain: how far it has come, and with which sourceType
  patch,      \* patch[p]: a PATCH between two steps
  check,      \* check[c]: a check, the worker's included
  zone,       \* the public records of the domain
  edits, faults,
  crossed,    \* history: two changes of the rows have overlapped
  torn        \* history: a change was cut short since the last whole one

rowVars    == <<source, active, status, mxMade, creating, patch, crossed, torn>>
domainVars == <<rowVars, check, zone, edits, faults>>

Rows        == (Tracked \X {0}) \cup ({"MX"} \X (1..MaxMx))
KindOf(row) == row[1]
MxRow(n)    == <<"MX", n>>

Present   == {row \in Rows : status[row] # "absent"}
MxPresent == {row \in Present : KindOf(row) = "MX"}
Hosts   == [kind : {"MX"} \cup Tracked, value : Value]
Source  == {"vps_hosted", "external"}
Exists  == source \in Source

\* A check: the rows it has to ask for, and the verdicts it has to write.
Check   == [ask : SUBSET Rows, got : SUBSET (Rows \X Status)]
NoCheck == [ask |-> {}, got |-> {}]
Busy(c) == check[c].ask # {} \/ check[c].got # {}

NoPatch == [phase |-> "rest"]

\* Changes of the rows under way besides p's own.
Changing(p) == creating.phase = "row" \/ \E q \in Patcher \ {p} : patch[q] # NoPatch

DomainInit ==
  /\ source = "none" /\ active = TRUE
  /\ status = [row \in Rows |-> "absent"] /\ mxMade = 0
  /\ creating = [phase |-> "no"]
  /\ patch = [p \in Patcher |-> NoPatch]
  /\ check = [c \in Checker \cup {"worker"} |-> NoCheck]
  /\ zone \in SUBSET Hosts
  /\ edits = 0 /\ faults = 0
  /\ crossed = FALSE /\ torn = FALSE

-----------------------------------------------------------------------------
(* createDomain.                                                           *)

\* The domain row; a second domain of that name is refused.
CreateRow(s) ==
  /\ creating.phase = "no"
  /\ source' = s /\ creating' = [phase |-> "row", source |-> s]
  /\ UNCHANGED <<active, status, mxMade, patch, crossed, torn>>
  /\ UNCHANGED <<check, zone, edits, faults>>

\* createInitialDkim, then buildDnsRecords and all rows in one createMany.
CreateRecords ==
  /\ creating.phase = "row" /\ Exists
  /\ LET mx == IF "MX" \in Needed(creating.source) THEN mxMade + 1 ELSE mxMade IN
       /\ mx <= MaxMx
       /\ mxMade' = mx
       /\ status' = [row \in Rows |-> IF KindOf(row) # "MX" \/ row[2] \in (mxMade + 1)..mx
                                      THEN "unchecked" ELSE status[row]]
  /\ creating' = [phase |-> "done"]
  /\ UNCHANGED <<source, active, patch, crossed, torn>>
  /\ UNCHANGED <<check, zone, edits, faults>>

\* A step fails or the server restarts: what was written stays.
CreateFails ==
  /\ creating.phase = "row"
  /\ creating' = [phase |-> "cut"]
  /\ torn' = TRUE
  /\ UNCHANGED <<source, active, status, mxMade, patch, crossed>>
  /\ UNCHANGED <<check, zone, edits, faults>>

-----------------------------------------------------------------------------
(* updateDomain, setDomainSuspended, deleteDomain.                         *)

\* The domain row takes the new sourceType.
PatchDomain(p, s) ==
  /\ patch[p] = NoPatch /\ Exists
  /\ source' = s
  /\ patch' = [patch EXCEPT ![p] = [phase |-> "find", source |-> s]]
  /\ crossed' = (crossed \/ Changing(p))
  /\ UNCHANGED <<active, status, mxMade, creating, torn>>
  /\ UNCHANGED <<check, zone, edits, faults>>

\* syncDnsRecordsForSourceType: findFirst for an MX row.
FindMx(p) ==
  /\ patch[p].phase = "find"
  /\ \E mx \in IF MxPresent = {} THEN {{}} ELSE {{row} : row \in MxPresent} :
       patch' = [patch EXCEPT ![p] = [phase |-> "sync", source |-> patch[p].source, mx |-> mx]]
  /\ UNCHANGED <<source, active, status, mxMade, creating, crossed, torn>>
  /\ UNCHANGED <<check, zone, edits, faults>>

\* Mistake: a row is added for a domain hosted here and never taken away.
SyncMx_AddOnly(p) ==
  /\ patch[p].phase = "sync" /\ Exists
  /\ IF patch[p].source = "vps_hosted" /\ patch[p].mx = {}
     THEN /\ mxMade < MaxMx /\ mxMade' = mxMade + 1
          /\ status' = [status EXCEPT ![MxRow(mxMade + 1)] = "unchecked"]
     ELSE UNCHANGED <<status, mxMade>>
  /\ patch' = [patch EXCEPT ![p] = NoPatch]
  /\ torn' = FALSE
  /\ UNCHANGED <<source, active, creating, crossed>>
  /\ UNCHANGED <<check, zone, edits, faults>>

\* The MX row is added, deleted, or left as it is.
SyncMx(p) ==
  /\ patch[p].phase = "sync" /\ Exists
  /\ LET wanted == "MX" \in Needed(patch[p].source)
         mx     == patch[p].mx
     IN CASE wanted /\ mx = {} ->
               /\ mxMade < MaxMx /\ mxMade' = mxMade + 1
               /\ status' = [status EXCEPT ![MxRow(mxMade + 1)] = "unchecked"]
          [] ~wanted /\ mx # {} ->
               /\ mx \subseteq Present
               /\ status' = [row \in Rows |-> IF row \in mx THEN "absent" ELSE status[row]]
               /\ UNCHANGED mxMade
          [] OTHER -> UNCHANGED <<status, mxMade>>
  /\ patch' = [patch EXCEPT ![p] = NoPatch]
  /\ torn' = FALSE
  /\ UNCHANGED <<source, active, creating, crossed>>
  /\ UNCHANGED <<check, zone, edits, faults>>

\* A step fails, as the delete of a row that another PATCH has deleted does, or
\* the server restarts.
PatchFails(p) ==
  /\ patch[p] # NoPatch
  /\ patch' = [patch EXCEPT ![p] = NoPatch]
  /\ torn' = TRUE
  /\ UNCHANGED <<source, active, status, mxMade, creating, crossed>>
  /\ UNCHANGED <<check, zone, edits, faults>>

Suspend ==
  /\ Exists
  /\ active' = ~active
  /\ UNCHANGED <<source, status, mxMade, creating, patch, crossed, torn>>
  /\ UNCHANGED <<check, zone, edits, faults>>

\* The rows go with the domain.
RemoveDomain ==
  /\ Exists
  /\ source' = "deleted"
  /\ status' = [row \in Rows |-> "absent"]
  /\ UNCHANGED <<active, mxMade, creating, patch, crossed, torn>>
  /\ UNCHANGED <<check, zone, edits, faults>>

-----------------------------------------------------------------------------
(* validateDomainDns.                                                      *)

\* The rows of the domain as they are now.
Begin(c) == check' = [check EXCEPT ![c] = [ask |-> Present, got |-> {}]]

\* The wizard's Re-check.
AskCheck(c) ==
  /\ c \in Checker /\ ~Busy(c) /\ Exists
  /\ Begin(c)
  /\ UNCHANGED <<rowVars, zone, edits, faults>>

\* checkRecord: what the resolver answers now.
Resolve(c, row) ==
  /\ row \in check[c].ask
  /\ check' = [check EXCEPT ![c].ask = @ \ {row},
                            ![c].got = @ \cup {<<row, Verdict(KindOf(row), zone)>>}]
  /\ UNCHANGED <<rowVars, zone, edits, faults>>

\* The resolver cannot be asked.
ResolveFails(c, row) ==
  /\ row \in check[c].ask /\ faults < MaxFaults
  /\ faults' = faults + 1
  /\ check' = [check EXCEPT ![c].ask = @ \ {row},
                            ![c].got = @ \cup {<<row, "propagating">>}]
  /\ UNCHANGED <<rowVars, zone, edits>>

\* Mistake: a verdict is written once and stays.
WriteVerdict_Once(c, v) ==
  /\ v \in check[c].got
  /\ status' = IF status[v[1]] = "unchecked" THEN [status EXCEPT ![v[1]] = v[2]] ELSE status
  /\ check' = [check EXCEPT ![c].got = @ \ {v}]
  /\ UNCHANGED <<source, active, mxMade, creating, patch, crossed, torn>>
  /\ UNCHANGED <<zone, edits, faults>>

\* The verdict is written; a row deleted meanwhile fails the check, and the
\* other rows are still done.
WriteVerdict(c, v) ==
  /\ v \in check[c].got
  /\ status' = IF v[1] \in Present THEN [status EXCEPT ![v[1]] = v[2]] ELSE status
  /\ check' = [check EXCEPT ![c].got = @ \ {v}]
  /\ UNCHANGED <<source, active, mxMade, creating, patch, crossed, torn>>
  /\ UNCHANGED <<zone, edits, faults>>

-----------------------------------------------------------------------------
(* The worker.                                                             *)

\* dns:revalidate, every fifteen minutes, for the domains not suspended.
Sweep ==
  /\ ~Busy("worker") /\ Exists /\ active
  /\ Begin("worker")
  /\ UNCHANGED <<rowVars, zone, edits, faults>>

\* dns:validate-domain, whether the domain is suspended or not.
Recheck ==
  /\ ~Busy("worker") /\ Exists
  /\ Begin("worker")
  /\ UNCHANGED <<rowVars, zone, edits, faults>>

\* The server restarts during a job.
Stall ==
  /\ Busy("worker") /\ faults < MaxFaults
  /\ faults' = faults + 1
  /\ check' = [check EXCEPT !["worker"] = NoCheck]
  /\ UNCHANGED <<rowVars, zone, edits>>

\* Whoever manages the domain's DNS publishes or removes a record.
EditZone(h) ==
  /\ edits < MaxEdits
  /\ edits' = edits + 1
  /\ zone' = IF h \in zone THEN zone \ {h} ELSE zone \cup {h}
  /\ UNCHANGED <<rowVars, check, faults>>

\* A check goes on once the resolver or the database has answered.
CheckStep(c) ==
  \/ \E row \in check[c].ask : Resolve(c, row)
  \/ \E v \in check[c].got : WriteVerdict(c, v)

DomainNext ==
  \/ \E s \in Source : CreateRow(s)
  \/ CreateRecords \/ CreateFails
  \/ \E p \in Patcher : \/ \E s \in Source : PatchDomain(p, s)
                        \/ FindMx(p) \/ SyncMx(p) \/ PatchFails(p)
  \/ Suspend \/ RemoveDomain
  \/ \E c \in Checker : AskCheck(c)
  \/ \E c \in Checker \cup {"worker"} :
       CheckStep(c) \/ \E row \in check[c].ask : ResolveFails(c, row)
  \/ Sweep \/ Recheck \/ Stall
  \/ \E h \in Hosts : EditZone(h)

DomainSpec == DomainInit /\ [][DomainNext]_domainVars

\* The repeatable job comes back, and a check once begun goes on.
DomainFairness ==
  /\ WF_domainVars(Sweep)
  /\ \A c \in Checker \cup {"worker"} : WF_domainVars(CheckStep(c))

-----------------------------------------------------------------------------
(* Properties.                                                             *)

\* Rows and checks are what the code makes them.
DomainType ==
  /\ source \in Source \cup {"none", "deleted"} /\ active \in BOOLEAN
  /\ status \in [Rows -> Status \cup {"absent"}] /\ mxMade \in 0..MaxMx
  /\ check \in [Checker \cup {"worker"} -> Check]
  /\ zone \subseteq Hosts

\* While no change is under way, a domain has one MX row if its mail comes here
\* and none if it does not, and that is repaired by the next whole PATCH after
\* one that was cut short, unless two changes have overlapped.
MxRowFits ==
  Exists /\ ~Changing("nobody") /\ ~crossed /\ ~torn =>
    MxPresent = (IF source = "vps_hosted" THEN {MxRow(mxMade)} ELSE {})

\* Once the public records stay as they are, and nobody suspends the domain or
\* changes its kind any more, every row of a domain that is not suspended comes
\* to show their verdict and keeps it, although a check that has asked the
\* resolver earlier may write later.
VerdictsSettle ==
  <>[][UNCHANGED <<source, active>>]_domainVars =>
    <>[](Exists /\ active =>
           \A row \in Present : status[row] = Verdict(KindOf(row), zone))
=============================================================================
