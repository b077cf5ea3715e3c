------------------------------- MODULE Tenancy -------------------------------
(***************************************************************************)
(* The accounts of the admin panel and whose domains are whose: customers, *)
(* resellers and the super admin (user.service.ts, tenancy.routes.ts, the  *)
(* Customers page).                                                        *)
(*                                                                         *)
(* A reseller manages the customers under it, the super admin everybody.   *)
(* Who asks is taken from a token: a role in it may be old, and a suspended *)
(* account keeps its tokens, so a reseller asks whether active or not; no  *)
(* reseller becomes a customer again.  A request on an account names one   *)
(* from a list that may be old by then, so it may name any.                *)
(*                                                                         *)
(* An action is a statement of a handler; the look at the scope of a       *)
(* domain and the update of its row are one.  Names, passwords, storage,   *)
(* mailbox limits and the usage report are left out, and so is the cap on  *)
(* domains, which the code stores and never reads.  Domains are made and   *)
(* deleted in DomainRecords; here they are there all the time.             *)
(***************************************************************************)
EXTENDS Integers, FiniteSets

CONSTANTS
  Acct,      \* accounts that can come to be, each with an address of its own
  Dom,       \* domains
  Work,      \* requests that take several steps and may be under way together
  Root,      \* the super admin
  Nobody,    \* no parent, no owner, no cap
  Limits,    \* caps on customers
  MaxActs    \* bound: requests

ASSUME TenancyAssumption ==
  /\ Limits \subseteq Nat \ {0} /\ MaxActs \in Nat
  /\ IsFiniteSet(Acct) /\ IsFiniteSet(Work) /\ Work # {}
  /\ Root \notin Acct /\ Nobody \notin Acct \cup Limits \cup {Root}

VARIABLES
  account,   \* the users rows; "none" before one is made, "gone" after
  held,      \* the domains rows: owner and whether active
  job,       \* where each request waits, and what it holds
  acts,      \* requests so far
  highest,   \* history: the highest cap a reseller has had
  loose      \* history: domains turned on, or given, while the owner was suspended

tenancyVars == <<account, held, job, acts, highest, loose>>

NoAccount == [role |-> "none", parent |-> Nobody, active |-> TRUE, cap |-> Nobody]
Rest == [at |-> "rest"]

Exists(a)    == a \in Acct /\ account[a].role \in {"reseller", "customer"}
Customers(r) == {a \in Acct : account[a].role = "customer" /\ account[a].parent = r}
Higher(c, d) == IF Nobody \in {c, d} THEN Nobody ELSE IF c > d THEN c ELSE d

\* requireRole("super_admin", "reseller").
Managers == {Root} \cup {a \in Acct : account[a].role = "reseller"}

\* userScope() and getScopedUser().
AccountsOf(by) == {a \in Acct : Exists(a) /\ (by = Root \/ account[a].parent = by)}

\* domainScope() and the condition of assignDomains().
DomainsOf(by) == {d \in Dom : by = Root \/ held[d].owner \in {by} \cup AccountsOf(by)}

\* A domain that is active although its owner is not, as it is given or turned on.
Loosened(d, o, on) == IF on /\ o # Nobody /\ ~account[o].active THEN {d} ELSE {}

TenancyInit ==
  /\ account = [a \in Acct |-> NoAccount]
  /\ held = [d \in Dom |-> [owner |-> Nobody, active |-> TRUE]]
  /\ job = [w \in Work |-> Rest]
  /\ acts = 0
  /\ highest = [a \in Acct |-> Nobody] /\ loose = {}

Act == acts < MaxActs /\ acts' = acts + 1
Stop(w) == job' = [job EXCEPT ![w] = Rest]
Go(w, at) == job' = [job EXCEPT ![w].at = at]

-----------------------------------------------------------------------------
(* createCustomer.                                                         *)

\* The address is free.  A reseller creates under itself, the super admin under
\* whom it says.
AskCustomer(w, by, a, under, ds) ==
  /\ job[w] = Rest /\ Act
  /\ by \in Managers /\ account[a].role = "none"
  /\ LET parent == IF by = Root THEN under ELSE by IN
       job' = [job EXCEPT ![w] =
         [at |-> IF parent = Nobody THEN "insert" ELSE "reseller",
          by |-> by, id |-> a, parent |-> parent, cap |-> Nobody, left |-> ds,
          next |-> Nobody]]
  /\ UNCHANGED <<account, held, highest, loose>>

\* The row of the reseller, and its cap.
FindReseller(w) ==
  /\ job[w].at = "reseller"
  /\ LET r == account[job[w].parent] IN
       IF r.role # "reseller" THEN Stop(w)
       ELSE job' = [job EXCEPT ![w].at = IF r.cap = Nobody THEN "insert" ELSE "count",
                               ![w].cap = r.cap]
  /\ UNCHANGED <<account, held, acts, highest, loose>>

\* Mistake: the cap is reached when it is passed.
CountCustomers_Past(w) ==
  /\ job[w].at = "count"
  /\ IF Cardinality(Customers(job[w].parent)) > job[w].cap THEN Stop(w) ELSE Go(w, "insert")
  /\ UNCHANGED <<account, held, acts, highest, loose>>

CountCustomers(w) ==
  /\ job[w].at = "count"
  /\ IF Cardinality(Customers(job[w].parent)) >= job[w].cap THEN Stop(w) ELSE Go(w, "insert")
  /\ UNCHANGED <<account, held, acts, highest, loose>>

\* The row, unless the address was taken or the parent deleted meanwhile.
InsertCustomer(w) ==
  /\ job[w].at = "insert"
  /\ LET a == job[w].id
         p == job[w].parent IN
       IF account[a].role = "none" /\ (p = Nobody \/ Exists(p))
       THEN /\ account' = [account EXCEPT ![a] =
                 [role |-> "customer", parent |-> p, active |-> TRUE, cap |-> Nobody]]
            /\ IF job[w].left = {} THEN Stop(w) ELSE Go(w, "find")
       ELSE Stop(w) /\ UNCHANGED account
  /\ UNCHANGED <<held, acts, highest, loose>>

\* assignDomains: the next domain is looked for; one that is not there ends the
\* request, and the customer stays with those before it.
FindDomain(w, d) ==
  /\ job[w].at = "find" /\ d \in job[w].left
  /\ IF d \in DomainsOf(job[w].by)
     THEN job' = [job EXCEPT ![w].at = "assign", ![w].next = d]
     ELSE Stop(w)
  /\ UNCHANGED <<account, held, acts, highest, loose>>

\* It takes the customer for its owner, unless that one was deleted.
AssignDomain(w) ==
  /\ job[w].at = "assign"
  /\ LET d    == job[w].next
         a    == job[w].id
         left == job[w].left \ {d} IN
       IF Exists(a)
       THEN /\ held' = [held EXCEPT ![d].owner = a]
            /\ loose' = (loose \ {d}) \cup Loosened(d, a, held[d].active)
            /\ job' = [job EXCEPT ![w] = IF left = {} THEN Rest
                         ELSE [job[w] EXCEPT !.at = "find", !.left = left]]
       ELSE Stop(w) /\ UNCHANGED <<held, loose>>
  /\ UNCHANGED <<account, acts, highest>>

-----------------------------------------------------------------------------
(* Suspending, reactivating and deleting an account.                       *)

AskToChange(w, by, op, a) ==
  /\ job[w] = Rest /\ Act
  /\ by \in Managers
  /\ job' = [job EXCEPT ![w] = [at |-> "scope", by |-> by, id |-> a, op |-> op]]
  /\ UNCHANGED <<account, held, highest, loose>>

\* The button of a row asks for the other of what the row shows.
Toggle(w, by, a, shownActive) == AskToChange(w, by, IF shownActive THEN "suspend" ELSE "reactivate", a)
Remove(w, by, a) == AskToChange(w, by, "delete", a)

CheckScope(w) ==
  /\ job[w].at = "scope"
  /\ IF job[w].id \in AccountsOf(job[w].by) THEN Go(w, job[w].op) ELSE Stop(w)
  /\ UNCHANGED <<account, held, acts, highest, loose>>

\* Mistake: the domains are left as they are.
SetUserSuspended_Account(w) ==
  /\ job[w].at \in {"suspend", "reactivate"}
  /\ Stop(w)
  /\ LET a == job[w].id IN
       IF Exists(a) THEN account' = [account EXCEPT ![a].active = job[w].at = "reactivate"]
       ELSE UNCHANGED account
  /\ UNCHANGED <<held, loose, acts, highest>>

\* setUserSuspended: the account and its domains, in one transaction.
SetUserSuspended(w) ==
  /\ job[w].at \in {"suspend", "reactivate"}
  /\ Stop(w)
  /\ LET a  == job[w].id
         on == job[w].at = "reactivate" IN
       IF Exists(a)
       THEN /\ account' = [account EXCEPT ![a].active = on]
            /\ held' = [d \in Dom |-> IF held[d].owner = a THEN [owner |-> a, active |-> on]
                                      ELSE held[d]]
            /\ loose' = {d \in loose : held[d].owner # a}
       ELSE UNCHANGED <<account, held, loose>>
  /\ UNCHANGED <<acts, highest>>

\* Mistake: accounts keep a parent that is gone.
DeleteUser_Only(w) ==
  /\ job[w].at = "delete" /\ Exists(job[w].id)
  /\ Stop(w)
  /\ account' = [account EXCEPT ![job[w].id].role = "gone"]
  /\ held' = [d \in Dom |-> IF held[d].owner = job[w].id THEN [held[d] EXCEPT !.owner = Nobody]
                            ELSE held[d]]
  /\ UNCHANGED <<acts, highest, loose>>

\* deleteUser: the customers and domains under the account are left to nobody.
DeleteUser(w) ==
  /\ job[w].at = "delete"
  /\ Stop(w)
  /\ LET a == job[w].id IN
       IF Exists(a)
       THEN /\ account' = [b \in Acct |->
                 IF b = a THEN [NoAccount EXCEPT !.role = "gone"]
                 ELSE IF account[b].parent = a THEN [account[b] EXCEPT !.parent = Nobody]
                 ELSE account[b]]
            /\ held' = [d \in Dom |-> IF held[d].owner = a THEN [held[d] EXCEPT !.owner = Nobody]
                                      ELSE held[d]]
       ELSE UNCHANGED <<account, held>>
  /\ UNCHANGED <<acts, highest, loose>>

-----------------------------------------------------------------------------
(* Resellers: the super admin's requests, of one write each.               *)

CreateReseller(a, c) ==
  /\ Act /\ account[a].role = "none"
  /\ account' = [account EXCEPT ![a] =
       [role |-> "reseller", parent |-> Nobody, active |-> TRUE, cap |-> c]]
  /\ highest' = [highest EXCEPT ![a] = c]
  /\ UNCHANGED <<held, job, loose>>

\* Mistake: a customer that becomes a reseller stays under one.
PromoteToReseller_Under(a, c) ==
  /\ Act /\ Exists(a)
  /\ account' = [account EXCEPT ![a].role = "reseller",
                                ![a].cap = IF c = Nobody THEN @ ELSE c]
  /\ highest' = [highest EXCEPT ![a] = Higher(@, account'[a].cap)]
  /\ UNCHANGED <<held, job, loose>>

\* promoteToReseller: of any account; a cap that is not given stays.
PromoteToReseller(a, c) ==
  /\ Act /\ Exists(a)
  /\ account' = [account EXCEPT ![a].role = "reseller", ![a].parent = Nobody,
                                ![a].cap = IF c = Nobody THEN @ ELSE c]
  /\ highest' = [highest EXCEPT ![a] = IF account[a].role = "customer" THEN account'[a].cap
                                    ELSE Higher(@, account'[a].cap)]
  /\ UNCHANGED <<held, job, loose>>

UpdateReseller(a, c) ==
  /\ Act /\ Exists(a) /\ c # Nobody
  /\ account' = [account EXCEPT ![a].cap = c]
  /\ highest' = [highest EXCEPT ![a] = Higher(@, c)]
  /\ UNCHANGED <<held, job, loose>>

-----------------------------------------------------------------------------
(* Domains, from their own pages.                                          *)

\* updateDomain with an owner: of any account, under whoever asks or not.
ReassignDomain(by, d, o) ==
  /\ Act /\ by \in Managers /\ d \in DomainsOf(by) /\ (o = Nobody \/ Exists(o))
  /\ held' = [held EXCEPT ![d].owner = o]
  /\ loose' = (loose \ {d}) \cup Loosened(d, o, held[d].active)
  /\ UNCHANGED <<account, job, highest>>

\* setDomainSuspended.
SetDomainSuspended(by, d, suspended) ==
  /\ Act /\ by \in Managers /\ d \in DomainsOf(by)
  /\ held' = [held EXCEPT ![d].active = ~suspended]
  /\ loose' = (loose \ {d}) \cup Loosened(d, held[d].owner, ~suspended)
  /\ UNCHANGED <<account, job, highest>>

JobStep(w) ==
  \/ FindReseller(w) \/ CountCustomers(w) \/ InsertCustomer(w)
  \/ \E d \in Dom : FindDomain(w, d)
  \/ AssignDomain(w)
  \/ CheckScope(w) \/ SetUserSuspended(w) \/ DeleteUser(w)

TenancyNext ==
  \/ \E w \in Work :
       \/ JobStep(w)
       \/ \E by \in Acct \cup {Root}, a \in Acct :
            \/ \E under \in Acct \cup {Nobody}, ds \in SUBSET Dom : AskCustomer(w, by, a, under, ds)
            \/ \E seen \in BOOLEAN : Toggle(w, by, a, seen)
            \/ Remove(w, by, a)
  \/ \E a \in Acct, c \in Limits \cup {Nobody} :
       CreateReseller(a, c) \/ PromoteToReseller(a, c) \/ UpdateReseller(a, c)
  \/ \E by \in Acct \cup {Root}, d \in Dom :
       \/ \E o \in Acct \cup {Nobody} : ReassignDomain(by, d, o)
       \/ \E suspended \in BOOLEAN : SetDomainSuspended(by, d, suspended)

TenancySpec == TenancyInit /\ [][TenancyNext]_tenancyVars

-----------------------------------------------------------------------------
(* Properties.                                                             *)

\* Only customers are under somebody, and that is a reseller under nobody.  The
\* scopes of scope.ts and user.service.ts look one level down and rely on it,
\* although parents are promoted and deleted while customers are made.
TwoLevels ==
  \A a \in Acct : account[a].parent # Nobody =>
    LET r == account[account[a].parent] IN
      account[a].role = "customer" /\ r.role = "reseller" /\ r.parent = Nobody

\* A reseller passes the highest cap it has had by no more customers than there
\* can be requests beside one: what createCustomer() counts may be old when it
\* inserts, by those that have counted before the others inserted.
CapPassedByRacesOnly ==
  \A r \in Acct : account[r].role = "reseller" /\ highest[r] # Nobody =>
    Cardinality(Customers(r))
      + Cardinality({w \in Work : job[w].at = "insert" /\ job[w].parent = r /\ job[w].cap # Nobody})
    <= highest[r] + Cardinality(Work) - 1

\* The domains of a suspended account are suspended too, unless one was turned
\* on, or given to it, while it was.
DomainsFrozen ==
  \A d \in Dom : LET o == held[d].owner IN
    o # Nobody /\ ~account[o].active /\ d \notin loose => ~held[d].active

=============================================================================
