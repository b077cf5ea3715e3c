----------------------------- MODULE AdminPages -----------------------------
(***************************************************************************)
(* What the pages of the admin panel show, and when it is as the server    *)
(* has it: the queries of each page and its tabs, the requests its buttons *)
(* send, and the cache between them (features/, lib/queryClient.ts).       *)
(*                                                                         *)
(* A page asks for what it shows as it opens, unless the cache holds it    *)
(* and it is younger than 30 seconds.  A button sends a request; if that   *)
(* succeeds, what it names in the cache is stale, and asked for once more  *)
(* where it is on screen.  The cache is React Query, external to the       *)
(* repository and modelled as the pages use it.                            *)
(*                                                                         *)
(* An answer is as the server would give it now ("now"), or as it was      *)
(* before a change ("before"), in what a page shows of it.  One super      *)
(* admin, one domain, one search and one row at a time; what is typed into *)
(* a form, dialogs and toasts are left out.  A query that fails is asked   *)
(* for twice more, which is one loss here.  The usage report and the trace *)
(* are never asked for: their query is disabled, and a refetch passes it.  *)
(***************************************************************************)
EXTENDS Naturals

CONSTANTS
  Sending,      \* requests that may be under way together
  MaxOpens,     \* bound: pages and tabs opened
  MaxPresses,   \* bound: buttons pressed
  MaxLosses     \* bound: answers and connections lost, and changes nobody tells
                \* the panel of

ASSUME AdminPagesAssumption == MaxOpens \in Nat /\ MaxPresses \in Nat /\ MaxLosses \in Nat

VARIABLES
  place,    \* the page, or tab of one, on screen
  data,     \* what the cache holds for each query
  fetch,    \* whether an answer is on its way, and if it may be from before a change
  stale,    \* queries to be asked for again, whatever their age
  failed,   \* queries whose last fetch failed
  sent,     \* requests under way
  untold,   \* history: queries changed since their last answer with no button
            \* beside them that tells
  opens, presses, missing

pagesVars == <<place, data, fetch, stale, failed, sent, untold, opens, presses, missing>>

-----------------------------------------------------------------------------
(* Queries, and the requests that change their answers.                    *)

DashboardQueries == {"dashboard", "volume", "topDomains"}
DomainQueries    == {"domainList", "domainNames", "domain", "dns", "dkim", "registrar"}
MailQueries      == {"mailboxes", "testBoxes", "aliases", "forwarders"}
CustomerQueries  == {"customers", "resellers"}
OpsQueries       == {"queue", "logs", "nodes", "thresholds", "scores", "accessRules"}
SettingsQueries  == {"tokens", "alerts", "namecheap"}

Query == DashboardQueries \cup DomainQueries \cup MailQueries \cup CustomerQueries
           \cup OpsQueries \cup SettingsQueries

\* Queries whose key begins with "domains" and an id, or with "domains".
OfDomain  == {"domain", "dns", "dkim", "registrar", "testBoxes"}
OfDomains == OfDomain \cup {"domainList", "domainNames"}

\* refetchInterval.
Polled == {"queue", "nodes", "dashboard"}

\* By request, the queries whose answer it changes.
TenancyRoutes == [
  createCustomer  |-> {"customers"},
  suspendCustomer |-> {"customers", "domainList", "domain", "dashboard"},
  deleteCustomer  |-> {"customers"},
  createReseller  |-> {"resellers"},
  createToken     |-> {"tokens"},
  revokeToken     |-> {"tokens"},
  saveAlerts      |-> {"alerts"}]

DomainRoutes == [
  createDomain  |-> {"domainList", "domainNames"},
  saveDomain    |-> {"domainList", "domain", "dns", "dashboard"},
  suspendDomain |-> {"domainList", "domain", "dashboard"},
  deleteDomain  |-> {"domainList", "domainNames", "domain", "dns", "dkim", "testBoxes", "mailboxes",
                     "aliases", "forwarders", "nodes", "accessRules", "dashboard"}]

DnsRoutes == [
  validateDns  |-> {"domainList", "dns", "dashboard"},
  applySync    |-> {},
  rollbackSync |-> {},
  testDelivery |-> {},
  sendDns      |-> {},
  rotateDkim   |-> {"domainList", "dns", "dkim", "dashboard"}]

MailboxRoutes == [
  createMailbox   |-> {"mailboxes", "testBoxes", "domainList", "domain"},
  importMailboxes |-> {"mailboxes", "testBoxes", "domainList", "domain"},
  suspendMailbox  |-> {"mailboxes"},
  resetPassword   |-> {},
  deleteMailbox   |-> {"mailboxes", "testBoxes", "domainList", "domain"}]

AliasRoutes == [createAlias |-> {"aliases"}, deleteAlias |-> {"aliases"},
                createForwarder |-> {"forwarders"}, deleteForwarder |-> {"forwarders"}]

OpsRoutes == [
  retryMessage   |-> {"queue", "dashboard"},
  deleteMessage  |-> {"queue", "dashboard"},
  flushQueue     |-> {"queue", "dashboard"},
  registerNode   |-> {"nodes", "queue", "dashboard"},
  decommission   |-> {"nodes", "queue", "dashboard"},
  saveThresholds |-> {"thresholds"},
  createRule     |-> {"accessRules"},
  deleteRule     |-> {"accessRules"}]

SettingsRoutes == [saveNamecheap |-> {"namecheap"}, testNamecheap |-> {}]

-----------------------------------------------------------------------------
(* The pages: what each component reads, and its buttons.                  *)

\* A button does does at the server and tells tells in the cache.  It needs the
\* data of on, and goes to a page once its request has succeeded.
Button(name, does, tells, on, once, to) ==
  [name |-> name, does |-> does, tells |-> tells, on |-> on, once |-> once, to |-> to]

\* Disabled while its request is under way (loading), or not.
Once(name, does, tells, on)  == Button(name, does, tells, on, TRUE, "here")
Often(name, does, tells, on) == Button(name, does, tells, on, FALSE, "here")

Shows(reads, ops) == [reads |-> reads, ops |-> ops]
Both(a, b) == Shows(a.reads \cup b.reads, a.ops \cup b.ops)

DashboardPage == Shows({"dashboard", "volume", "topDomains"}, {})

CreateDomainDialog == Shows({}, {Once("createDomain", DomainRoutes.createDomain, OfDomains, "none")})
DomainsPage == Both(Shows({"domainList"}, {}), CreateDomainDialog)

DnsRecords == Shows({"dns"},
  {Once("validateDns", DnsRoutes.validateDns, {"dns"}, "none"),
   Once("sendDns", DnsRoutes.sendDns, {}, "none")})
RegistrarAutoConfigure == Shows({"registrar"},
  {Once("applySync", DnsRoutes.applySync, {"dns"}, "registrar"),
   Once("rollbackSync", DnsRoutes.rollbackSync, {"dns"}, "registrar")})
DeliveryTestCard == Shows({"testBoxes"},
  {Once("testDelivery", DnsRoutes.testDelivery, {}, "testBoxes")})
DnsWizard == Both(DnsRecords, Both(RegistrarAutoConfigure, DeliveryTestCard))

DkimPanel == Shows({"dkim"}, {Once("rotateDkim", DnsRoutes.rotateDkim, {"dkim", "dns"}, "none")})

DomainSettings == Shows({},
  {Once("saveDomain", DomainRoutes.saveDomain, OfDomains, "domain"),
   Once("suspendDomain", DomainRoutes.suspendDomain, OfDomains, "domain"),
   Button("deleteDomain", DomainRoutes.deleteDomain, {}, "domain", TRUE, "domains")})

DomainDetailPage(tab) == Both(Shows({"domain"}, {}), tab)

RowActions ==
  {Often("suspendMailbox", MailboxRoutes.suspendMailbox, {"mailboxes"}, "mailboxes"),
   Once("resetPassword", MailboxRoutes.resetPassword, {}, "mailboxes"),
   Once("deleteMailbox", MailboxRoutes.deleteMailbox, {"mailboxes"}, "mailboxes")}
CreateMailboxDialog ==
  {Once("createMailbox", MailboxRoutes.createMailbox, {"mailboxes"}, "none")}
ImportDialog ==
  {Once("importMailboxes", MailboxRoutes.importMailboxes, {"mailboxes"}, "none")}
MailboxTab == Shows({"mailboxes"}, RowActions \cup CreateMailboxDialog \cup ImportDialog)

AliasTab == Shows({"aliases"},
  {Once("createAlias", AliasRoutes.createAlias, {"aliases"}, "none"),
   Often("deleteAlias", AliasRoutes.deleteAlias, {"aliases"}, "aliases")})

ForwarderTab == Shows({"forwarders"},
  {Once("createForwarder", AliasRoutes.createForwarder, {"forwarders"}, "none"),
   Often("deleteForwarder", AliasRoutes.deleteForwarder, {"forwarders"}, "forwarders")})

DomainSelect == Shows({"domainNames"}, {})
MailboxesPage(tab) == Both(DomainSelect, tab)

\* Mistake: the list is not told of the customer suspended on it.
CustomerList_Silent == Shows({"customers"},
  {Often("suspendCustomer", TenancyRoutes.suspendCustomer, {}, "customers"),
   Often("deleteCustomer", TenancyRoutes.deleteCustomer, {"customers"}, "customers")})

CustomerList == Shows({"customers"},
  {Often("suspendCustomer", TenancyRoutes.suspendCustomer, {"customers"}, "customers"),
   Often("deleteCustomer", TenancyRoutes.deleteCustomer, {"customers"}, "customers")})
ResellerList == Shows({"resellers"}, {})
CreateTenantDialog(kind) == Shows({},
  IF kind = "reseller"
  THEN {Once("createReseller", TenancyRoutes.createReseller, {"resellers"}, "none")}
  ELSE {Once("createCustomer", TenancyRoutes.createCustomer, {"customers"}, "none")})

NodeCard == {Once("decommission", OpsRoutes.decommission, {"nodes"}, "nodes")}
RegisterNodeDialog == {Once("registerNode", OpsRoutes.registerNode, {"nodes"}, "none")}
NodesPage == Shows({"nodes"}, NodeCard \cup RegisterNodeDialog)

QueuePage == Shows({"queue"},
  {Often("retryMessage", OpsRoutes.retryMessage, {"queue"}, "queue"),
   Often("deleteMessage", OpsRoutes.deleteMessage, {"queue"}, "queue"),
   Once("flushQueue", OpsRoutes.flushQueue, {"queue"}, "none")})

LogsPage == Shows({"logs"}, {})

ThresholdsCard == Shows({"thresholds"},
  {Once("saveThresholds", OpsRoutes.saveThresholds, {"thresholds"}, "none")})
ScoreCard == Shows({"scores"}, {})
AccessRulesCard == Shows({"accessRules"},
  {Once("createRule", OpsRoutes.createRule, {"accessRules"}, "none"),
   Often("deleteRule", OpsRoutes.deleteRule, {"accessRules"}, "accessRules")})
SpamPage == Both(ThresholdsCard, Both(ScoreCard, AccessRulesCard))

ApiTokensCard == Shows({"tokens"},
  {Once("createToken", TenancyRoutes.createToken, {"tokens"}, "none"),
   Often("revokeToken", TenancyRoutes.revokeToken, {"tokens"}, "tokens")})
EmailAlertsCard == Shows({"alerts"},
  {Once("saveAlerts", TenancyRoutes.saveAlerts, {"alerts"}, "none")})
RegistrarCard == Shows({"namecheap"},
  {Once("saveNamecheap", SettingsRoutes.saveNamecheap, {"namecheap"}, "none"),
   Once("testNamecheap", SettingsRoutes.testNamecheap, {}, "namecheap")})
SettingsPage == Both(ApiTokensCard, Both(EmailAlertsCard, RegistrarCard))

DomainTabs   == {"dns", "dkim", "domainSettings"}
MailTabs     == {"mailboxes", "aliases", "forwarders"}
CustomerTabs == {"customers", "resellers"}

\* What a link or an address leads to; the other tabs are reached from beside.
Entry == {"dashboard", "domains", "dns", "pick", "customers", "nodes", "queue", "logs", "spam",
          "settings"}
Place == Entry \cup DomainTabs \cup MailTabs \cup CustomerTabs

\* adminPages(), by page and tab; "pick" is the mailboxes page before a domain is
\* chosen.
Page == [p \in Place |->
  CASE p = "dashboard"      -> DashboardPage
    [] p = "domains"        -> DomainsPage
    [] p = "dns"            -> DomainDetailPage(DnsWizard)
    [] p = "dkim"           -> DomainDetailPage(DkimPanel)
    [] p = "domainSettings" -> DomainDetailPage(DomainSettings)
    [] p = "pick"           -> DomainSelect
    [] p = "mailboxes"      -> MailboxesPage(MailboxTab)
    [] p = "aliases"        -> MailboxesPage(AliasTab)
    [] p = "forwarders"     -> MailboxesPage(ForwarderTab)
    [] p = "customers"      -> Both(CustomerList, CreateTenantDialog("customer"))
    [] p = "resellers"      -> Both(ResellerList, CreateTenantDialog("reseller"))
    [] p = "nodes"          -> NodesPage
    [] p = "queue"          -> QueuePage
    [] p = "logs"           -> LogsPage
    [] p = "spam"           -> SpamPage
    [] p = "settings"       -> SettingsPage]

TabsOf(p) ==
  CASE p \in DomainTabs   -> DomainTabs
    [] p \in MailTabs     -> MailTabs
    [] p \in CustomerTabs -> CustomerTabs
    [] OTHER              -> {p}

\* The queries of a page, of all its tabs.
Beside == [p \in Place |-> UNION {Page[t].reads : t \in TabsOf(p)}]

\* The queries on screen: the tabs of a domain wait for its row.
Mounted(p, d) == IF p \in DomainTabs /\ d["domain"] = "none" THEN {"domain"} ELSE Page[p].reads
OnScreen == Mounted(place, data)

-----------------------------------------------------------------------------
(* The cache.                                                              *)

Nothing == [at |-> "nothing"]

PagesInit ==
  /\ place \in Entry
  /\ data = [q \in Query |-> "none"]
  /\ fetch = [q \in Query |-> IF q \in OnScreen THEN "now" ELSE "no"]
  /\ stale = {} /\ failed = {}
  /\ sent = [s \in Sending |-> Nothing]
  /\ untold = {}
  /\ opens = 0 /\ presses = 0 /\ missing = 0

\* What is mounted is asked for unless the cache holds it and it is neither stale
\* nor aged, as older than staleTime.
Mount(was, is, aged, f) ==
  [q \in Query |->
     IF q \in is \ was /\ f[q] = "no" /\ (data[q] = "none" \/ q \in stale \cup aged)
     THEN "now" ELSE f[q]]

\* Those of qs that the cache holds, or will hold.
Known(qs) == {q \in qs : data[q] # "none" \/ fetch[q] # "no"}

Past(f, qs) == [q \in Query |-> IF q \in qs /\ f[q] = "now" THEN "before" ELSE f[q]]

\* The answer to a query arrives.  It was given before what changed since it was
\* asked for, or after.
Arrive(q, d, aged) ==
  /\ fetch[q] # "no" /\ d \in {"now", fetch[q]}
  /\ data' = [data EXCEPT ![q] = d]
  /\ aged \subseteq Mounted(place, data') \ OnScreen
  /\ fetch' = Mount(OnScreen, Mounted(place, data'), aged, [fetch EXCEPT ![q] = "no"])
  /\ stale' = stale \ {q} /\ failed' = failed \ {q}
  /\ untold' = IF d = "now" THEN untold \ {q} ELSE untold
  /\ UNCHANGED <<place, sent, opens, presses, missing>>

Loss == missing < MaxLosses /\ missing' = missing + 1

FetchFails(q) ==
  /\ Loss /\ fetch[q] # "no"
  /\ fetch' = [fetch EXCEPT ![q] = "no"]
  /\ stale' = stale \cup {q} /\ failed' = failed \cup {q}
  /\ UNCHANGED <<place, data, sent, untold, opens, presses>>

Interval(q) ==
  /\ q \in Polled \cap OnScreen /\ fetch[q] = "no"
  /\ fetch' = [fetch EXCEPT ![q] = "now"]
  /\ UNCHANGED <<place, data, stale, failed, sent, untold, opens, presses, missing>>

\* The connection is back, on which lib/queryClient.ts leaves refetchOnReconnect: what
\* is on screen is asked for, unless it is fresh or on its way.
Reconnect(q) ==
  /\ Loss /\ q \in OnScreen /\ fetch[q] = "no"
  /\ fetch' = [fetch EXCEPT ![q] = "now"]
  /\ UNCHANGED <<place, data, stale, failed, sent, untold, opens, presses>>

\* Five minutes off screen.
Forget(q) ==
  /\ Loss /\ q \notin OnScreen /\ fetch[q] = "no" /\ data[q] # "none"
  /\ data' = [data EXCEPT ![q] = "none"]
  /\ stale' = stale \ {q} /\ failed' = failed \ {q} /\ untold' = untold \ {q}
  /\ UNCHANGED <<place, fetch, sent, opens, presses>>

\* Others, jobs and the mail servers change what the panel shows as well.
Outside(q) ==
  /\ Loss /\ "now" \in {data[q], fetch[q]}
  /\ data' = Past(data, {q}) /\ fetch' = Past(fetch, {q})
  /\ untold' = untold \cup {q}
  /\ UNCHANGED <<place, stale, failed, sent, opens, presses>>

\* node:stats, with the counters as the server has them or had them.
PushStats(d) ==
  /\ place = "dashboard"
  /\ IF d = "before" THEN Loss ELSE UNCHANGED missing
  /\ data' = [data EXCEPT !["dashboard"] = d]
  /\ stale' = stale \ {"dashboard"} /\ failed' = failed \ {"dashboard"}
  /\ untold' = IF d = "now" /\ fetch["dashboard"] # "before" THEN untold \ {"dashboard"}
               ELSE untold \cup {"dashboard"}
  /\ UNCHANGED <<place, fetch, sent, opens, presses>>

-----------------------------------------------------------------------------
(* The user, and requests.                                                 *)

\* A domain is picked from the names; tabs are beside each other.
Leads(p) ==
  \/ p \in Entry
  \/ p \in TabsOf(place) /\ (place \in DomainTabs => data["domain"] # "none")
  \/ p = "mailboxes" /\ place = "pick" /\ data["domainNames"] # "none"

Open(p, aged) ==
  /\ opens < MaxOpens /\ opens' = opens + 1
  /\ p # place /\ Leads(p)
  /\ aged \subseteq Mounted(p, data) \ OnScreen
  /\ place' = p
  /\ fetch' = Mount(OnScreen, Mounted(p, data), aged, fetch)
  /\ UNCHANGED <<data, stale, failed, sent, untold, presses, missing>>

Underway(s) == sent[s] # Nothing

\* A button that waits for its request is enabled again where it is mounted anew.
Press(s, b) ==
  /\ presses < MaxPresses /\ presses' = presses + 1
  /\ ~Underway(s)
  /\ b \in Page[place].ops /\ OnScreen = Page[place].reads
  /\ b.on # "none" => data[b.on] # "none"
  /\ b.once => \A t \in Sending : Underway(t) => sent[t].button # b \/ sent[t].since # opens
  /\ sent' = [sent EXCEPT ![s] = [at |-> "asked", button |-> b, page |-> place, since |-> opens]]
  /\ UNCHANGED <<place, data, fetch, stale, failed, untold, opens, missing>>

\* The request does what it does at the server, or is refused.
Serve(s) ==
  /\ sent[s].at = "asked"
  /\ sent' = [sent EXCEPT ![s].at = "served"]
  /\ LET b == sent[s].button IN
       /\ data' = Past(data, b.does) /\ fetch' = Past(fetch, b.does)
       /\ untold' = untold \cup
            Known(IF b.to = "here" THEN b.does \ Beside[sent[s].page] ELSE b.does)
  /\ UNCHANGED <<place, stale, failed, opens, presses, missing>>

\* The request changes nothing and fails.  One that changed something and failed then,
\* as an import does whose process ends midway, is a Serve and a LoseAnswer: the page
\* hears an error in both, and its onSuccess tells nothing.
Refuse(s) ==
  /\ sent[s].at = "asked"
  /\ sent' = [sent EXCEPT ![s] = Nothing]
  /\ UNCHANGED <<place, data, fetch, stale, failed, untold, opens, presses, missing>>

\* The answer to a request is lost or is an error, and with it what it would have told.
LoseAnswer(s) ==
  /\ Loss /\ sent[s].at = "served"
  /\ sent' = [sent EXCEPT ![s] = Nothing]
  /\ untold' = untold \cup Known(sent[s].button.does)
  /\ UNCHANGED <<place, data, fetch, stale, failed, opens, presses>>

\* invalidateQueries: a fetch under way is cancelled and begun again, unless it is
\* the first one of its query or nothing shows it; what it brings counts as new.  A
\* first load is not begun again even on screen, so what it read before the change is
\* shown as new until something else fetches it: such a query counts as untold.
Told(qs) ==
  LET first  == {q \in qs : data[q] = "none" /\ fetch[q] # "no"}
      again  == (qs \cap OnScreen) \ first IN
    /\ stale' = stale \cup qs
    /\ fetch' = [q \in Query |-> IF q \in again THEN "now" ELSE fetch[q]]
    /\ untold' = untold \cup {q \in qs \ again : fetch[q] = "before"}

\* onSuccess, on whatever page.
Succeed(s) ==
  /\ sent[s].at = "served" /\ sent[s].button.to = "here"
  /\ sent' = [sent EXCEPT ![s] = Nothing]
  /\ Told(sent[s].button.tells)
  /\ UNCHANGED <<place, data, failed, opens, presses, missing>>

\* Deleting a domain tells nothing and goes to the list of domains.
Leave(s, aged) ==
  /\ sent[s].at = "served" /\ sent[s].button.to # "here"
  /\ sent' = [sent EXCEPT ![s] = Nothing]
  /\ opens' = opens + 1
  /\ LET p == sent[s].button.to IN
       /\ place' = p
       /\ aged \subseteq Mounted(p, data) \ OnScreen
       /\ fetch' = Mount(OnScreen, Mounted(p, data), aged, fetch)
  /\ UNCHANGED <<data, stale, failed, untold, presses, missing>>

\* The button of the queue page.
Refresh ==
  /\ place = "queue"
  /\ Told({"queue"})
  /\ UNCHANGED <<place, data, failed, sent, opens, presses, missing>>

PagesNext ==
  \/ \E q \in Query :
       \/ \E d \in {"now", "before"}, aged \in SUBSET (Page[place].reads \ OnScreen) : Arrive(q, d, aged)
       \/ FetchFails(q) \/ Interval(q) \/ Reconnect(q) \/ Forget(q) \/ Outside(q)
  \/ \E d \in {"now", "before"} : PushStats(d)
  \/ \E p \in Place : \E aged \in SUBSET (Mounted(p, data) \ OnScreen) : Open(p, aged)
  \/ \E s \in Sending :
       \/ \E b \in Page[place].ops : Press(s, b)
       \/ Serve(s) \/ Refuse(s) \/ LoseAnswer(s) \/ Succeed(s)
       \/ \E aged \in SUBSET {"domainList"} : Leave(s, aged)
  \/ Refresh

PagesSpec == PagesInit /\ [][PagesNext]_pagesVars

-----------------------------------------------------------------------------
(* Property.                                                               *)

\* What a page shows is from before a change only while a fetch for it is under way
\* or has failed, while the request that made the change has not been answered, or
\* if it is untold: no button of its page made the change, the answer was lost or an
\* error, or the first load of the query was under way when it was told and is not
\* begun again.  Beyond those, the keys that each onSuccess names in features/ cover
\* what its request changes on that page, on any tab of it.
ShownIsCurrent ==
  \A q \in OnScreen : data[q] = "before" /\ fetch[q] = "no" /\ q \notin failed =>
    \/ q \in untold
    \/ \E s \in Sending : sent[s].at = "served" /\ q \in sent[s].button.tells \cap sent[s].button.does

=============================================================================
