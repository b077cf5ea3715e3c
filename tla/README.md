# EZMails in TLA+

This directory is a verification development of the EZMails repository: TLA+
modules translated from the TypeScript of the two API servers and of the web
client, TLC configurations that check them on small instances, and TLAPS proofs
for every value of the constants.  `PROJECT.json` lists components, runs,
findings, hazards and theorems, and gives for every definition the source lines
it translates.

1. [The system](#1-the-system)
2. [How code becomes actions](#2-how-code-becomes-actions)
3. [The modules](#3-the-modules)
4. [What TLC checks](#4-what-tlc-checks)
5. [What the code does against its word](#5-what-the-code-does-against-its-word)
6. [What is proved](#6-what-is-proved)
7. [What is not modelled](#7-what-is-not-modelled)
8. [Plan](#8-plan)

## 1. The system

EZMails is a mail-hosting platform in one monorepo:

| part | what it is |
| --- | --- |
| `apps/admin-api` | Fastify server of the admin panel: Prisma on PostgreSQL, Redis, BullMQ workers |
| `apps/webmail-api` | Fastify server of the webmail: Prisma, Redis sessions, IMAP and SMTP clients |
| `apps/frontend` | React client of both; holds cached copies of server state |
| `packages/db` | Prisma schema and the shared client |
| `config`, `scripts` | Postfix, Dovecot, Rspamd, Nginx configuration, the node agent, installation |

The two servers share nothing but PostgreSQL and Redis.  Each is a single Node
process: a handler runs without interruption between two `await`s and
interleaves with every other handler in flight at each of them.  Almost nothing
is wrapped in a database transaction (a booking is), so nearly every hard
behaviour of this system has one shape: state is read, something is awaited, and
a decision or a whole value taken from the old state is written.  The client has
the same shape once more: a page acts on what it fetched, and an answer arrives
in a page that shows something else by then.

### Components

For each modelled component: the state it keeps, its operations, what is hard,
and what makes it correct.

**Scheduled send** (`scheduled.service.ts`).  State: `prefs.scheduled`.
Operations: `schedule`, `cancel`, `flushDue`, `listScheduled`.  There is no
worker: a flush runs inside `GET /folders` and `GET /scheduled`.  *Hard:*
flushes overlap with everything, SMTP errors are swallowed, the server may
restart between a letter and the write that takes it off the list.  *Correct:*
an accepted message is handed to SMTP, not before its time, and not after its
cancellation.

**Shared webmail preferences** (`WebmailSettings.prefs`, one JSON value per
mailbox).  Written by scheduled send, the email second factor, recovery
address, security log, known devices, blocked and allowed senders, auto-clean
and `PUT /settings`.  Every writer reads the value, awaits, and writes the whole
value back.  *Hard:* overlapping writers; a browser tab writes back the copy it
loaded minutes ago.  *Correct:* a save takes back at most what changed while its
copy was held.

**Calendar, planner, tasks** (`Calendar.tsx`, `CalendarTasks.tsx`,
`Planner.tsx`, `Tasks.tsx`).  State: three lists in the preferences, and the
dialogs of every page.  *Hard:* dialogs hold the item they were opened on while
other pages save.  *Correct:* an event is on one calendar that is shown; an item
is as its last save made it.

**Admin login lockout** (`auth.service.ts`, `lib/rate-limit.ts`; the webmail's
`lib/ratelimit.ts` is the same protocol with a limit of 6).  State: one Redis
counter per account with a time to live.  Operations: GET, bcrypt, INCR and
EXPIRE, or DEL.  *Hard:* logins overlap between GET and INCR; INCR and EXPIRE
are two commands.  *Correct:* few passwords are compared per lock window; every
lock ends.

**Admin account access** (`auth.service.ts`, `totp.service.ts`,
`session.service.ts`).  State: the user's row, refresh sessions and recovery
codes in PostgreSQL; login challenges and reset links in Redis.  Operations:
login, challenge, TOTP or recovery code, enrolment, revocation, force-logout,
reset.  *Hard:* each is several statements in two stores; a login in flight
spans a reset, a verification spans a new enrolment.  *Correct:* a reset closes
the sessions of the old password; a recovery code is used once; the second
factor is enabled with a secret its owner has.

**Admin mailboxes and import** (`mailbox.service.ts`).  State: domain rows with
a limit, mailbox rows.  Operations: create, import a CSV file, delete; change or
delete the domain.  *Hard:* count and insert are apart; an import counts once
for many rows; an insert in the middle may fail.  *Correct:* the limit bounds
the mailboxes.

**Admin customers and resellers** (`user.service.ts`, `tenancy.routes.ts`,
`lib/scope.ts`).  State: the rows of the accounts with parent, cap and whether they
are active; the owner of each domain.  Operations: create a customer with domains,
suspend, reactivate, delete, promote, change a cap, hand over a domain.  *Hard:*
look-up, count and insert are apart, and the domains are assigned one by one after
that; the parent may be promoted or deleted meanwhile.  *Correct:* customers are
under resellers and resellers under nobody; the cap bounds the customers; a
suspended account has no active domains.

**Admin pages** (`features/`, `lib/queryClient.ts`).  State: the cache of queries,
the requests under way.  Operations: open a page or a tab, press a button, and what
the answer makes stale.  *Hard:* each button has to name every list its request
changes, and fetches are on their way when it does.  *Correct:* what a page shows
follows what was changed on it.

**Admin domains and DNS** (`domain.service.ts`, `dns.service.ts`,
`lib/queue.ts`, `workers/jobs.ts`).  State: a domain row, its DNS record rows
with a verdict each, recheck jobs.  Operations: creation in several statements,
change of kind, suspension, deletion, validation by a request, the sweep and
rechecks.  *Hard:* a check writes verdicts for rows read seconds before; two
changes look for the MX row at once; a creation is cut short; a job whose name
was seen is ignored.  *Correct:* the MX row fits the kind; verdicts come to agree
with the public zone.

**Admin registrar sync** (`registrar-sync.service.ts`, `DnsWizard.tsx`).  State:
the list of hosts at the registrar, snapshots in `audit_log`.  Operations:
preview, apply, undo.  *Hard:* one call replaces all hosts, by a merge of a list
read earlier.  *Correct:* records that are not the panel's are left alone.

**Webmail bookings** (`booking.service.ts`).  State: a link (windows of hours,
duration) and its bookings.  Operations: the public page books in a Serializable
transaction; the owner cancels, edits, deletes.  *Hard:* visitors race for one
slot; the owner moves the grid under standing bookings.  *Correct:* no two
standing bookings at one time.

**Webmail sessions** (`lib/session.ts`, `plugins/auth.ts`).  State: a Redis key
per session, and an index per mailbox.  Operations: create, resolve (with a
write-back every five minutes), destroy, list, revoke one, revoke the others.
*Hard:* key and index are changed by different commands in different orders; the
write-back does not look whether the session was ended; a request that was
authenticated goes on when its session is over.  *Correct:* an ended
session stays ended; a live one is listed.

**Webmail login and second factor** (`auth.routes.ts`, `totp.service.ts`,
`mfa.service.ts`).  State: the challenge and its counter of wrong answers in
Redis, the secret and the recovery codes in the mailbox's row.  *Hard:* the
challenge is read, checked and deleted in three steps and written back whole by
the email code; the codes are a list that is read, filtered and written back.
*Correct:* a challenge and a recovery code are good for one login.

**Security page** (`WebmailApp.tsx`, `TwoFactor.tsx`, `Settings.tsx`,
`TwoFactorNag.tsx` and the routes they call).  State: the factors on the server, two
of their fields in the preferences row; the profile each browser keeps. *Hard:*
answers arrive in any order and patch the profile of then; the row is read, awaited
and written back whole by two of the cards and by everybody else.  *Correct:* the page
shows the factors there are; the email factor is on only with an address that was
proved.

**Webmail campaigns** (`campaign.service.ts`).  State: campaign and recipient rows.
Operations: import, send (for minutes, inside its HTTP request), mark an opening,
delete.  *Hard:* two sends at once, deletion during a send, a restart or an update
that fails in the middle.  *Correct:* one letter each, nobody passed over, a send ends
and stops when its campaign is deleted.

**Mail access** (`mail.service.ts`, `Inbox.tsx`, `Compose.tsx`).  State: the
folders over IMAP; on the page the folder shown, the ticks, the message that is
read, the kept lists; the letter in the composer, its countdown and its requests.
*Hard:* the page knows a message by folder and UID while mail arrives and is
filed; the composer stays mounted while letters come and go.  *Correct:* an
action takes the messages it was asked for; a letter goes out once, whole, and is
not lost; a list follows what the page did.

**Rules, auto-clean, import** (`rule.service.ts`, `autoclean.service.ts`,
`import.service.ts`).  State: the folders, the destination of an import.  *Hard:*
rules and auto-clean work beside the page; an import is run again, or twice at
once.  *Correct:* nothing is purged but by a rule that says so; a message is
copied once.

The components that are not modelled, and why, are in section 7.

### How the parts interact

| from | to | by |
| --- | --- | --- |
| browser | both servers | HTTP; the webmail tab sends its whole copy of the preferences back |
| `GET /folders` | scheduled send, rules, auto-clean | a flush that is awaited, rules and a cleaning that are not |
| admin login | lockout, then challenge or session | `verifyCredentials()` is the first step of both LoginLockout and AccountAccess |
| domain | mailbox limit, DNS rows, registrar | the route reads the domain's row; the services use that copy; the rows are what the wizard merges into the registrar's list |
| webmail request | session store | `resolveSession()` runs before every handler |
| webmail login | session store | a challenge that is passed ends in `createSession` |
| Security page | second factor, preferences | it switches the factors WebmailLogin asks for; the email factor is a key of the preferences |
| account | domains, mailbox limit | suspending it suspends its domains; a domain handed over takes its mailboxes along |
| admin pages | every admin route | a request, and the queries it makes stale |
| campaign, scheduled send, composer | SMTP | one letter per await; errors of the first two are caught one by one |

## 2. How code becomes actions

- **One action is the code between two awaits** of a handler.  A database
  statement or a Redis command is atomic; two of them are not, unless they are
  one `$transaction`.  On a page an action is an event: something is pressed, or
  an answer arrives.
- A handler's local variables are a record per request (`req[r]`), with a
  program counter named for what it does next.  `Idle` is a request slot nobody
  uses; a request that is answered, or that is refused with nothing changed,
  returns its slot to `Idle`.
- A read whose only use is to refuse a request that the next statement would
  refuse as well (an existence check in front of an update by the same key) is
  one step with that statement.  A read whose value is *used* later is a step of
  its own.
- A **restart** (`Crash`) empties every slot and keeps both stores.
- **Time** is a counter where instants are compared (ScheduledSend, Booking), the
  remaining life of a key where only that matters (LoginLockout), a countdown
  where the page counts down (Composer), and a nondeterministic expiry where
  nothing depends on how long it takes (WebmailSession, AccountAccess,
  WebmailLogin).
- **A cached value** carries, as history, what changed since it was read (`but`, the
  `moved` entries of a copy, "before" in the admin panel's cache).  Properties use
  it to say that only an outdated value loses anything.
- **History variables** (`stale`, `guesses`, `regrid`, `peak`, `out`, `revived`,
  `doubtful`, `extra`, `late`, `crossed`, `mixed`, `excused`, `adrift`, `unsure`,
  `highest`, `loose`, `untold`, ...) are read by properties only, never by a guard.
  They record what no column of the database does.
- A definition named `X_Something` with the comment "Mistake:" is a plausible bug
  in `X`, used by no specification.  `PROJECT.json` pairs it with the property
  that TLC finds violated when it takes the place of `X`.

## 3. The modules

| module | models | instance | proofs |
| --- | --- | --- | --- |
| `ScheduledSend` | the send-later queue in the preferences row | `MCScheduledSend`, `MCTimers` | `ScheduledSendProofs` |
| `Outbox` | abstract: what the queue promises | `MCTimers` | `ScheduledSendProofs` |
| `LoginLockout` | the admin login's counter | `MCTimers`, `MCLoginLockout` | `TimersProofs` |
| `DomainRecords` | a domain's DNS rows and their verdicts | `MCTimers` | `TimersProofs` |
| `DnsVerdict` | pure: what a check says of a record, which records a domain needs | | |
| `Booking` | a public booking link | `MCWebmailPages`, `MCBooking` | `WebmailPagesProofs` |
| `Appointments` | abstract: what the page promises | `MCWebmailPages` | `WebmailPagesProofs` |
| `MailFolders` | the folder page, its ticks and bulk actions, rules, auto-clean | `MCWebmailPages` | `WebmailPagesProofs` |
| `MailboxQuota` | mailbox limit, creation and import | `MCAdminHosting` | `AdminHostingProofs` |
| `RegistrarSync` | the hosts at the registrar | `MCAdminHosting` | `AdminHostingProofs` |
| `Tenancy` | customers, resellers and whose domains are whose | `MCAdminHosting` | `AdminHostingProofs` |
| `AdminPages` | what the pages of the panel show | `MCAdminHosting` | `AdminHostingProofs` |
| `WebmailSession` | webmail sessions and their index | `MCWebmailAccount`, `MCWebmailSession` | `WebmailAccountProofs` |
| `WebmailLogin` | challenge, second factor, recovery codes | `MCWebmailAccount` | `WebmailAccountProofs` |
| `Preferences` | every writer of the preferences row | `MCWebmailAccount` | `WebmailAccountProofs` |
| `Campaign` | a campaign | `MCWebmailLetters` | `WebmailLettersProofs` |
| `MailImport` | copying mail over IMAP | `MCWebmailLetters` | `WebmailLettersProofs` |
| `Composer` | the composer and its requests | `MCWebmailLetters` | `WebmailLettersProofs` |
| `AccountAccess` | admin login, second factor, sessions, reset | `MCAccountAccess` | `AccountAccessProofs` |
| `Organizer` | calendar, planner, tasks, and their dialogs | `MCWebmailKept` | `WebmailKeptProofs` |
| `Reading` | the list of a folder and the message that is read | `MCWebmailKept` | `WebmailPagesProofs` |
| `SecurityPage` | the factors, and what browsers show of them | `MCWebmailKept` | `WebmailKeptProofs` |

**How instances are put together.**  `MCTimers`, `MCWebmailPages`,
`MCAdminHosting`, `MCWebmailAccount`, `MCWebmailLetters` and `MCWebmailKept` each
hold two to four models that belong to one page, one account or one kind of
question.  The parts share no variable, so a step of one does the same whatever
the others do, and a property of one part depends on the steps of that part only;
the variable `part`, picked at the start, names the one that moves.  This is a
sum of state spaces instead of their product.  `MCTimers` takes `ScheduledSend`
by `INSTANCE` with its clashing names replaced, and names its properties.
The interactions between components that matter to a property are inside one
module: the queue with the other writers of its row (ScheduledSend), rules and
auto-clean with the page (MailFolders), the factors' switches with the login
(WebmailLogin), the limit with changes of its domain (MailboxQuota).

**ScheduledSend.**  `prefs` is the JSON value with the three keys properties are
about.  `ScheduleRead`, `CancelRead` and `FlushRead` are the first `read()` of
`schedule`, `cancel` and `flushDue`; `FlushSend` is one turn of the sending loop
(an SMTP error is swallowed, as in the code); `WriteRead` and `WriteUpsert` are
the two halves of `write()`, which takes the list from the first read and the
other keys from the second.  `MfaRead`/`MfaUpsert` are `setEmailOtpEnabled`,
`CleanRead`/`CleanUpdate` are `maybeAutoClean`, `BrowserLoad`/`BrowserPut` a tab
that saves its copy.  `Ops` selects the requests an instance receives.  `stale`
remembers that some write was based on an outdated read: the properties of the
row say that this is the *only* way anything is lost.  `Queue` maps the row onto
`Outbox`, which the model implements when requests do not overlap.

**Preferences.**  The same row for every other writer: `Press`, `PutApplied` and
`PutFails` are a page that saves its cache with one key changed (`{}` while the
cache is not loaded, which the code does not guard), `ReadPlain`, `ReadClean`,
`ReadList`, `ReadRest` and `WriteServer` the three shapes of the server's own
writers.  A copy of the column carries what changed since it was read; a write
excuses exactly the entries its copy is behind on.

**LoginLockout.**  `Gate` is the GET and the look-up, `Fail` the INCR, `Expire`
the EXPIRE that follows a count of 1, `Succeed` the DEL.  `Tick` shortens the
key's life; at its end Redis drops the key.  `guesses` counts the passwords
admitted to comparison since the key last vanished.

**DomainRecords.**  `CreateRow`, `CreateRecords`, `CreateFails` are
`createDomain`; `PatchDomain`, `FindMx`, `SyncMx`, `PatchFails` a change of kind
with `syncMxRecord`; `AskCheck`, `Resolve`, `WriteVerdict` a validation, run for a
request, by `Sweep` or by `Recheck`.  BullMQ keeps finished jobs and ignores a
name it has seen, so rechecks come or do not come.  `EditZone` is the owner at
his name server.  `torn` and `crossed` remember a change that was cut short or
overlapped another.  `DnsVerdict` has `checkRecord` and `requiredRecords`, shared
with RegistrarSync.

**RegistrarSync.**  `ListHosts`, `KeepSnapshot` and `SetHosts` are
`applyDnsSync`: a list and the merge of it, a second list kept as the snapshot,
the replacement by the *first* merge.  `Rollback` sets the list of the snapshot.
`OwnerEdits` changes a host at the registrar's site.

**MailboxQuota.**  `Ask` is the route's read of the domain, whose limit is used
from there on.  `CheckUnique`, `CheckCap`, `Insert` are `createMailbox`;
`CountRemaining`, `ReportRow`, `LookUpRow`, `InsertRow`, `EndImport` are
`importMailboxes`, row by row.  An insert the database refuses ends a creation
with an error and an import in the middle.  A CSV row is its address and whether
its own fields are valid.

**Tenancy.**  `AskCustomer` is the route and the look-up of the address;
`FindReseller`, `CountCustomers`, `InsertCustomer` are the statements of
`createCustomer`, `FindDomain` and `AssignDomain` a turn of `assignDomains`.
`Toggle` and `Remove` ask for a suspension or a deletion, `CheckScope` is
`getScopedUser`, `SetUserSuspended` and `DeleteUser` the writes; the database sets
parents and owners that go away to null.  `PromoteToReseller`, `CreateReseller` and
`UpdateReseller` are one write each, and `ReassignDomain` and `SetDomainSuspended`
come from the pages of a domain.  `highest` is the highest cap an account has had as
a reseller, `loose` the domains that were turned on or given away while their owner
was suspended.

**AdminPages.**  Every page, tab, card and dialog of `features/` is a constant: the
queries it reads and its buttons, each with what the request changes at the server
(`does`) and what its `onSuccess` names (`tells`).  `Page` puts them together as
`App.tsx` does.  The cache holds of each query whether it is as the server has it
("now") or as it was before a change ("before"), and whether an answer is on its way.
`Arrive`, `FetchFails`, `Interval`, `Reconnect`, `Forget` are React Query as the panel
configures it, `Told` is `invalidateQueries`; `Press`, `Serve`, `Refuse`, `LoseAnswer`,
`Succeed`, `Leave` are a request.  One that changed something and then failed is
served with its answer lost: the page hears an error and tells nothing.  `PushStats`
is the dashboard's push, `Outside` a change by anybody else.

**AccountAccess.**  `Login` begins after the password was found right and
remembers whether the row asked for a second factor; `StartMfaChallenge` is the
SET, `MfaGet`/`MfaDel` are `consumeMfaChallenge`, `MfaCheck` reads the row and
passes on a code of its secret or tries a recovery code, `RecoveryFind` and
`RecoveryUse` are `consumeRecoveryCode`, `CreateSession` is the insert at the end
of `issueTokens`.  `SetupTotp`, `SetupPurge`, `SetupCreate` are the three
statements of `setupTotp`; `VerifyTotp` and `EnableTotp` check the first code and
enable.  `ResetRequest`, `ResetGet`, `ResetDel`, `ResetUpdate`, `ResetSessions`
are the password reset.  `Revoke` and `ForceLogout` are single statements.
Passwords and secrets are counted rather than named, so that "older" has a
meaning.

**Booking.**  `Submit` reads the link before the transaction, `TxRead` is the snapshot
in which `Available` is computed, `TxCommit` the commit.  Serializable isolation is
modelled by its effect here: a transaction whose snapshot another commit has passed
(`raced`) does not commit.  `Slots` cuts each availability window of the day (`Cut`),
and windows may overlap.  `UpdateLink` stands for any change of duration, weekly hours
or time zone, the last two as other windows.  `Held` maps the live rows onto
`Appointments`.

**WebmailSession.**  Every Redis command is an action: `LoginSet`, `LoginAdd`,
`LoginExpire`; `ResolveGet`, `ResolveTtl`, `ResolveSet`; `LogoutGet`,
`LogoutSrem`, `LogoutDel`; `Revoke`, `RevokeDel`, `RevokeSrem`; `Others`,
`OthersDel`, `OthersSrem`; `List`, `ListGet`, `ListSrem`.  `authenticate` is the
only look at the session: from `authed` on a request revokes, lists or does
something else (`OtherRoute`), whether or not its own session was ended since.
Logging out asks for no authentication.  Times to live are kept
as far as they decide whether the index can vanish before a session does
(`timed`, `loose`).

**WebmailLogin.**  A login begins here once the password was right.  `AnswerGet`
is the GET of the challenge, `AnswerRight`, `CodeRead`, `CodeWrite`
the check by a passkey, an email code, the authenticator or a recovery code,
`AnswerWrong` and `WrongCounted` the counter, `AnswerDel` and `SessionIssued` the
end; `ResendGet` and `ResendSet` ask for an email code and write the challenge
back.  `SetupTotp`, `EnableCheck`, `EnableSet`, `DisableTotp` change the factor
meanwhile.

**SecurityPage.**  `SignIn`, `PassFactor`, `SignOut`, `NewTab` are the login page;
the cards of the Security page press buttons, whose requests are `wires`, answered
in any order; an answer to a page that was left goes back to the profile of then.
The recovery address and the email factor are one row of preferences: `ReadRow`
reads it, `ServeContact` and `ServeEmail` write it back whole (`SetRow`), and a
code is taken (`TakeCode`) before that.  `OtherReads` and `OtherWrites` are whoever
else writes the row for a key of their own, `PUT /settings` of any browser and the
security log included, with a copy as old as they like, or none.  `Show` has the
reminder's count of visits.  What the instance moves is in `securityParts`.

**Campaign.**  `SendRead` reads the pending recipients, `SendStart` marks the
campaign, `Deliver`/`Refuse` is one letter, `Mark`/`MarkFailed` the update of its
recipient, `Finish` the update of the campaign.  A missing row or a database that
fails makes an update throw (`Refused`): the one after a letter into the loop's
`catch`, every other one out of the handler (`Throw`).

**MailImport.**  `ReadExisting` fetches the Message-IDs of the destination (or
fails, which the code swallows: the run then is `blind`), `CopyMessage` appends
one message or skips it, `NextBox` and `ImportEnd` go on.  `met` holds runs that
were busy beside one another.

**Composer.**  One composer with the letters that come and go in it.  `PressSend`
starts the countdown, `CountdownEnds`, `SendNow` and `Undo` end it, `DoSend` reads
the fields of *that* moment; `ServeSend`, `ServeDraft`, `ServeAi` are the server's
work and `SendAnswered`, `DraftAnswered`, `AiAnswered`, `FilesRead` what the page
does with an answer, whatever letter it shows by then.  A text is the set of
letters whose words it holds.

**MailFolders.**  A message is the folder it is in and its UID there; `view`,
`ticks` and `bulk` are the page.  `BulkPress`, `BulkStep`, `BulkEnd` are one bulk
action, one request per UID; `MoveMessage` and `TrashMessage` are the server's
two operations, by the folder they are called with.  `FileMessage` is a rule,
`AutoClean` the cleaning, `Arrive` new mail; `NewFolder`, `RenameFolder` and
`RemoveFolder` change which folder a name means: the last two ask (`AskChange`), are
served (`ServeRename`, `ServeRemove`) and answered (`ChangeAnswered`) in steps of
their own, and the answer leaves the folder that was shown as they asked.  One bulk
action and one such change run at a time.

**Reading.**  A stay is a message in a folder; the page keeps `lists` for 30 s and
`bodies`, and has `fetch` and `asks` under way.  `ReadList`/`ListArrives`/
`ListFails` are a fetch of a list, `OpenMessage`, `Press`, `ServeOpen`,
`ServeMarks`, `ServeMove` and their answers the rest; `Elsewhere` is another
device.  `Reconnect` is React Query's refetch when the connection comes back, which
`queryClient.ts` leaves on: list and open message are fetched unless they are fresh
(`FetchUnlessFresh`), and the server marks the message seen.  A kept list carries
the stays that changed since the server read it.

**Organizer.**  `settings` is the saved value, `cache` what each device loaded and
`dialog` what it has open.  `SaveEvent`, `DeleteCalendar`, `SaveCard`, `MoveCard`,
`DeleteColumn`, `TaskSaved`... press a button; `Write` and `Refuse` are the save.
Identifiers the page makes up are fresh.  `DEFAULT_BOARD`, whose ids are made up
on every load, is a list per page until a board is saved.

## 4. What TLC checks

| run | configuration | distinct states | question |
| --- | --- | --- | --- |
| `scheduled_queue` | `MCScheduledSend.cfg` | 4.6 M | Do overlapping writers lose a scheduled message other than by an outdated write?  `NoSilentLoss` |
| `timers` | `MCTimers.cfg` | 233 k | How many passwords are compared before the counter vanishes, and does every lock end?  `GuessBound`, `LockEnds`.  Does the MX row fit, do verdicts settle?  `MxRowFits`, `VerdictsSettle`.  Do handlers of scheduled mail that do not overlap implement `Outbox`, through a restart and SMTP errors?  `OutboxSpec`, `EventuallyHandled` |
| `booking` | `MCWebmailPages.cfg` | 894 k | Can two visitors hold one slot?  `NoDoubleBooking`, `PageSpec`.  Does a bulk action take what was ticked, through arrivals, rules, and folders renamed and deleted under it?  `BulkHitsChosen` |
| `quota` | `MCAdminHosting.cfg` | 579 k | How far is the limit overshot?  `Overshoot`.  What becomes of the other hosts of a domain?  `UnrelatedKept`.  Who is under whom, how far is a cap passed, what does a suspension leave?  `TwoLevels`, `CapPassedByRacesOnly`, `DomainsFrozen`.  Does a page show what was changed on it?  `ShownIsCurrent` |
| `session_index` | `MCWebmailAccount.cfg` | 1.3 M | Is an ended session over?  `EndedIsGone`.  How often are a recovery code and a challenge good?  `RecoveryOnce`, `ChallengeOnce`.  Is an entry of the preferences as its last writer asked?  `ToldIsKept` |
| `letters` | `MCWebmailLetters.cfg` | 1.6 M | Who may get two letters of a campaign, is anybody passed over, does a send end?  `SentOnce`, `NobodySkipped`, `SendEnds`.  How often is a message imported?  `CopiedOnce`.  Does a letter go out once, whole, and is none lost?  `SentAsAsked`, `LetterWhole`, `NothingLost` |
| `account` | `MCAccountAccess.cfg` | 4.3 M | What does a reset close, how often does a recovery code pass, is the enabled secret the proved one?  `OldPasswordOut`, `CodeUses`, `EnabledIsVerified` |
| `kept` | `MCWebmailKept.cfg` | 1.6 M | Are saved events shown and items as last made?  `EventsShown`, `LastMade`.  Does a kept list follow, does unread stay through a lost connection?  `ListFollows`, `UnreadKept`.  Does the page show the factors there are, beside other writers of the row; was the address proved?  `ShownAsIs`, `EmailWasProved` |

Four further runs look for a counterexample; section 5 is about them.  The type
invariants are proved (section 6); the runs do not check them again.

### Bounds

- Two requests in flight everywhere (three logins): every race in this code is
  between the steps of two handlers.  The counting bounds (`GuessBound`,
  `Overshoot`, `CodeUses`, `CopiedOnce`) are stated in the number of requests, and
  proved for any number of them.
- One restart (two for the lockout, where the first one may orphan a counter and
  the second one adds lost logins), so that each history is cut once at every
  point.  In Campaign `MaxFaults` counts restarts and refused updates together: one
  puts a send to its end at any of its updates but that after a letter, where it
  takes two, and the second may be the deletion of the campaign.
- ScheduledSend: two messages with different due times and a clock that reaches
  the first (queue) or both (`timers`); `SentBound` stops `scheduled_queue` at the
  second copy of a message, since no property there depends on more than one.
  `BesideSpec` has either the browser's save or auto-clean beside the queue and
  the second factor, not both in one behaviour: each is a whole-value write, and
  two handlers show any pair of writers.
- DomainRecords: one change of kind and one validation beside the worker, no
  further record kinds (`Tracked`), one edit of the zone, one failure of the
  resolver: enough for a verdict to be overtaken and for a change to be cut short.
- Booking: a day of three units with one window, or two that overlap (`MCHours`),
  durations 1 and 2, three keys, a clock with one tick: slots that fit, slots that do
  not, slots of two windows that overlap, a slot that has passed and one that reopens
  after a cancellation.
- MailFolders: two messages, two custom folders, UIDs up to 2: a folder made
  again gives an old UID to another message.  `MaxGiven` bounds the UIDs given out
  in all folders together, and the last of them is kept for a bulk action, the only
  step a property speaks of.  Behaviours are not followed past the point where ticks
  were carried along: nothing is claimed of them from there on.
- MailboxQuota: three addresses, limits 1 and 2, files with an invalid row, a
  repeated address, a collision with the other request, more rows than room.
- RegistrarSync: two applies, an MX, an SPF and one unrelated record, three steps
  of the owner and of undo.
- Tenancy: three accounts (a reseller, its customer, and one to come), one domain,
  two requests that take several steps, a cap of 1, four requests in all: enough for
  two creations under a reseller that is promoted or deleted between their
  statements.
- AdminPages: one request, one page opened after the first, one loss, reconnection or
  outside change, beginning where there are tabs.  A fetch that is overtaken, one that
  fails and a request whose page was left all occur; what two requests at once add is
  proved.
- WebmailSession: two tokens: one that is ended and one that ends it.  States that
  differ only in `dropped` and `torn` are taken for one (`VIEW`): no step and no
  property of the run reads these two; `AlwaysListed`, which does, is proved.
- WebmailLogin: one challenge, two enrolments, one resend, two wrong answers.
- Preferences: two tabs, two requests, four entries, one under each way to write
  (by pages only, by pages and auto-clean, by plain writers, by list writers),
  three saves.
- Campaign: two recipients: one in doubt and one that must still be served.
- MailImport: two runs over two source folders that share a message, one message
  without a Message-ID.
- Composer: two letters, two requests, a countdown of one second.
- AccountAccess: at most two enrolments, and no reset link is asked for once the
  password has been changed; one session, one challenge and one link exist at a
  time, and new ones take their place, so histories of any number of logins are
  covered.
- Organizer: two devices, two calendars, one event, card and task, three saves.
- Reading: one message, two folders, two stays, two requests that the user makes, one
  change elsewhere or one connection that comes back (`MaxElse`).
- SecurityPage: four presses, two requests under way, a reminder at every visit.  A
  part moves one card, or one beside the recovery address, in one browser; the
  authenticator's card in two browsers; or, in "whole row", the recovery address and
  the email factor of a browser that stays on the page, with another writer of the
  row.  In the other parts nobody else writes it.
- Symmetry is used for requests, keys, custom folders, addresses, pages, tokens and
  tabs only in runs without liveness (in `booking` both sides of the refinement are
  symmetric).
- Deadlock is not checked where a finite clock, finitely many ids or finitely
  many tokens let the model stop; in AccountAccess, which never runs out, it is.

### Fairness

Handlers are never abandoned by the event loop while the process lives, so the
steps that continue a request are weakly fair: `Continue(r)` in ScheduledSend,
Campaign, `Fail(p) \/ Succeed(p)` and `Expire(p)` in
LoginLockout, `CheckStep(c)` in DomainRecords, where the sweep is fair too: a
repeating job starts it.  Time passes: `WF(Tick)`.  Requests need not arrive, with
one exception: `EventuallyHandled` needs somebody to open the mailbox, since
nothing else flushes the queue; `SF(FlushRead(r))` says that the inbox is opened
again and again while something is due.  That is an assumption about the user, not
about the code: a message scheduled by somebody who never comes back stays in the
row.  No other action of a user or an administrator is fair, and no restart.  In
a sum the fairness of one part asks nothing of the behaviours in which another
part moves: nothing of it is under way there.

- `LockEnds`: a locked account opens again unless its counter is `Orphaned`.
- `VerdictsSettle`: once the zone is left alone and nobody suspends the domain or
  changes its kind any more, every row comes to show the verdict of the zone.  The
  sweep alone brings that about: rechecks may come or not.
- `SendEnds`: a campaign leaves `sending` unless the server restarts or the database
  refuses an update that ends the send (`broken`), after which nothing in the code
  takes it out of that status except another send.
- `EventuallyHandled`: an accepted message is handed to SMTP or cancelled.

### What the properties exempt, and why

The properties are as strong as the code makes them, and name each exemption.  Most
exemptions *are* a hazard of `PROJECT.json` that nothing in the code prevents: the
property does not catch that hazard, it says that nothing else does the same damage,
and that the exemption is as narrow as stated.

- `~stale` (ScheduledSend), `excused` (Preferences): a write based on an outdated
  copy.  With two writers in flight it occurs, and then a message can be lost or
  come back, and an entry is as the outdated copy had it.  A save before the cache
  was loaded counts as one: it writes `{}` with one entry.
- `late` (AccountAccess): a login that compared the old password before a reset
  finished creates its session after it.
- `crossed`: a second enrolment replaces the secret between the check of a code
  and `enableTotp`, which enables whatever secret is there.
- `mixed`: overlapping enrolments leave codes of both; the next one alone repairs
  that.
- `revived`, `dropped`, `torn` and `Halfway` (WebmailSession): written back after
  its end; the index expired during the login; login or logout cut off by a
  restart; login or logout under way.
- `overlap`, `reopened`, `swapped` (WebmailLogin): the list of codes was read by
  one request while another was about to write it; two requests held one
  challenge; the secret was replaced while its first code was checked.
- `doubtful`, `broken` (Campaign): held by two sends at once, or its letter was out and
  not yet marked as the send died; a send that died, by a restart or an error.
- `met`, `blind` (MailImport): each run that overlapped, and each time the
  destination could not be read, adds at most one copy.
- `torn`, `gone` (Composer): the composer was minimised (its editor is unmounted,
  and the words with it) or closed before the letter left, or an answer for another
  letter came into it; the user discarded it, a draft was not stored, or the
  answer to another letter closed its composer.
- `carried` (MailFolders): ticks taken along to another folder (the buttons of
  custom folders do not clear them, nor does the answer to a deletion or a renaming),
  and a folder made anew, or renamed, under the name that they or a bulk action knew
  another one by.
- `torn`, `crossed` (DomainRecords): a change cut short, until the next whole one;
  two changes that overlapped, for good.
- `undone` (RegistrarSync): a record the owner changed between a list and the
  write that goes back to it, an undo's snapshot included.
- `adrift`, `free` (Organizer): events of the first calendar when it is deleted,
  and events whose dialog was open while their calendar was; items saved from an
  older value or by an editor whose item was moved or deleted.
- `late`, `but` (Reading): changes elsewhere, messages moved into the folder,
  failures, and changes a fetch under way had read past.  `told`: a message counts as
  marked unread until the page fetches it, by an opening or as the connection comes
  back; such a fetch marks it seen though nobody opened it.
- `unsure`, `moved` (SecurityPage): what another browser changed; what a writer of the
  whole row took back, be it the other card's request, a save of the settings or
  anything else that had read the row before; what was changed twice at once or while
  the profile was on its way; a lost answer; an answer to a page left before.  An
  address changed under the factor, under a code, or between a code that came back
  and the row that turns the factor on.
- The mailbox limit (`CapEnforced`) does not hold with two requests at once:
  `Overshoot` says by how much it can be passed, `OneAtATime` that a single
  request never passes it.
- The cap of a reseller is passed by requests that counted at once, and
  `CapPassedByRacesOnly` says by how many.  It is the highest cap the reseller has
  had: the code lets a cap be set below the customers there are.
- `loose` (Tenancy): nothing keeps an active domain from a suspended owner, nor such
  a domain from being turned on.
- `untold` (AdminPages): what a query shows was changed by something on another page,
  outside the panel, or by a request whose answer was lost or was an error; or an
  answer from before the change was all that was on its way when the page was told,
  and it was not begun again: nothing showed the query, or it was its first load,
  which React Query lets go on even on screen.  A query that failed is shown as it
  was, too.

## 5. What the code does against its word

Four runs end in a counterexample to what a comment or a message of the program
says.

| run | property | the code | what it says |
| --- | --- | --- | --- |
| `scheduled_cancel_race` | `CancelWins` | `flushDue` sends the list it read before the loop; `cancel` in between answers ok and the message goes out | the client confirms "Scheduled email canceled." |
| `lockout_forever` | `LockAlwaysEnds` | a process that dies between INCR and EXPIRE leaves a counter without a life, which no later login repairs | "5 failed attempts → 15-minute lockout" |
| `booking_resize` | `NoOverlap` | slots are excluded by equality of start times: after a change of duration or hours a new slot overlaps a standing booking | "excluding booked times" |
| `session_back` | `StaysOut` | a request that had read its session when it was revoked writes it back, for a full time to live and outside the index | "Sign out everywhere except the current session." |

The passing runs and the proofs bound the damage: `SerialCancelWins` proves that a
cancellation wins when requests do not overlap, `timers` has `LockEnds` for every
counter no restart orphaned, `booking` has the refinement of `Appointments` through
any change of the link, `session_index` has `EndedIsGone` for every session not
written back.

Writing the models met more of the kind.  The properties name them as exemptions
or the models contain them; no run is given to each:

- *Composer.*  Closing, discarding or minimising during the countdown still sends,
  and Undo is then not on the page, against the comment at `Compose.tsx:219`.
  Minimising loses the body.  Scheduling during the countdown sends twice.  A late
  answer (success, draft, text of the assistant, file) acts on whatever letter the
  composer holds by then.  A draft that could not be saved closes the composer all
  the same.  Bcc and the close prompt outlive the letter.
- *Campaigns.*  A letter whose mark the database refused is marked as failed, though
  it went out; when that is refused as well the send ends and its campaign stays
  "sending".
- *MailFolders.*  The answer to a deleted folder leads to the inbox with the ticks of
  the folder, or of the one shown meanwhile.  "Move to Trash is recoverable"
  (`Settings.tsx:352`) is not when an auto-clean rule for the Trash follows.  A rule
  whose folder was renamed or deleted fails silently and counts the message as moved.
- *Domains.*  Finished jobs are kept, so `dns-validate-<id>-0` is ignored after the
  first time and only the sweep rechecks, whatever the page announces.  A creation
  that fails halfway leaves a domain without rows, and trying again is refused as a
  duplicate.
- *Admin pages.*  The dialogs of usage and trace never fetch: their query is disabled
  and `refetchQueries` passes over it.  `NotificationBell` is on no page.  The
  dashboard is open to resellers, its API to the super admin only.  A domain that was
  deleted stays on the list it leads to, for up to 30 s.  "Re-checking now" after an
  apply at the registrar is followed by no check.  The cache outlives a sign-out.
- *Registrar.*  The snapshot is fetched anew before writing, the merge is not: what
  is written is the merge of the first list.
- *Reading.*  `nav === "scheduled"` never equals the key `"Scheduled"`, so the list
  of scheduled mail is not shown.  `getMessage` returns no `flagged`, so the star
  is only ever set.  A message marked unread is not marked read when it is opened
  again within 30 s, and is marked read by a connection that comes back while it is
  still shown.  The answer to a move closes whatever message is shown.
- *Organizer.*  Deleting the first calendar gives its events to itself, and they
  vanish.  An event whose calendar was deleted meanwhile is saved with "Event
  updated." and shown nowhere.
- *SecurityPage.*  The reminder's "once 2FA is on it never shows"
  (`TwoFactorNag.tsx:8`) is untrue after a sign-in in a fresh tab, whose profile
  comes without the factors: `NagsUnsecured` states it.  "Set up authenticator"
  pressed before the profile arrived turns an enabled factor off.  The recovery
  address may change without proof while the email factor is on.  A new address and
  the email factor asked for at once are both confirmed, and one of them is lost; a
  save of the settings from a page loaded before takes either back.

## 6. What is proved

TLAPS proves the following for every value of the constants that satisfies the
named assumptions: any number of requests (but for the two theorems under
`Serial`), messages, visitors, recipients, sessions, tabs, folders, limits,
windows, restarts, refused updates, writers of the row.

| module | about | theorems |
| --- | --- | --- |
| `ScheduledSendProofs` | ScheduledSend | `TypeCorrect`, `NothingLost`, `NothingReturns`, `SecondFactorKept`, `NothingEarly`, `SerialOutbox`, `SerialCancelWins` |
| `TimersProofs` | LoginLockout | `TypeCorrect`, `GuessesBounded`, `LifeComes` |
| | DomainRecords | `DomainInvariant`, `MxRowFollows` |
| `WebmailPagesProofs` | Booking | `TypeCorrect`, `NeverDouble`, `NeverOverlap`, `KeepsPromise` |
| | MailFolders | `FoldersInvariant`, `BulkTakesTicked`, `PurgedOnlyThere` |
| | Reading | `ReadingInvariant`, `ListsFollow`, `UnreadStays` |
| `AdminHostingProofs` | MailboxQuota | `TypeCorrect`, `BoundKept`, `OneAtATime` |
| | RegistrarSync | `RegistrarInvariant`, `UnrelatedStay` |
| | Tenancy | `TenancyInvariant`, `AccountsTwoLevels`, `CapPassedByRaces`, `SuspendedDomainsFrozen` |
| | AdminPages | `PagesInvariant`, `PagesShowCurrent` |
| `WebmailAccountProofs` | WebmailSession | `TypeCorrect`, `EndedStaysGone`, `AlwaysListed` |
| | WebmailLogin | `LoginInvariant`, `OneSessionPerChallenge`, `CodesOnce`, `AskedAfterProof` |
| | Preferences | `PrefInvariant`, `PrefTypeCorrect`, `ToldStays` |
| `WebmailLettersProofs` | Campaign | `TypeCorrect`, `AtMostOneLetter`, `EveryoneServed`, `DeletionStops` |
| | MailImport | `ImportInvariant`, `CopiedNoMore` |
| | Composer | `ComposerInvariant`, `AsManyAsAsked`, `LettersKeepTheirWords`, `WrittenIsSomewhere` |
| `AccountAccessProofs` | AccountAccess | `TypeCorrect`, `ResetCloses`, `CodesBounded`, `NeverUnverified`, `CodesBelong` |
| `WebmailKeptProofs` | Organizer | `OrganizerInvariant`, `EventsAreShown`, `LastMadeStays` |
| | SecurityPage | `SecurityInvariant`, `ProfileAsIs`, `AddressWasProved` |

Each theorem is about the component's own specification.  What a run checks of a
sum carries over, since a behaviour of a part in the sum is a behaviour of the
component.

Every `ASSUME` is evaluated by a run.  They give the constants their types,
finiteness where something is counted, and say that special values are no members
of the sets they are special beside: "none" is no recipient, challenge or link
(Campaign, AccountAccess); the fixed folders and the places outside the mailbox
are no custom folders (MailFolders); the super admin and "nobody" are no accounts and
"nobody" is no cap (Tenancy); "away" is no shelf, and the folder a page
opens with is one (Reading); the worker is no request and "nobody" no change
(DomainRecords); an event is no card and no task (Organizer).  Besides, every key
of the preferences is written by some writer, the auto-clean rules by pages and by
a request (Preferences), the primary calendar is a calendar (Organizer), and the
managed kinds are kinds a mail domain has, none of them an unrelated one
(RegistrarSync).

### The arguments

- **ScheduledSend** (`IInv`).  The three properties are not inductive: a flush
  that is about to drop messages must have handed them over (`FlushedWasSent`),
  and an entry that is being added was not accepted before, by nobody else
  (`ArgOfOp`).  With that, a write that is not outdated changes the list by
  exactly the handler's entry.  `NothingEarly` needs only that what a flush has to
  send was due when it read the list (`DueInv`).  `SerialOutbox` and
  `SerialCancelWins` assume `Serial`: one handler at a time and no tab that saves
  an old copy; then what a handler has read is what the row still holds
  (`SerialInv`), `FlushSend` maps to `Deliver` or `Refuse`, `WriteUpsert` to
  `Accept`, `Withdraw` or `Settle`, and the rest to a stutter.  Neither holds without
  `Serial`; the run `scheduled_cancel_race` shows it for the second.
- **LoginLockout** (`BInv`).  Nobody enters once the limit is reached, so the
  count plus the logins in flight stay under the limit plus one each (`Few`);
  every password admitted is counted, in flight, or was lost in a restart
  (`Counted`).  Adding the two gives `GuessBound`.
- **DomainRecords** (`DomainInv`).  While changes neither overlapped nor were cut
  short, one change at most is under way and it knows the MX row there is; when none
  is, the row is that of the kind (`RowsKnown`).
- **Booking** (`BInv`, `OnGrid`).  A transaction that can still commit has a
  snapshot nothing was added to, so its time is free (`StillFree`); keys are given
  out once (`KeysSpent`).  Commit then maps to `Make`, the owner's actions to
  `Drop`, everything else to a stutter: `KeepsPromise` is the refinement.
  `OnGrid` puts all bookings on the slots of the link until the owner changes it;
  the lemma `Apart` (two multiples of d that differ are d apart) makes those of one
  window disjoint, and windows that are apart do the same for the rest.
- **MailFolders** (`FoldersInv`).  Two messages in one folder have different UIDs,
  all below the next one (`Mailbox`).  A set of UIDs *names* messages in a folder
  when every message there with such a UID is one of them (`Names`); that holds of
  the ticks with what was meant by them and of the rest of a bulk action, and
  every operation keeps it, because a message enters a folder with a UID nobody
  ticked.
- **Reading** (`ReadingInv`).  Every kept list, and every list on its way, differs
  from the folder at most by what it carries as changed and by what a request under
  way is about (`CopiesFollow`); a stay that a list, a request or the page refers to
  is not later than the one the message is at, and in its folder (`HomesKnown`); no
  fetch that would mark a message seen is under way for one that counts as marked
  unread (`ToldUnread`): an opening and a reconnection that begin one end that.
- **MailboxQuota** (`IInv`).  A request that has counted holds claims, one for
  every mailbox it may still make.  `Covered`: mailboxes and claims together are
  at most the number of requests times the highest limit so far.  A count grants
  claims that fit under the limit it read; an insert turns a claim into a mailbox.
- **RegistrarSync** (`RegistrarInv`).  A list held by an apply, merge and snapshot
  alike, agrees with the registrar on every other record that did not change since
  (`StageSame`), and a merge keeps those.
- **Tenancy** (`TenancyInv`).  A request that has found its reseller holds an account
  that is a reseller still, or gone (`ParentsFound`): that keeps `TwoLevels` when it
  inserts.  It goes by a cap no higher than the highest that account has had
  (`CapsWithin`).  When it counts and finds room, the customers are fewer than the cap
  and those about to be inserted no more than the other requests; an insert only turns
  one of these into a customer.  `DomainsFrozen` is kept by the transaction of a
  suspension, and by `loose` for each way around it.
- **AdminPages** (`PagesInv`).  What is from before a change, on its way or in the
  cache, is `untold`, stale, or about to be told by the request that made it
  (`ComingTold`, `HeldTold`); what is stale and on screen is on its way or has failed
  (`StaleAsked`).  That a button tells every query beside it that it changes
  (`ButtonsTell`) is a fact of the table of pages, proved page by page; the mistake
  the run tries (`CustomerList_Silent`) breaks it.
- **WebmailSession** (`IInv`).  A session about to leave the index is dead or was
  written back (`Removing`), and every session a handler works on was issued
  (`AllIssued`); then `Listed` and `EndedIsGone` are kept by every command.
- **WebmailLogin** (`LoginInv`).  A challenge that is not `reopened` is held by one
  request at most, and by none once a session has come of it or is about to
  (`TakenOnce`); the one request that has read the list of codes holds it as it is,
  and a code that was used is on it no more (`ListHeld`); a secret about to be enabled
  was proved (`EnablingProved`).
- **Preferences** (`PrefInv`).  Every copy, of a tab or of a request, agrees with
  the column on the entries that did not change since it was read (`CopiesFresh`).
- **Campaign** (`IInv`).  One send at a time holds a recipient not in doubt
  (`Single`); a recipient who got a letter is before no send, and while still
  pending is about to be marked (`ServedOnce`); a handler that sent a letter after
  the deletion is on its way out (`Leaving`).  A send that dies by an error is one
  lemma (`ThrowStep`) for all its updates.
- **MailImport** (`ImportInv`).  Once a message is in the destination, its copies
  and the places where runs that did not find it there have it before them (`Ahead`)
  stay together within the times one source folder holds the message, times the runs
  abreast and the blind reads.  The runs that are busy at once all count as met.
- **Composer** (`ComposerInv`).  The words in the composer are those of its letter
  while nothing tore it, and a letter that has words has them in the editor or gave
  them up (`Whole`); a draft request that was served stored its letter or gave it up
  (`DraftsServed`).
- **AccountAccess** (`Base` and one invariant per property).  `Held` says what a
  request holds at each place, `Seen` and `Apart` order the enrolments.  For
  `CodesMatch`, an enrolment that runs alone is that of the row's secret and
  finds no code when it creates its own (`Lone`).  For `CodeUses`, the passes of a
  code plus the requests about to mark it never exceed the number of requests
  (`UseInv`): nobody becomes such a finder once the code was marked, and a code
  is never created twice.
- **Organizer** (`OrganizerInv`).  In the saved value, in every cache and in every
  value on its way an event is on one calendar, and if it is not adrift on one of
  *that* value (`AllPlaced`); a cache that is not old is what was saved last, and a
  save that is not old has every item it is not about as it is (`AllKnown`).
- **SecurityPage** (`SecurityInv`).  A field a browser is sure of is what the
  server has, or the one request under way that touches it will make the two agree
  (`Sure`); a browser asks for its profile once per sign-in (`MeAskedOnce`); unless
  the address moved, a code that is under way was sent to the address there is, and
  every copy of the row that would turn the factor on, a request's or another
  writer's, has an address that was proved (`AddressProved`).  What a write of the
  whole row turns is unsure everywhere but where it was asked for (`RowWritersKeep`).

### Only model-checked

Liveness (`LockEnds`, `VerdictsSettle`, `SendEnds`, `EventuallyHandled`) and
whatever speaks of ENABLED is out of this prover's reach and stays with TLC.  Every
invariant, action property and refinement of a passing run has a theorem; one of
them holds under a stated condition only (`OutboxSpec`, under `Serial`, which the
instance in `MCTimers` meets).  Proved beyond the runs: `NoResurrection`,
`PurgedFromTrash`, `CancelWins` under `Serial`, `OtpKept`, `NeverEarly`,
`LifeIsComing`, `GridKept`, `Listed`, `AskedIsProved`, `DeleteStops`, `CodesMatch`,
and `CapEnforced` for one request at a time.  `NagsUnsecured` is stated only: it
does not hold.

## 7. What is not modelled

`PROJECT.json` gives a status and a reason for every component.  In short:

- *Single statements behind a check.*  The services of aliases, forwarders, lists,
  notifications, settings, audit, notes, contacts (of the first and of the settings,
  AdminPages has the pages): the database's unique keys and the atomicity
  of one statement decide, and nothing is left for a model to say.
- *State outside the repository.*  Mail in Dovecot, the queue in Postfix, Rspamd,
  the registrar's API, the language model.  What is modelled of them is how an
  answer of theirs is used (SMTP takes or refuses a letter, IMAP gives out UIDs,
  the resolver answers or fails).
- *Same shape as a module that exists.*  The app-password limit (as MailboxQuota),
  the webmail's login counter (as LoginLockout).
- *Data.*  Time zones and calendar days, letter texts, password hashing, TOTP
  arithmetic, CSV syntax: the properties above do not tell their values apart.
- *Rendering.*  Of the frontend, what changes state: pages, dialogs, caches,
  requests and their answers; layout and wording are left out.

Within modelled components: editing a campaign during a send, mail tracking
outside campaigns, suspension and deletion of an admin account, mailbox operations
that do not touch the limit, DKIM rotation with its selector map, counts and
searches of a folder, and the limits per address of the login are left out.

## 8. Plan

Done, in this order: scheduled send and the preferences row; login lockout;
bookings; mailbox limit; webmail sessions; campaigns; account access; the composer;
the folder page; the import; the webmail login; the preferences; domains and the
registrar; the calendar, planner and tasks; reading; the Security page; customers
and resellers; the pages of the admin panel.

Next, by importance:

1. **The session of the admin panel**: one refresh of the access token shared by the
   calls in flight, sign-out beside it, several tabs with one cookie.
2. **Nodes and DKIM**: placement of domains and removal of a node, rotation of a key
   and the selector map.
3. Extensions of existing modules: `updateCampaign` during a send; suspension in
   AccountAccess.

Abstract specifications worth adding: a session store as a set of live sessions
(refined by `WebmailSession` while no write-back is late), and a recovery-code set
with one use each (refined by `AccountAccess` with one request).
