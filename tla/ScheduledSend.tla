--------------------------- MODULE ScheduledSend ----------------------------
(***************************************************************************)
(* The send-later queue of one mailbox and the row it lives in.            *)
(*                                                                         *)
(* WebmailSettings.prefs is one JSON value.  The queue (prefs.scheduled),  *)
(* the email second factor (prefs.emailOtpEnabled) and the auto-clean      *)
(* time stamp (prefs.autoClean.lastRunAt) are three of its keys; handlers  *)
(* read the value, await something, and write the whole value back.  Node  *)
(* runs one handler at a time between awaits, so a step below is the code  *)
(* between two awaits of a handler and the handlers in flight interleave.  *)
(*                                                                         *)
(* Abstractions: a message is a model value with its due time; the order   *)
(* in which one flush sends its messages is left open; the keys of prefs   *)
(* no property reads are dropped.                                          *)
(***************************************************************************)
EXTENDS Naturals

CONSTANTS Mail,        \* messages a user may ask to send later
          Req,         \* handlers that may be in flight at once
          DueAt,       \* the requested time of each message
          Throttle,    \* THROTTLE_MS of the auto-clean
          MaxTime,     \* bound of the clock
          Ops,         \* the requests this instance receives
          SmtpFails,   \* may SMTP refuse a message?
          MaxCrashes   \* how often the server may restart

ASSUME DueAtAssumption == DueAt \in [Mail -> Nat]
ASSUME BoundAssumption ==
  /\ Throttle \in Nat /\ MaxTime \in Nat /\ MaxCrashes \in Nat
  /\ SmtpFails \in BOOLEAN

VARIABLES prefs,       \* the row's JSON value
          req,         \* the handlers: program counter and local variables
          browser,     \* the copy of prefs a browser tab last loaded
          now,         \* Date.now()
          crashes,     \* restarts so far
          accepted,    \* messages whose POST was answered "scheduled"
          cancelled,   \* messages whose DELETE was answered "ok"
          sent,        \* copies of each message SMTP took
          refused,     \* messages SMTP refused at least once
          otp,         \* the value of the last acknowledged 2FA switch
          created,     \* ids already given to a message
          stale        \* history: some write was based on an outdated read

vars == <<prefs, req, browser, now, crashes, accepted, cancelled, sent,
          refused, otp, created, stale>>

Prefs == [scheduled : SUBSET Mail, emailOtp : BOOLEAN, lastRun : Nat]

PC == {"idle", "schedule", "cancel", "flush", "write", "mfa", "clean"}

Local == [pc    : PC,           \* where the handler waits
          op    : {"none", "schedule", "cancel", "flush"},
          seen  : SUBSET Mail,  \* the list read() returned
          arg   : SUBSET Mail,  \* the entry added, removed, or the due ones
          todo  : SUBSET Mail,  \* due entries the loop has still to send
          on    : BOOLEAN,      \* setEmailOtpEnabled's argument
          base  : Prefs]        \* prefs as read just before the write

Blank == [scheduled |-> {}, emailOtp |-> FALSE, lastRun |-> 0]

Idle == [pc |-> "idle", op |-> "none", seen |-> {}, arg |-> {}, todo |-> {},
         on |-> FALSE, base |-> Blank]

\* A mailbox that was never cleaned has no lastRunAt: the throttle passes.
Init ==
  /\ prefs = Blank
  /\ req = [r \in Req |-> Idle]
  /\ browser = Blank
  /\ now = Throttle
  /\ crashes = 0
  /\ accepted = {}
  /\ cancelled = {}
  /\ sent = [m \in Mail |-> 0]
  /\ refused = {}
  /\ otp = FALSE
  /\ created = {}
  /\ stale = FALSE

history == <<accepted, cancelled, sent, refused, otp, stale>>

-----------------------------------------------------------------------------
(* The queue: read(), schedule(), cancel(), flushDue(), write().           *)

Begin(r, o) == req[r].pc = "idle" /\ o \in Ops

\* POST /messages with a time at least five seconds ahead: schedule() reads
\* the list and makes the entry.
ScheduleRead(r, m) ==
  /\ Begin(r, "schedule")
  /\ m \notin created
  /\ DueAt[m] > now
  /\ created' = created \union {m}
  /\ req' = [req EXCEPT ![r] = [Idle EXCEPT !.pc = "schedule", !.op = "schedule",
                                  !.seen = prefs.scheduled, !.arg = {m}]]
  /\ UNCHANGED <<prefs, browser, now, crashes, history>>

\* DELETE /scheduled/:id: cancel() reads the list.  The id was shown to the
\* user, so the message exists; it may have left the queue since.
CancelRead(r, m) ==
  /\ Begin(r, "cancel")
  /\ m \in accepted
  /\ req' = [req EXCEPT ![r] = [Idle EXCEPT !.pc = "cancel", !.op = "cancel",
                                  !.seen = prefs.scheduled, !.arg = {m}]]
  /\ UNCHANGED <<prefs, browser, now, crashes, created, history>>

\* Mistake: only a message due this very moment counts.
Due_Exactly(list) == {m \in list : DueAt[m] = now}

Due(list) == {m \in list : DueAt[m] <= now}

\* GET /folders and GET /scheduled: flushDue() returns at once unless
\* something is due, and takes the time only once.
FlushRead(r) ==
  /\ Begin(r, "flush")
  /\ Due(prefs.scheduled) # {}
  /\ req' = [req EXCEPT ![r] = [Idle EXCEPT !.pc = "flush", !.op = "flush",
                                  !.seen = prefs.scheduled,
                                  !.arg = Due(prefs.scheduled),
                                  !.todo = Due(prefs.scheduled)]]
  /\ UNCHANGED <<prefs, browser, now, crashes, created, history>>

\* One turn of the loop: the message is handed to SMTP; an error is swallowed.
FlushSend(r, m) ==
  /\ req[r].pc = "flush"
  /\ m \in req[r].todo
  /\ \/ /\ sent' = [sent EXCEPT ![m] = @ + 1]
        /\ UNCHANGED refused
     \/ /\ SmtpFails
        /\ refused' = refused \union {m}
        /\ UNCHANGED sent
  /\ req' = [req EXCEPT ![r].todo = @ \ {m}]
  /\ UNCHANGED <<prefs, browser, now, crashes, created, accepted, cancelled, otp, stale>>

\* write() reads the row again, for the keys it must not touch.
WriteRead(r) ==
  /\ req[r].pc \in {"schedule", "cancel", "flush"}
  /\ req[r].todo = {}
  /\ req' = [req EXCEPT ![r] = [@ EXCEPT !.pc = "write", !.base = prefs]]
  /\ UNCHANGED <<prefs, browser, now, crashes, created, history>>

\* Mistake: the flush writes an empty list instead of the entries not yet due.
NewList_Empty(l) == IF l.op = "schedule" THEN l.seen \union l.arg ELSE {}

\* Mistake: the filter of cancel() keeps the entry it should drop.
NewList_KeepCancelled(l) == IF l.op = "flush" THEN l.seen \ l.arg ELSE l.seen \union l.arg

NewList(l) == IF l.op = "schedule" THEN l.seen \union l.arg ELSE l.seen \ l.arg

\* The upsert replaces the whole value.  The list comes from the first read,
\* the other keys from the second; the handler then answers the request.
WriteUpsert(r) ==
  LET l == req[r] IN
  /\ l.pc = "write"
  /\ prefs' = [l.base EXCEPT !.scheduled = NewList(l)]
  /\ accepted' = IF l.op = "schedule" THEN accepted \union l.arg ELSE accepted
  /\ cancelled' = IF l.op = "cancel" THEN cancelled \union l.arg ELSE cancelled
  /\ stale' = (stale \/ l.seen # prefs.scheduled
                     \/ l.base.emailOtp # prefs.emailOtp
                     \/ l.base.lastRun # prefs.lastRun)
  /\ req' = [req EXCEPT ![r] = Idle]
  /\ UNCHANGED <<browser, now, crashes, created, sent, refused, otp>>

-----------------------------------------------------------------------------
(* Other writers of the same row.                                          *)

\* setEmailOtpEnabled(): writePrefs() reads the value ...
MfaRead(r, on) ==
  /\ Begin(r, "mfa")
  /\ req' = [req EXCEPT ![r] = [Idle EXCEPT !.pc = "mfa", !.on = on, !.base = prefs]]
  /\ UNCHANGED <<prefs, browser, now, crashes, created, history>>

\* Mistake: the spread is the wrong way round and the old value wins.
MfaUpsert_OldWins(r) ==
  /\ req[r].pc = "mfa"
  /\ prefs' = req[r].base
  /\ otp' = req[r].on
  /\ stale' = (stale \/ req[r].base # prefs)
  /\ req' = [req EXCEPT ![r] = Idle]
  /\ UNCHANGED <<browser, now, crashes, created, accepted, cancelled, sent, refused>>

\* ... and writes it back with one key patched.
MfaUpsert(r) ==
  /\ req[r].pc = "mfa"
  /\ prefs' = [req[r].base EXCEPT !.emailOtp = req[r].on]
  /\ otp' = req[r].on
  /\ stale' = (stale \/ req[r].base # prefs)
  /\ req' = [req EXCEPT ![r] = Idle]
  /\ UNCHANGED <<browser, now, crashes, created, accepted, cancelled, sent, refused>>

\* maybeAutoClean(): started by GET /folders without waiting for it.  It
\* reads the value, passes the throttle, and works over IMAP for a while.
CleanRead(r) ==
  /\ Begin(r, "clean")
  /\ now - prefs.lastRun >= Throttle
  /\ req' = [req EXCEPT ![r] = [Idle EXCEPT !.pc = "clean", !.base = prefs]]
  /\ UNCHANGED <<prefs, browser, now, crashes, created, history>>

\* The value read before the IMAP work is written back, with the new stamp.
CleanUpdate(r) ==
  /\ req[r].pc = "clean"
  /\ prefs' = [req[r].base EXCEPT !.lastRun = now]
  /\ stale' = (stale \/ req[r].base # prefs)
  /\ req' = [req EXCEPT ![r] = Idle]
  /\ UNCHANGED <<browser, now, crashes, created, accepted, cancelled, sent, refused, otp>>

\* GET /settings: a tab keeps the value it was given.
BrowserLoad ==
  /\ "put" \in Ops
  /\ browser' = prefs
  /\ UNCHANGED <<prefs, req, now, crashes, created, history>>

\* PUT /settings: the tab sends back its whole copy with one of the keys that
\* only it uses changed (tasks, meetings, vacation text); saveSettings()
\* stores it as it is.
BrowserPut ==
  /\ "put" \in Ops
  /\ prefs' = browser
  /\ stale' = (stale \/ browser # prefs)
  /\ UNCHANGED <<req, browser, now, crashes, created, accepted, cancelled, sent, refused, otp>>

-----------------------------------------------------------------------------
Tick ==
  /\ now < MaxTime
  /\ now' = now + 1
  /\ UNCHANGED <<prefs, req, browser, crashes, created, history>>

\* The process dies: what was in flight is gone, the row stays.
Crash ==
  /\ crashes < MaxCrashes
  /\ \E r \in Req : req[r].pc # "idle"
  /\ crashes' = crashes + 1
  /\ req' = [r \in Req |-> Idle]
  /\ UNCHANGED <<prefs, browser, now, created, history>>

\* A request arrives and its handler runs to its first await ...
Start(r) ==
  \/ \E m \in Mail : ScheduleRead(r, m) \/ CancelRead(r, m)
  \/ FlushRead(r)
  \/ \E on \in BOOLEAN : MfaRead(r, on)
  \/ CleanRead(r)

\* ... and a handler in flight runs on when its await returns.
Continue(r) ==
  \/ \E m \in Mail : FlushSend(r, m)
  \/ WriteRead(r)
  \/ WriteUpsert(r)
  \/ MfaUpsert(r)
  \/ CleanUpdate(r)

Next ==
  \/ \E r \in Req : Start(r) \/ Continue(r)
  \/ BrowserLoad
  \/ BrowserPut
  \/ Tick
  \/ Crash

Spec == Init /\ [][Next]_vars

\* A handler that was started goes on: the event loop resumes it when its
\* database or SMTP call returns.  The clock moves.  The mailbox is opened
\* again and again; FlushRead is strong because other requests may be there
\* first.
Fairness ==
  /\ WF_vars(Tick)
  /\ \A r \in Req : WF_vars(Continue(r)) /\ SF_vars(FlushRead(r))

FairSpec == Spec /\ Fairness

-----------------------------------------------------------------------------
(* Properties.                                                             *)

TypeOK ==
  /\ prefs \in Prefs
  /\ req \in [Req -> Local]
  /\ browser \in Prefs
  /\ now \in Nat
  /\ crashes \in Nat
  /\ accepted \subseteq Mail
  /\ cancelled \subseteq Mail
  /\ sent \in [Mail -> Nat]
  /\ refused \subseteq Mail
  /\ otp \in BOOLEAN
  /\ created \subseteq Mail
  /\ stale \in BOOLEAN

\* A message answered "scheduled" is never lost: unless some handler wrote
\* back an outdated copy of the row, it is in the queue, or was handed to
\* SMTP, or was cancelled.  Holds through crashes and overlapping handlers:
\* the unprotected read-modify-write is the only way to lose a message.
NoSilentLoss ==
  ~stale => \A m \in accepted \ cancelled :
               m \in prefs.scheduled \/ sent[m] > 0 \/ m \in refused

\* A message whose cancellation was acknowledged is not back in the queue,
\* unless some handler wrote back an outdated copy of the row.
NoResurrection == ~stale => cancelled \intersect prefs.scheduled = {}

\* The email second factor is as the user last set it, unless some handler
\* wrote back an outdated copy of the row.
OtpKept == ~stale => prefs.emailOtp = otp

\* No message leaves before its time, whatever copies of the list are written
\* back by whom.
NeverEarly == \A m \in Mail : sent[m] > 0 \/ m \in refused => DueAt[m] <= now

\* Once its cancellation is acknowledged, no copy of a message is sent.  The
\* web client tells the user "Scheduled email canceled." at that point.
CancelWins == [][\A m \in cancelled : sent'[m] = sent[m]]_vars

\* An accepted message is handed to SMTP or cancelled in the end.
EventuallyHandled ==
  \A m \in Mail :
    m \in accepted ~> (m \in cancelled \/ sent[m] > 0 \/ m \in refused)

\* Without overlap the row implements the abstract queue.
Queue == INSTANCE Outbox WITH queue <- prefs.scheduled, ever <- accepted,
                              copies <- sent
OutboxSpec == Queue!OSpec

=============================================================================
