------------------------------ MODULE Campaign ------------------------------
(***************************************************************************)
(* One email campaign of the webmail: campaign.service.ts.                 *)
(*                                                                         *)
(* sendCampaign() reads the campaign with its recipients, marks it as      *)
(* "sending", hands one letter after the other to SMTP, marks each         *)
(* recipient after its letter, and marks the campaign as "sent".  It runs  *)
(* for minutes inside its HTTP request, and meanwhile the owner imports    *)
(* recipients, deletes or sends the campaign again, recipients open their  *)
(* letters, and the server may restart.  Every update of a send may throw: *)
(* the row is gone, or the database does not answer.                       *)
(*                                                                         *)
(* An action is the code between two awaits.  The order in which a send    *)
(* takes its recipients is left open: the query names none.  Name, subject *)
(* and body are left out: a send works with the copy it read first.        *)
(***************************************************************************)
EXTENDS Naturals

CONSTANTS Rcpt,        \* recipients that may be imported
          Req,         \* handlers in flight
          MaxFaults    \* how often the server restarts or the database refuses

ASSUME CampaignAssumption == MaxFaults \in Nat /\ "none" \notin Rcpt

VARIABLES campaign,    \* the Campaign row
          rcpt,        \* the CampaignRecipient rows
          req,         \* local variables of the handlers
          faults,      \* restarts and refused updates so far
          copies,      \* letters each recipient got
          doubtful,    \* history: recipients two sends held at once, or whose
                       \* letter was out but not yet noted as their send died
          fresh,       \* history: recipients no send has taken up yet, or
                       \* whose send died
          extra,       \* history: letters a handler sent after the deletion
          broken       \* history: a send that had begun died

vars == <<campaign, rcpt, req, faults, copies, doubtful, fresh, extra, broken>>

Status == {"absent", "pending", "sent", "failed", "opened"}

Row == [exists : BOOLEAN, status : {"draft", "sending", "sent"}]

RcptRow == [status : Status, sentAt : BOOLEAN, openedAt : BOOLEAN]

Absent == [status |-> "absent", sentAt |-> FALSE, openedAt |-> FALSE]

PC == {"idle", "start", "loop", "mark", "markFailed"}

Local == [pc   : PC,
          todo : SUBSET Rcpt,               \* pending recipients not yet done
          cur  : Rcpt \union {"none"}]      \* the one whose letter went out

Idle == [pc |-> "idle", todo |-> {}, cur |-> "none"]

Init ==
  /\ campaign \in [exists : {TRUE}, status : {"draft"}]
  /\ rcpt = [x \in Rcpt |-> Absent]
  /\ req = [h \in Req |-> Idle]
  /\ faults = 0
  /\ copies = [x \in Rcpt |-> 0]
  /\ doubtful = {}
  /\ fresh = {}
  /\ extra = [h \in Req |-> 0]
  /\ broken = FALSE

Pending == {x \in Rcpt : rcpt[x].status = "pending"}

\* The recipients a send still has to mark, and the one of them whose letter
\* is out.
Holds(h) == req[h].todo \union ({req[h].cur} \ {"none"})
Unnoted(h) == {x \in Rcpt : req[h].cur = x /\ copies[x] > 0}

Enter(h, pc, todo, cur) ==
  req' = [req EXCEPT ![h] = [pc |-> pc, todo |-> todo, cur |-> cur]]

SetRow(x, status, sentAt, openedAt) ==
  rcpt' = [rcpt EXCEPT ![x] = [status |-> status, sentAt |-> sentAt, openedAt |-> openedAt]]

Answer(h) == req' = [req EXCEPT ![h] = Idle]

history == <<faults, copies, doubtful, fresh, extra, broken>>

\* An update throws when its row is gone, or the database fails.
Refused ==
  /\ campaign.exists => faults < MaxFaults
  /\ faults' = IF campaign.exists THEN faults + 1 ELSE faults

\* The request ends with an error, and the send with it.
Throw(h) ==
  /\ Refused
  /\ Answer(h)
  /\ doubtful' = doubtful \union Unnoted(h)
  /\ fresh' = fresh \union Holds(h)
  /\ broken' = (broken \/ req[h].pc # "start")
  /\ UNCHANGED <<campaign, rcpt, copies, extra>>

-----------------------------------------------------------------------------
(* The owner.                                                              *)

\* importRecipients(): the rows of a CSV file, whatever the campaign's status.
\* A recipient stands for one row: an address imported twice is two of them.
Import(S) ==
  /\ campaign.exists
  /\ S # {} /\ \A x \in S : rcpt[x].status = "absent"
  /\ rcpt' = [x \in Rcpt |-> IF x \in S THEN [Absent EXCEPT !.status = "pending"] ELSE rcpt[x]]
  /\ fresh' = fresh \union S
  /\ UNCHANGED <<campaign, req, faults, copies, doubtful, extra, broken>>

\* deleteCampaign() deletes the recipients, too (onDelete: Cascade).
Delete ==
  /\ campaign.exists
  /\ campaign' = [campaign EXCEPT !.exists = FALSE]
  /\ rcpt' = [x \in Rcpt |-> Absent]
  /\ UNCHANGED <<req, history>>

-----------------------------------------------------------------------------
(* sendCampaign().                                                         *)

\* Mistake: the recipients are not filtered by their status.
SendRead_All(h) ==
  LET S == {x \in Rcpt : rcpt[x].status # "absent"} IN
  /\ req[h].pc = "idle"
  /\ campaign.exists /\ S # {}
  /\ Enter(h, "start", S, "none")
  /\ fresh' = fresh \ S
  /\ doubtful' = doubtful \union {x \in S : \E g \in Req : x \in Holds(g)}
  /\ UNCHANGED <<campaign, rcpt, faults, copies, extra, broken>>

\* The recipients who are pending now; without any, NO_RECIPIENTS.
SendRead(h) ==
  /\ req[h].pc = "idle"
  /\ campaign.exists /\ Pending # {}
  /\ Enter(h, "start", Pending, "none")
  /\ fresh' = fresh \ Pending
  /\ doubtful' = doubtful \union {x \in Pending : \E g \in Req : x \in Holds(g)}
  /\ UNCHANGED <<campaign, rcpt, faults, copies, extra, broken>>

SendStart(h) ==
  /\ req[h].pc = "start"
  /\ \/ /\ campaign.exists
        /\ campaign' = [campaign EXCEPT !.status = "sending"]
        /\ Enter(h, "loop", req[h].todo, "none")
        /\ UNCHANGED <<rcpt, history>>
     \/ Throw(h)

\* SMTP takes the letter.
Deliver(h, x) ==
  /\ req[h].pc = "loop" /\ x \in req[h].todo
  /\ copies' = [copies EXCEPT ![x] = @ + 1]
  /\ extra' = IF campaign.exists THEN extra ELSE [extra EXCEPT ![h] = @ + 1]
  /\ Enter(h, "mark", req[h].todo \ {x}, x)
  /\ UNCHANGED <<campaign, rcpt, faults, doubtful, fresh, broken>>

\* SMTP refuses it.
Refuse(h, x) ==
  /\ req[h].pc = "loop" /\ x \in req[h].todo
  /\ Enter(h, "markFailed", req[h].todo \ {x}, x)
  /\ UNCHANGED <<campaign, rcpt, history>>

\* The recipient is marked as sent, whatever the row says by now; when the
\* update throws, it is into the same catch as a refusal.
Mark(h) ==
  /\ req[h].pc = "mark"
  /\ \/ /\ campaign.exists
        /\ SetRow(req[h].cur, "sent", TRUE, rcpt[req[h].cur].openedAt)
        /\ Enter(h, "loop", req[h].todo, "none")
        /\ UNCHANGED faults
     \/ /\ Refused
        /\ Enter(h, "markFailed", req[h].todo, req[h].cur)
        /\ UNCHANGED rcpt
  /\ UNCHANGED <<campaign, copies, doubtful, fresh, extra, broken>>

\* Mistake: the first refusal ends the send.
MarkFailed_Stops(h) ==
  /\ req[h].pc = "markFailed"
  /\ IF campaign.exists
     THEN SetRow(req[h].cur, "failed", rcpt[req[h].cur].sentAt, rcpt[req[h].cur].openedAt)
     ELSE UNCHANGED rcpt
  /\ Answer(h)
  /\ UNCHANGED <<campaign, history>>

\* Outside of the try: when this update throws as well, it ends the send.
MarkFailed(h) ==
  /\ req[h].pc = "markFailed"
  /\ \/ /\ campaign.exists
        /\ SetRow(req[h].cur, "failed", rcpt[req[h].cur].sentAt, rcpt[req[h].cur].openedAt)
        /\ Enter(h, "loop", req[h].todo, "none")
        /\ UNCHANGED <<campaign, history>>
     \/ Throw(h)

\* Mistake: the campaign's own status is forgotten.
Finish_Forget(h) ==
  /\ req[h].pc = "loop" /\ req[h].todo = {}
  /\ Answer(h)
  /\ UNCHANGED <<campaign, rcpt, history>>

Finish(h) ==
  /\ req[h].pc = "loop" /\ req[h].todo = {}
  /\ \/ /\ campaign.exists
        /\ campaign' = [campaign EXCEPT !.status = "sent"]
        /\ Answer(h)
        /\ UNCHANGED <<rcpt, history>>
     \/ Throw(h)

-----------------------------------------------------------------------------
(* Recipients and restarts.                                                *)

\* markOpened(): the picture in the letter is fetched for the first time.
Open(x) ==
  /\ copies[x] > 0
  /\ rcpt[x].status # "absent" /\ ~rcpt[x].openedAt
  /\ SetRow(x, "opened", rcpt[x].sentAt, TRUE)
  /\ UNCHANGED <<campaign, req, history>>

Crash ==
  /\ faults < MaxFaults
  /\ \E h \in Req : req[h].pc # "idle"
  /\ broken' = (broken \/ \E h \in Req : req[h].pc \notin {"idle", "start"})
  /\ faults' = faults + 1
  /\ doubtful' = doubtful \union UNION {Unnoted(h) : h \in Req}
  /\ fresh' = fresh \union UNION {Holds(h) : h \in Req}
  /\ req' = [h \in Req |-> Idle]
  /\ UNCHANGED <<campaign, rcpt, copies, extra>>

Continue(h) ==
  \/ SendStart(h) \/ Mark(h) \/ MarkFailed(h) \/ Finish(h)
  \/ \E x \in Rcpt : Deliver(h, x) \/ Refuse(h, x)

Next ==
  \/ \E S \in SUBSET Rcpt : Import(S)
  \/ \E h \in Req :
       \/ SendRead(h)
       \/ Continue(h)
  \/ Delete
  \/ \E x \in Rcpt : Open(x)
  \/ Crash

Spec == Init /\ [][Next]_vars

\* The event loop goes on with every handler once its await has returned.
FairSpec == Spec /\ \A h \in Req : WF_vars(Continue(h))

-----------------------------------------------------------------------------
(* Properties.                                                             *)

TypeOK ==
  /\ campaign \in Row
  /\ rcpt \in [Rcpt -> RcptRow]
  /\ \A x \in Rcpt : ~campaign.exists \/ rcpt[x].status = "absent" => rcpt[x] = Absent
  /\ req \in [Req -> Local]
  /\ faults \in Nat
  /\ copies \in [Rcpt -> Nat]
  /\ doubtful \subseteq Rcpt /\ fresh \subseteq Rcpt
  /\ extra \in [Req -> Nat]
  /\ broken \in BOOLEAN

\* A recipient gets at most one letter, however often the campaign is sent,
\* whoever is imported meanwhile and whichever update fails, unless two sends
\* held the recipient at the same time, or the send died, by a restart or an
\* error, between the letter and its note.
SentOnce == \A x \in Rcpt \ doubtful : copies[x] <= 1

\* Nobody is passed over: a recipient who is still pending was imported after
\* the last send began, or is held by a send in flight, or its send died.
NobodySkipped == Pending \subseteq fresh \union UNION {Holds(h) : h \in Req}

\* A send that is running when its campaign is deleted sends at most one more
\* letter.
DeleteStops == \A h \in Req : extra[h] <= 1

Sending == campaign.exists /\ campaign.status = "sending"

\* A campaign does not stay "sending", unless a send that had begun died, by
\* a restart or an error: nothing else sets it back.
SendEnds == Sending ~> (~Sending \/ broken)

=============================================================================
