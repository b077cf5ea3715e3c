---------------------------- MODULE MailFolders ----------------------------
(***************************************************************************)
(* The folders of a mailbox as the webmail page works on them: the page    *)
(* knows a message by the folder it shows and the message's UID there, and *)
(* asks the server to move, delete or file it; on every look at the folder *)
(* list the server runs the mailbox's rules and its auto-clean beside it.  *)
(*                                                                         *)
(* IMAP gives a message that enters a folder a UID higher than any before  *)
(* and starts again in a folder that is created.  A mailbox has one page   *)
(* open.  Flags, counts, searches and the pages of a long list are left    *)
(* out (so the bulk action "read" is too), and so is the list as the page  *)
(* last fetched it: what is ticked or opened is in the folder shown then,  *)
(* and may have left it a step later.                                      *)
(***************************************************************************)
EXTENDS Integers, FiniteSets

CONSTANTS Msg,      \* messages that arrive
          Custom,   \* folders the user may create
          MaxUid,   \* bound on the UIDs a folder gives out
          MaxGiven  \* bound on the UIDs given out by the folders there are

\* A folder the user creates is none of those there are.
ASSUME MailFoldersAssumption ==
  /\ MaxUid \in Nat /\ MaxGiven \in Nat
  /\ Custom \intersect {"INBOX", "Archive", "Junk", "Trash", "away", "gone"} = {}

VARIABLES at,       \* the folder a message is in, "away" before, "gone" after
          uid,      \* its UID there
          next,     \* the UID a folder gives out next
          made,     \* the custom folders there are
          view,     \* the folder the page shows
          ticks,    \* the UIDs ticked
          bulk,     \* what the page does with ticked messages one by one
          change,   \* the deletion or renaming of a folder under way
          meant,    \* history: messages ticked since the ticks were cleared
          carried,  \* history: ticks went along to another folder, or a folder was made
                    \* under the name that they, or a bulk action, knew another by
          strayed   \* history: a bulk action took a message that was not ticked

boxes == <<at, uid, next, made>>
ticked == <<ticks, meant>>
foldersPage == <<view, ticked, bulk, change, carried, strayed>>
foldersVars == <<boxes, foldersPage>>

Kept == {"INBOX", "Archive", "Junk", "Trash"}
Folder == Kept \union Custom
There == Kept \union made

NoBulk == [act |-> "none", from |-> "INBOX", left |-> {}, meant |-> {}]
NoChange == [from |-> "none", to |-> "INBOX", shown |-> FALSE, done |-> FALSE]
Changes ==
  {NoChange} \union [from : Custom, to : Custom \union {"INBOX"}, shown : BOOLEAN, done : BOOLEAN]

FoldersInit ==
  /\ at = [m \in Msg |-> "away"] /\ uid = [m \in Msg |-> 0]
  /\ next = [f \in Folder |-> 1] /\ made = {}
  /\ view = "INBOX" /\ ticks = {} /\ bulk = NoBulk /\ change = NoChange
  /\ meant = {} /\ carried = FALSE /\ strayed = FALSE

-----------------------------------------------------------------------------
(* What the server does with messages.                                     *)

In(f) == {m \in Msg : at[m] = f}
AtUid(f, u) == {m \in In(f) : uid[m] = u}

Given == {g \in Folder \X (1 .. MaxUid) : g[2] < next[g[1]]}

\* messageMove(): the messages arrive in the order of their UIDs.
MoveAll(S, f) ==
  LET before(m) == {n \in S : uid[n] < uid[m]} IN
  /\ next[f] + Cardinality(S) <= MaxUid + 1
  /\ Cardinality(Given) + Cardinality(S) <= MaxGiven
  /\ at' = [m \in Msg |-> IF m \in S THEN f ELSE at[m]]
  /\ uid' = [m \in Msg |-> IF m \in S THEN next[f] + Cardinality(before(m)) ELSE uid[m]]
  /\ next' = [next EXCEPT ![f] = @ + Cardinality(S)]

\* messageDelete()
Purge(S) ==
  /\ at' = [m \in Msg |-> IF m \in S THEN "gone" ELSE at[m]]
  /\ uid' = [m \in Msg |-> IF m \in S THEN 0 ELSE uid[m]]
  /\ UNCHANGED next

\* moveMessage(), which fails when the target does not exist.
MoveMessage(S, f) ==
  IF f \in There THEN MoveAll(S, f) ELSE UNCHANGED <<at, uid, next>>

\* Mistake: the message is deleted wherever it is.
TrashMessage_Purges(S, f) == Purge(S)

\* trashMessage(): out of the Trash a message goes for good.
TrashMessage(S, f) == IF f = "Trash" THEN Purge(S) ELSE MoveAll(S, "Trash")

Arrive(m) ==
  /\ at[m] = "away" /\ MoveAll({m}, "INBOX")
  /\ UNCHANGED <<made, foldersPage>>

-----------------------------------------------------------------------------
(* The page.                                                               *)

\* selectStd(): a folder of the fixed list; "Scheduled" shows none and keeps
\* the one there was.
SelectStd(f) ==
  /\ view' = f
  /\ ticks' = {} /\ meant' = {}
  /\ UNCHANGED <<boxes, bulk, change, carried, strayed>>

\* The button of a custom folder leaves the ticks, which name other messages
\* from here on.
OpenCustom(f) ==
  /\ f \in made \ {view} /\ view' = f
  /\ carried' = (carried \/ ticks # {})
  /\ UNCHANGED <<boxes, ticked, bulk, change, strayed>>

ToggleSel(m) ==
  /\ at[m] = view
  /\ IF uid[m] \in ticks
     THEN ticks' = ticks \ {uid[m]} /\ meant' = meant \ {m}
     ELSE ticks' = ticks \union {uid[m]} /\ meant' = meant \union {m}
  /\ UNCHANGED <<boxes, view, bulk, change, carried, strayed>>

\* Mistake: the loop looks up the folder of the page as it goes.
BulkFrom_Shown == view

\* The folder a running bulk() works on: the one shown when it was pressed.
BulkFrom == bulk.from

\* bulk(), with the folder and the ticks of the moment.
BulkPress(act) ==
  /\ bulk = NoBulk /\ ticks # {}
  /\ bulk' = [act |-> act, from |-> view, left |-> ticks, meant |-> meant]
  /\ UNCHANGED <<boxes, view, ticked, change, carried, strayed>>

\* One turn of its loop; a request that fails is passed over.
BulkStep(u) ==
  /\ u \in bulk.left
  /\ bulk' = [bulk EXCEPT !.left = @ \ {u}]
  /\ LET hit == AtUid(BulkFrom, u) IN
     \/ UNCHANGED <<at, uid, next, strayed>>
     \/ /\ strayed' = (strayed \/ ~(hit \subseteq bulk.meant))
        /\ CASE bulk.act = "archive" -> MoveMessage(hit, "Archive")
             [] bulk.act = "delete"  -> TrashMessage(hit, BulkFrom)
  /\ UNCHANGED <<made, view, ticked, change, carried>>

BulkEnd ==
  /\ bulk # NoBulk /\ bulk.left = {}
  /\ bulk' = NoBulk /\ ticks' = {} /\ meant' = {}
  /\ UNCHANGED <<boxes, view, change, carried, strayed>>

\* onTrash(), moveTo(), blockSender(): the message that is read.
ActOnShown(m) ==
  /\ at[m] = view
  /\ TrashMessage({m}, view) \/ \E f \in There \ {view} : MoveMessage({m}, f)
  /\ UNCHANGED <<made, foldersPage>>

\* emptyCurrent(): the button is shown for the Trash and Junk.
EmptyCurrent ==
  /\ view \in {"Trash", "Junk"}
  /\ Purge(In(view))
  /\ UNCHANGED <<made, foldersPage>>

\* The folder that ticks, or the rest of a bulk action, were in had this name.
KnownAs(f) == (view = f /\ ticks # {}) \/ bulk.from = f

NewFolder(f) ==
  /\ f \in Custom \ made
  /\ made' = made \union {f}
  /\ carried' = (carried \/ KnownAs(f))
  /\ UNCHANGED <<at, uid, next, view, ticked, bulk, change, strayed>>

\* removeFolder() and renameFolder() ask, and remember the folder that is shown.
AskChange(f, to) ==
  /\ change = NoChange /\ f \in made
  /\ change' = [from |-> f, to |-> to, shown |-> view = f, done |-> FALSE]
  /\ UNCHANGED <<boxes, view, ticked, bulk, carried, strayed>>

RemoveFolder(f) == AskChange(f, "INBOX")

RenameFolder(f, g) == g \in Custom \ made /\ AskChange(f, g)

\* deleteFolder(): what is in the folder is lost.
ServeRemove ==
  LET f == change.from IN
  /\ change # NoChange /\ change.to = "INBOX" /\ ~change.done
  /\ made' = made \ {f}
  /\ at' = [m \in Msg |-> IF at[m] = f THEN "gone" ELSE at[m]]
  /\ uid' = [m \in Msg |-> IF at[m] = f THEN 0 ELSE uid[m]]
  /\ next' = [next EXCEPT ![f] = 1]
  /\ change' = [change EXCEPT !.done = TRUE]
  /\ UNCHANGED <<view, ticked, bulk, carried, strayed>>

\* renameFolder(): messages keep their UIDs.
ServeRename ==
  LET f == change.from  g == change.to IN
  /\ g \in Custom \ made /\ ~change.done
  /\ made' = (made \ {f}) \union {g}
  /\ at' = [m \in Msg |-> IF at[m] = f THEN g ELSE at[m]]
  /\ next' = [next EXCEPT ![g] = next[f], ![f] = 1]
  /\ change' = [change EXCEPT !.done = TRUE]
  /\ carried' = (carried \/ KnownAs(g))
  /\ UNCHANGED <<uid, view, ticked, bulk, strayed>>

\* The page leaves the folder it showed when it asked, whatever it shows now, and
\* keeps the ticks: they name the same messages in a folder that was renamed.
LeaveFolder ==
  LET same == change.to # "INBOX" /\ view = change.from /\ view \notin made IN
  /\ view' = IF change.shown THEN change.to ELSE view
  /\ carried' = (carried \/ (view' # view /\ ticks # {} /\ ~same))

\* The answer: after an error, or an answer that was lost, removeFolder() goes on
\* as if there had been none.
ChangeAnswered ==
  /\ change # NoChange /\ change' = NoChange
  /\ \/ (change.done \/ change.to = "INBOX") /\ LeaveFolder
     \/ change.to # "INBOX" /\ UNCHANGED <<view, carried>>
  /\ UNCHANGED <<boxes, ticked, bulk, strayed>>

-----------------------------------------------------------------------------
(* Rules and auto-clean, run by the server on GET /folders.                *)

\* applyRules(), one message: it goes to Junk for its sender, or to the folder
\* of the first rule that fits, which need not exist any more.  One that has
\* left the inbox since it was listed is not found, as its UID never returns.
FileMessage(m) ==
  /\ at[m] = "INBOX"
  /\ \E f \in Folder \ {"INBOX"} : MoveMessage({m}, f)
  /\ UNCHANGED <<made, foldersPage>>

\* runAutoClean(), one rule: the old ones of a folder, by the day they came.
AutoClean(f, action) ==
  /\ f \in There
  /\ \E S \in SUBSET In(f) \ {{}} :
       IF action = "delete" \/ f = "Trash" THEN Purge(S) ELSE MoveAll(S, "Trash")
  /\ UNCHANGED <<made, foldersPage>>

FoldersNext ==
  \/ \E m \in Msg : Arrive(m) \/ ToggleSel(m) \/ ActOnShown(m) \/ FileMessage(m)
  \/ \E f \in Kept \union {view} : SelectStd(f)
  \/ \E f \in Custom :
       OpenCustom(f) \/ NewFolder(f) \/ RemoveFolder(f) \/ \E g \in Custom : RenameFolder(f, g)
  \/ ServeRemove \/ ServeRename \/ ChangeAnswered
  \/ \E act \in {"archive", "delete"} : BulkPress(act)
  \/ \E u \in bulk.left : BulkStep(u)
  \/ BulkEnd \/ EmptyCurrent
  \/ \E f \in Folder, action \in {"trash", "delete"} : AutoClean(f, action)

FoldersSpec == FoldersInit /\ [][FoldersNext]_foldersVars

-----------------------------------------------------------------------------
(* Properties.                                                             *)

FoldersType ==
  /\ at \in [Msg -> Folder \union {"away", "gone"}] /\ made \subseteq Custom
  /\ uid \in [Msg -> 0 .. MaxUid] /\ next \in [Folder -> 1 .. MaxUid + 1]
  /\ \A m \in Msg : at[m] \in Folder => at[m] \in There /\ uid[m] \in 1 .. next[at[m]] - 1
  /\ view \in Folder /\ ticks \subseteq 1 .. MaxUid /\ meant \subseteq Msg
  /\ bulk \in [act : {"none", "archive", "delete"}, from : Folder,
               left : SUBSET (1 .. MaxUid), meant : SUBSET Msg]
  /\ change \in Changes
  /\ carried \in BOOLEAN /\ strayed \in BOOLEAN

\* A bulk action takes messages that were ticked and no others, whatever
\* arrives, is filed or shown meanwhile, unless ticks were taken along to a
\* folder where the same UIDs are other messages, or a folder was made anew under
\* the name that they or the action went by.
BulkHitsChosen == strayed => carried

\* A message goes for good only out of the Trash, Junk or a folder that is
\* deleted, or by a rule that says so: out of the inbox and the archive nothing
\* the page or a rule of the mailbox does takes one where it cannot be found.
PurgedFromTrash ==
  [][\A m \in Msg : at[m] \in {"INBOX", "Archive"} /\ at'[m] = "gone" =>
       foldersPage' = foldersPage /\ \E f \in Folder : AutoClean(f, "delete")]_foldersVars

=============================================================================
