------------------------------- MODULE Reading -------------------------------
(***************************************************************************)
(* The webmail page that lists a folder and reads a message of it: the     *)
(* lists and messages it keeps (TanStack Query), the requests it makes,    *)
(* and the mailbox, which other devices and the rules change too.          *)
(*                                                                         *)
(* A stay is a message in a folder: IMAP gives it a new UID when it is     *)
(* moved, and the page knows it by folder and UID.  A kept list or message *)
(* may be used for 30 s, so that opening it again fetches it or does not;  *)
(* when the connection comes back, what is shown is fetched likewise.      *)
(* Searches, further pages of a folder, the counts (which are polled), the *)
(* five minutes after which a message is forgotten, and a second press of  *)
(* a button before the first was answered are left out.                    *)
(***************************************************************************)
EXTENDS Integers

CONSTANTS Letter,    \* messages of the mailbox
          Shelf,     \* its folders
          Opening,   \* the folder shown first
          MaxStay,   \* bound on the stays of a message
          MaxAsks,   \* bound on the requests the page makes
          MaxElse    \* bound on what others do to the mailbox, and on reconnections

\* "away" is no folder.
ASSUME ReadingAssumption ==
  /\ Opening \in Shelf /\ "away" \notin Shelf
  /\ MaxStay \in Nat \ {0} /\ {MaxAsks, MaxElse} \subseteq Nat

VARIABLES where,    \* the folder a message is in, "away" before it arrives
          stay,     \* the stay it is at
          elsewhere,  \* how often others changed the mailbox, or the connection was lost
          marks,    \* its marks, of "seen" and "flagged"
          folder,   \* the folder shown
          open,     \* the message shown, a stay, or NoMessage
          lists,    \* the list kept of a folder
          fetch,    \* its fetch under way
          bodies,   \* the messages kept
          asks,     \* requests under way
          asked,    \* how many there were
          told      \* history: what was marked unread, and not fetched since

mail == <<where, stay, marks, elsewhere>>
onScreen == <<folder, open, bodies>>
kept == <<lists, fetch>>
requests == <<asks, asked>>
readingVars == <<mail, onScreen, kept, requests, told>>

Stay == Letter \X (1 .. MaxStay)
NoMessage == <<"none", 0>>
Mark == {"seen", "flagged"}

\* A message as a list has it.
Entry == [of : Stay, marks : SUBSET Mark]

\* A list the page has, or not; it is old when it was invalidated.  History:
\* `but` has the messages that changed and nobody told the page, and it is late
\* when it was invalidated on its way here, after it was read.
NoList == [has |-> FALSE, items |-> {}, old |-> FALSE, but |-> {}, late |-> FALSE]
NoFetch == [at |-> "none", items |-> {}, but |-> {}, late |-> FALSE]

ReadingInit ==
  /\ where \in [Letter -> {"away", Opening}] /\ stay = [m \in Letter |-> 1]
  /\ marks = [m \in Letter |-> {}]
  /\ folder = Opening /\ open = NoMessage /\ bodies = {}
  /\ lists = [f \in Shelf |-> NoList]
  /\ fetch = [f \in Shelf |-> IF f = Opening THEN [NoFetch EXCEPT !.at = "asked"] ELSE NoFetch]
  /\ asks = {} /\ asked = 0 /\ elsewhere = 0
  /\ told = {}

-----------------------------------------------------------------------------
(* The lists.                                                              *)

Server(f) == {[of |-> <<m, stay[m]>>, marks |-> marks[m]] : m \in {n \in Letter : where[n] = f}}

\* The lists and their fetches, told of a change of `changed` that they miss.
Missed(copies, changed) == [f \in Shelf |-> [copies[f] EXCEPT !.but = @ \union changed]]

\* What invalidateQueries() does to the list of f, fetching it if it is `seen`.
Renew(f, seen) ==
  LET again == seen /\ (fetch[f].at = "none" \/ lists[f].has) IN
  /\ lists' = [lists EXCEPT ![f].old = @ \/ lists[f].has]
  /\ fetch' = [fetch EXCEPT ![f] = IF again THEN [NoFetch EXCEPT !.at = "asked"]
                                   ELSE [fetch[f] EXCEPT !.late = @ \/ fetch[f].at = "read"]]

\* Mistake: the list of the folder that is shown by then.
Invalidate_Shown(f) == Renew(folder, TRUE)

\* invalidateQueries(): the list is old, and is fetched at once, or anew, if it
\* is shown; but a first fetch goes on, and so does that of a list not shown.
Invalidate(f) == Renew(f, f = folder)

\* listMessages()
ReadList(f) ==
  /\ fetch[f].at = "asked"
  /\ fetch' = [fetch EXCEPT ![f] = [NoFetch EXCEPT !.at = "read", !.items = Server(f)]]
  /\ UNCHANGED <<mail, onScreen, lists, requests, told>>

\* The list arrives, and is not old whatever was said meanwhile.
ListArrives(f) ==
  /\ fetch[f].at = "read"
  /\ lists' = [lists EXCEPT ![f] = [has |-> TRUE, items |-> fetch[f].items,
                                    old |-> FALSE, but |-> fetch[f].but, late |-> fetch[f].late]]
  /\ fetch' = [fetch EXCEPT ![f] = NoFetch]
  /\ UNCHANGED <<mail, onScreen, requests, told>>

\* The fetch fails, after its retries.
ListFails(f) ==
  /\ fetch[f].at # "none"
  /\ fetch' = [fetch EXCEPT ![f] = NoFetch]
  /\ UNCHANGED <<mail, onScreen, lists, requests, told>>

\* A list is fetched when there is none or an old one, and may be when 30 s have
\* passed.
FetchUnlessFresh(f) ==
  \/ /\ fetch[f].at = "none"
     /\ fetch' = [fetch EXCEPT ![f] = [NoFetch EXCEPT !.at = "asked"]]
  \/ /\ fetch[f].at # "none" \/ (lists[f].has /\ ~lists[f].old)
     /\ UNCHANGED fetch

\* The folder's button.
OpenFolder(f) ==
  /\ f # folder
  /\ folder' = f /\ open' = NoMessage
  /\ FetchUnlessFresh(f)
  /\ UNCHANGED <<mail, bodies, lists, requests, told>>

-----------------------------------------------------------------------------
(* Reading a message.                                                      *)

Listed == {i.of : i \in lists[folder].items}

Ask(kind, k, f, to) == [kind |-> kind, of |-> k, folder |-> f, to |-> to, at |-> "asked"]

Asking(r) ==
  /\ asked < MaxAsks
  /\ r \notin asks
  /\ asks' = asks \union {r} /\ asked' = asked + 1

\* A click, or j and k: what is kept is shown at once, which is reading it;
\* what is not, or not fresh, is fetched.
OpenMessage(k) ==
  /\ k \in Listed \ {open}
  /\ open' = k
  /\ IF k \in bodies
     THEN /\ Invalidate(folder)
          /\ \/ /\ Asking(Ask("open", k, folder, folder)) /\ told' = told \ {k}
             \/ UNCHANGED <<requests, told>>
     ELSE /\ \/ /\ Asking(Ask("open", k, folder, folder)) /\ told' = told \ {k}
             \/ /\ \E r \in asks : r.kind = "open" /\ r.of = k
                /\ UNCHANGED <<requests, told>>
          /\ UNCHANGED kept
  /\ UNCHANGED <<mail, folder, bodies>>

\* The connection is back, on which QueryClient leaves refetchOnReconnect: the list
\* and the message that are shown are fetched unless they are fresh, or on their
\* way; nobody opened the message.
Reconnect ==
  LET again == Ask("open", open, folder, folder)
      underway == \E r \in asks : r.kind = "open" /\ r.of = open /\ r.folder = folder
  IN  /\ elsewhere < MaxElse /\ elsewhere' = elsewhere + 1
      /\ FetchUnlessFresh(folder)
      /\ \/ /\ open # NoMessage /\ ~underway
            /\ asks' = asks \union {again} /\ told' = told \ {open}
         \/ /\ open \in bodies \union {NoMessage} \/ underway
            /\ UNCHANGED <<asks, told>>
      /\ UNCHANGED <<where, stay, marks, onScreen, lists, asked>>

\* Escape, u and "Back".
CloseMessage ==
  /\ open # NoMessage /\ open' = NoMessage
  /\ UNCHANGED <<mail, folder, bodies, kept, requests, told>>

Current(r) == where[r.of[1]] = r.folder /\ stay[r.of[1]] = r.of[2]

Served(r, at) == asks' = (asks \ {r}) \union {[r EXCEPT !.at = at]}

\* getMessage(): it is marked seen, unless that fails.
ServeOpen(r) ==
  /\ r \in asks /\ r.kind = "open" /\ r.at = "asked"
  /\ \/ /\ Current(r) /\ \E at \in {"ok", "bad"} : Served(r, at)
        /\ marks' \in {marks, [marks EXCEPT ![r.of[1]] = @ \union {"seen"}]}
     \/ Served(r, "bad") /\ UNCHANGED marks
  /\ UNCHANGED <<where, stay, elsewhere, onScreen, kept, asked, told>>

\* The message arrives.  The first time it is shown the list is fetched anew;
\* the list does not know else that the message was seen.
OpenAnswered(r) ==
  /\ r \in asks /\ r.kind = "open" /\ r.at \in {"ok", "bad"}
  /\ asks' = asks \ {r}
  /\ IF r.at = "ok" /\ open = r.of /\ r.of \notin bodies
     THEN Invalidate(folder)
     ELSE /\ lists' = Missed(lists, {r.of}) /\ fetch' = Missed(fetch, {r.of})
  /\ bodies' = IF r.at = "ok" THEN bodies \union {r.of} ELSE bodies
  /\ UNCHANGED <<mail, folder, open, asked, told>>

-----------------------------------------------------------------------------
(* The buttons and keys of an open message.                                *)

\* markUnread(), the star (which asks for the flag whatever the message has,
\* as a message read has no field `flagged`), and moveTo(), onTrash() and
\* blockSender(), which move the message.
Press(kind, to) ==
  /\ open \in bodies
  /\ Asking(Ask(kind, open, folder, to))
  /\ UNCHANGED <<mail, onScreen, kept, told>>

\* setFlags(), unless it fails, or says so though it was done.  From here a
\* message is marked unread, if no fetch that marks it seen is under way.
ServeMarks(r) ==
  /\ r \in asks /\ r.kind \in {"unread", "star"} /\ r.at = "asked"
  /\ \/ /\ Current(r) /\ \E at \in {"ok", "bad"} : Served(r, at)
        /\ marks' = [marks EXCEPT ![r.of[1]] = IF r.kind = "unread" THEN @ \ {"seen"}
                                               ELSE @ \union {"flagged"}]
        /\ told' = IF r.kind = "unread" /\ Ask("open", r.of, r.folder, r.folder) \notin asks
                   THEN told \union {r.of} ELSE told
     \/ ~Current(r) /\ Served(r, "ok") /\ UNCHANGED <<marks, told>>
     \/ Served(r, "bad") /\ UNCHANGED <<marks, told>>
  /\ UNCHANGED <<where, stay, elsewhere, onScreen, kept, asked>>

Refiled(m, f) ==
  /\ stay[m] < MaxStay
  /\ where' = [where EXCEPT ![m] = f] /\ stay' = [stay EXCEPT ![m] = @ + 1]
  /\ UNCHANGED marks

\* moveMessage() and trashMessage(): the list of the target is not told.
ServeMove(r) ==
  /\ r \in asks /\ r.kind \in {"move", "block"} /\ r.at = "asked"
  /\ \E at \in {"ok", "bad"} : Served(r, at)
  /\ \/ /\ Current(r) /\ Refiled(r.of[1], r.to) /\ UNCHANGED elsewhere
        /\ LET new == {<<r.of[1], r.of[2] + 1>>} IN
           lists' = Missed(lists, new) /\ fetch' = Missed(fetch, new)
     \/ (~Current(r) \/ [r EXCEPT !.at = "bad"] \in asks') /\ UNCHANGED <<mail, lists, fetch>>
  /\ UNCHANGED <<onScreen, asked, told>>

\* Mistake: the open message is fetched anew with the list.
RefreshList_Rereads(r) ==
  /\ Invalidate(r.folder)
  /\ asks' = (asks \ {r}) \union
               (IF open \in bodies THEN {Ask("open", open, folder, folder)} ELSE {})

\* refreshList(), of the folder the button was pressed in.
RefreshList(r) ==
  /\ Invalidate(r.folder)
  /\ asks' = asks \ {r}

MarksAnswered(r) ==
  /\ r \in asks /\ r.kind \in {"unread", "star"} /\ r.at = "ok"
  /\ RefreshList(r)
  /\ UNCHANGED <<mail, onScreen, asked, told>>

\* Whatever is shown by then is closed.
MoveAnswered(r) ==
  /\ r \in asks /\ r.kind \in {"move", "block"}
  /\ r.at = "ok" \/ (r.kind = "block" /\ r.at = "bad")
  /\ RefreshList(r)
  /\ open' = NoMessage
  /\ UNCHANGED <<mail, folder, bodies, asked, told>>

\* An error, which may have come after the change, refreshes nothing.
PressFailed(r) ==
  /\ r \in asks /\ r.kind \in {"unread", "star", "move"} /\ r.at = "bad"
  /\ asks' = asks \ {r}
  /\ lists' = Missed(lists, {r.of}) /\ fetch' = Missed(fetch, {r.of})
  /\ UNCHANGED <<mail, onScreen, asked, told>>

-----------------------------------------------------------------------------
(* Other devices, rules and new mail, of which the page is not told.       *)

Elsewhere(m) ==
  /\ elsewhere < MaxElse /\ elsewhere' = elsewhere + 1
  /\ \/ where[m] = "away" /\ where' = [where EXCEPT ![m] = Opening] /\ UNCHANGED <<stay, marks>>
     \/ where[m] # "away" /\ \E f \in Shelf \ {where[m]} : Refiled(m, f)
     \/ /\ where[m] # "away" /\ \E s \in SUBSET Mark : marks' = [marks EXCEPT ![m] = s]
        /\ UNCHANGED <<where, stay>>
  /\ LET hit == {<<m, stay[m]>>, <<m, stay'[m]>>} IN
     lists' = Missed(lists, hit) /\ fetch' = Missed(fetch, hit) /\ told' = told \ hit
  /\ UNCHANGED <<onScreen, requests>>

ReadingNext ==
  \/ \E f \in Shelf : ReadList(f) \/ ListArrives(f) \/ ListFails(f) \/ OpenFolder(f)
  \/ \E k \in Listed : OpenMessage(k)
  \/ CloseMessage \/ Reconnect
  \/ \E kind \in {"unread", "star"} : Press(kind, folder)
  \/ \E kind \in {"move", "block"}, f \in Shelf \ {folder} : Press(kind, f)
  \/ \E r \in asks : \/ ServeOpen(r) \/ ServeMarks(r) \/ ServeMove(r)
                     \/ OpenAnswered(r) \/ MarksAnswered(r) \/ MoveAnswered(r) \/ PressFailed(r)
  \/ \E m \in Letter : Elsewhere(m)

ReadingSpec == ReadingInit /\ [][ReadingNext]_readingVars

-----------------------------------------------------------------------------
(* Properties.                                                             *)

ListCopy == [has : BOOLEAN, items : SUBSET Entry, old : BOOLEAN, but : SUBSET Stay, late : BOOLEAN]
FolderFetch ==
  [at : {"none", "asked", "read"}, items : SUBSET Entry, but : SUBSET Stay, late : BOOLEAN]
PageAsk == [kind : {"open", "unread", "star", "move", "block"}, of : Stay, folder : Shelf,
            to : Shelf, at : {"asked", "ok", "bad"}]

ReadingType ==
  /\ where \in [Letter -> Shelf \union {"away"}] /\ stay \in [Letter -> 1 .. MaxStay]
  /\ marks \in [Letter -> SUBSET Mark]
  /\ folder \in Shelf /\ open \in Stay \union {NoMessage} /\ bodies \subseteq Stay
  /\ lists \in [Shelf -> ListCopy]
  /\ fetch \in [Shelf -> FolderFetch]
  /\ asks \subseteq PageAsk
  /\ asked \in 0 .. MaxAsks /\ elsewhere \in 0 .. MaxElse /\ told \subseteq Stay

Beside(items, but) == {i \in items : i.of \notin but}

\* A list that is used as it is has the messages of its folder, with their
\* marks, once what the page did in that folder was answered, wherever the user
\* went meanwhile; but for changes made elsewhere, messages moved into it, and
\* changes that failed or were read past.
ListFollows ==
  \A f \in Shelf :
    lists[f].has /\ ~lists[f].late /\ ~lists[f].old /\ fetch[f].at = "none" /\ (\A r \in asks : r.folder # f) =>
      Beside(lists[f].items, lists[f].but) = Beside(Server(f), lists[f].but)

\* A message marked unread stays so until the page fetches it: it is opened when
\* what was kept of it is not fresh, or a connection comes back while it is shown.
UnreadKept ==
  \A m \in Letter : <<m, stay[m]>> \in told => "seen" \notin marks[m]

=============================================================================
