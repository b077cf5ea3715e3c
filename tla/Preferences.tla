---------------------------- MODULE Preferences ----------------------------
(***************************************************************************)
(* WebmailSettings.prefs: one JSON column per mailbox that holds every     *)
(* list and switch of the webmail (tasks, meetings, calendars, the         *)
(* planner, VIPs, auto-clean rules, blocked and allowed senders, the       *)
(* security log, the known devices).  Nobody updates a part of it: every   *)
(* writer reads the whole column, changes its own key and writes the whole *)
(* column back.                                                            *)
(*                                                                         *)
(*   pages   write {...prefs, key: value} with the prefs of the tab's      *)
(*           React Query cache, {} while that is not loaded, and refetch   *)
(*           after the answer                                              *)
(*   server  read the column and write it (blocked senders, auto-clean,    *)
(*           recovery address), or read their own list first and the rest  *)
(*           of the column once more just before the write (allowed        *)
(*           senders, security log, known devices)                         *)
(*                                                                         *)
(* The column is a set of entries, each under one key.  A copy of it       *)
(* carries, as history, the entries that changed since it was read.        *)
(***************************************************************************)
EXTENDS Integers, FiniteSets

CONSTANTS
  Tab,         \* open tabs of the webmail on one mailbox
  Writer,      \* server requests that may be under way together
  Entry,       \* tasks, meetings, rules, senders, events: what the column holds
  KeyOf,       \* KeyOf[e]: the key of the column that e is listed under
  PageKey,     \* the keys the pages of the webmail write
  PlainKey,    \* the keys a request writes after one read
  ListKey,     \* the keys a request writes after reading its list first
  CleanKey,    \* the key of the auto-clean rules
  MaxSaves     \* bound: saves pressed and requests started

ASSUME PreferencesAssumption ==
  /\ MaxSaves \in Nat
  /\ PageKey \cup PlainKey \cup ListKey = {KeyOf[e] : e \in Entry}
  /\ CleanKey \in PageKey \cap PlainKey

VARIABLES
  row,       \* prefs, the column
  cache,     \* cache[t]: ["wm", "fullsettings"] of the tab
  fetched,   \* fetched[t]: an answer to GET /settings on its way to the tab
  puts,      \* PUT /settings on their way to the server
  server,    \* server[r]: a request between its read and its write
  saves,     \* saves pressed and requests started so far
  told,      \* history: the entries as their last writer asked
  excused    \* history: entries changed between the read and the write of a
             \* later writer, or wiped by a page that had nothing loaded

prefVars == <<row, cache, fetched, puts, server, saves, told, excused>>

-----------------------------------------------------------------------------
(* Copies of the column.                                                   *)

NoCopy == [prefs |-> {}, moved |-> Entry, loaded |-> FALSE]
Copy   == [prefs |-> row, moved |-> {}, loaded |-> TRUE]
Copies == [prefs : SUBSET Entry, moved : SUBSET Entry, loaded : BOOLEAN]

Resting == [phase |-> "rest"]

Differ(a, b) == (a \ b) \cup (b \ a)

\* A copy once the column has become `now`.
Aged(copy, now) == [copy EXCEPT !.moved = @ \cup Differ(row, now)]

\* An entry asked for, or its removal.
Wish     == [entry : Entry, on : BOOLEAN]
With(prefs, w) == IF w.on THEN prefs \cup {w.entry} ELSE prefs \ {w.entry}

PrefInit ==
  /\ row = {} /\ told = {} /\ excused = {} /\ puts = {} /\ saves = 0
  /\ cache = [t \in Tab |-> NoCopy]
  /\ fetched = [t \in Tab |-> NoCopy]
  /\ server = [r \in Writer |-> Resting]

-----------------------------------------------------------------------------
(* The column changes in one upsert.                                       *)

\* saveSettings, and the upserts of the server's own writers: the column
\* becomes `prefs`, asked for w, put together from a copy out of date in
\* `moved`.
Write(prefs, w, moved) ==
  /\ row' = prefs
  /\ told' = With(told, w)
  /\ excused' = (excused \cup moved) \ {w.entry}
  /\ cache' = [t \in Tab |-> Aged(cache[t], prefs)]
  /\ fetched' = [t \in Tab |-> Aged(fetched[t], prefs)]

\* The other requests and saves under way, once the column has changed.
ServerAged(now) ==
  [r \in Writer |->
    CASE server[r].phase = "rest" -> Resting
      [] server[r].phase = "list" -> [server[r] EXCEPT !.list = Aged(@, now)]
      [] OTHER -> [server[r] EXCEPT !.list = Aged(@, now), !.copy = Aged(@, now)]]

PutsAged(now, rest) == {[p EXCEPT !.copy = Aged(@, now)] : p \in rest}

-----------------------------------------------------------------------------
(* A tab.                                                                  *)

\* GET /settings is answered with the column as it is.
GetSettings(t) ==
  /\ fetched' = [fetched EXCEPT ![t] = Copy]
  /\ UNCHANGED <<row, cache, puts, server, saves, told, excused>>

\* The answer arrives: the cache the pages render from.
Loaded(t) ==
  /\ fetched[t].loaded
  /\ cache' = [cache EXCEPT ![t] = fetched[t]]
  /\ fetched' = [fetched EXCEPT ![t] = NoCopy]
  /\ UNCHANGED <<row, puts, server, saves, told, excused>>

\* The tab is loaded anew.
Reload(t) ==
  /\ cache[t].loaded
  /\ cache' = [cache EXCEPT ![t] = NoCopy]
  /\ fetched' = [fetched EXCEPT ![t] = NoCopy]
  /\ UNCHANGED <<row, puts, server, saves, told, excused>>

\* A switch, a task, a meeting, a card: the page puts its change on top of the
\* cached column and sends the whole.
Press(t, e, on) ==
  /\ saves < MaxSaves
  /\ KeyOf[e] \in PageKey
  /\ on # (e \in cache[t].prefs)
  /\ saves' = saves + 1
  /\ puts' = puts \cup {[id |-> saves, copy |-> cache[t],
                         wish |-> [entry |-> e, on |-> on]]}
  /\ UNCHANGED <<row, cache, fetched, server, told, excused>>

\* Mistake: the page sends its own key and no other.
PutApplied_KeyOnly(p) ==
  /\ p \in puts
  /\ LET own == {e \in p.copy.prefs : KeyOf[e] = KeyOf[p.wish.entry]} IN
       /\ Write(With(own, p.wish), p.wish, p.copy.moved)
       /\ server' = ServerAged(row')
       /\ puts' = PutsAged(row', puts \ {p})
  /\ UNCHANGED saves

\* A PUT reaches the server, in any order with the others.
PutApplied(p) ==
  /\ p \in puts
  /\ Write(With(p.copy.prefs, p.wish), p.wish, p.copy.moved)
  /\ server' = ServerAged(row')
  /\ puts' = PutsAged(row', puts \ {p})
  /\ UNCHANGED saves

\* A PUT fails; the page keeps what it shows.
PutFails(p) ==
  /\ p \in puts
  /\ puts' = puts \ {p}
  /\ UNCHANGED <<row, cache, fetched, server, saves, told, excused>>

-----------------------------------------------------------------------------
(* A server request.                                                       *)

Start(r, list, copy, phase, w) ==
  /\ saves < MaxSaves
  /\ server[r] = Resting
  /\ saves' = saves + 1
  /\ server' = [server EXCEPT ![r] =
                  [phase |-> phase, list |-> list, copy |-> copy, wish |-> w]]
  /\ UNCHANGED <<row, cache, fetched, puts, told, excused>>

\* A sender is blocked or unblocked, the recovery address is set.
ReadPlain(r, w) ==
  /\ KeyOf[w.entry] \in PlainKey \ {CleanKey}
  /\ Start(r, Copy, Copy, "write", w)

\* maybeAutoClean: only with rules to run.  It writes its rules back with the
\* time they ran, after it went through the folders.
ReadClean(r, e) ==
  /\ KeyOf[e] = CleanKey
  /\ e \in row
  /\ Start(r, Copy, Copy, "write", [entry |-> e, on |-> TRUE])

\* readList, recordEvent, onLogin: the list of the request's own key.
ReadList(r, w) ==
  /\ KeyOf[w.entry] \in ListKey
  /\ Start(r, Copy, NoCopy, "list", w)

\* writeList, writePrefs: the column is read once more.
ReadRest(r) ==
  /\ server[r].phase = "list"
  /\ server' = [server EXCEPT ![r] = [phase |-> "write", list |-> server[r].list,
                                      copy |-> Copy, wish |-> server[r].wish]]
  /\ UNCHANGED <<row, cache, fetched, puts, saves, told, excused>>

\* The upsert: the request's key from its list, the others from the copy.
WriteServer(r) ==
  /\ server[r].phase = "write"
  /\ LET s       == server[r]
         Mine(e) == KeyOf[e] = KeyOf[s.wish.entry]
         prefs   == {e \in s.list.prefs : Mine(e)} \cup {e \in s.copy.prefs : ~Mine(e)}
         moved   == {e \in s.list.moved : Mine(e)} \cup {e \in s.copy.moved : ~Mine(e)}
     IN /\ Write(With(prefs, s.wish), s.wish, moved)
        /\ server' = [ServerAged(row') EXCEPT ![r] = Resting]
        /\ puts' = PutsAged(row', puts)
  /\ UNCHANGED saves

\* The request fails, or the server restarts, before it wrote.
ServerFails(r) ==
  /\ server[r] # Resting
  /\ server' = [server EXCEPT ![r] = Resting]
  /\ UNCHANGED <<row, cache, fetched, puts, saves, told, excused>>

PrefNext ==
  \/ \E t \in Tab : GetSettings(t) \/ Loaded(t) \/ Reload(t)
  \/ \E t \in Tab, e \in Entry, on \in BOOLEAN : Press(t, e, on)
  \/ \E p \in puts : PutApplied(p) \/ PutFails(p)
  \/ \E r \in Writer, w \in Wish : ReadPlain(r, w) \/ ReadList(r, w)
  \/ \E r \in Writer, e \in Entry : ReadClean(r, e)
  \/ \E r \in Writer : ReadRest(r) \/ WriteServer(r) \/ ServerFails(r)

PrefSpec == PrefInit /\ [][PrefNext]_prefVars

-----------------------------------------------------------------------------
(* Properties.                                                             *)

\* The column holds entries, and everything under way is a copy and a wish.
PrefType ==
  /\ row \in SUBSET Entry /\ told \in SUBSET Entry /\ excused \in SUBSET Entry
  /\ cache \in [Tab -> Copies] /\ fetched \in [Tab -> Copies]
  /\ puts \subseteq [id : 0..MaxSaves, copy : Copies, wish : Wish]
  /\ server \in [Writer -> {Resting} \cup
                   [phase : {"list", "write"}, list : Copies, copy : Copies, wish : Wish]]
  /\ saves \in 0..MaxSaves

\* An entry is in the column exactly as its last writer asked, whatever the
\* other pages and requests saved since: a save from an old copy takes back at
\* most what changed while that copy was held.
ToldIsKept ==
  \A e \in Entry \ excused : e \in row <=> e \in told
=============================================================================
