------------------------------ MODULE Organizer ------------------------------
(***************************************************************************)
(* The calendar, the planner and the tasks of the webmail.  All three live *)
(* in the preferences of the mailbox, one value that a page loads, changes *)
(* and saves as a whole.  Pages of several devices do so at once, and have *)
(* dialogs open meanwhile that hold what they were opened on.              *)
(*                                                                         *)
(* An event has its calendar, a card its lists, a task is open or done,    *)
(* and each has words, which an edit turns into others.  Dates, shares,    *)
(* names and looks of calendars and lists, the order of lists and of       *)
(* cards, and tasks of the old shape are left out; of saving a name there  *)
(* remains that the calendars, or the lists, are written down.             *)
(* A save is answered, and the value loaded anew, as it is written: to     *)
(* act after the write and before that is to act before it.  What other    *)
(* writers do to this value is the subject of Preferences.                 *)
(***************************************************************************)
EXTENDS Integers, Sequences, SequencesExt

CONSTANTS Page,      \* pages, of one device or several
          Primary,   \* the calendar that is there when none was saved
          Cal,       \* calendars
          Event, Card, Task,
          List,      \* lists added to the planner
          MaxSaves   \* bound on the saves

\* An event is no card and no task.
ASSUME OrganizerAssumption ==
  /\ Primary \in Cal /\ MaxSaves \in Nat
  /\ Event \intersect (Card \union Task) = {}

VARIABLES settings, \* the saved preferences
          cache,    \* what a page has of them
          dialog,   \* the dialog open on a page
          saves,    \* saves under way
          pressed,  \* how many there were
          meant,    \* history: what was last made of an item
          free,     \* history: items that may be otherwise
          adrift    \* history: events that may be on a calendar that is not there

organizerVars == <<settings, cache, dialog, saves, pressed, meant, free, adrift>>
memory == <<meant, free, adrift>>

Item == Event \union Card \union Task

\* The planner starts with lists made as a page is opened: one, here.
Column == Page \union List

Nowhere == [in |-> {}, words |-> 0]
Empty == [cals |-> <<>>, planned |-> FALSE, board |-> {}, of |-> [x \in Item |-> Nowhere]]

\* What a page shows when nothing was saved, or is loaded, yet.
Calendars(v) == IF v.cals = <<>> THEN <<Primary>> ELSE v.cals
Board(p, v) == IF v.planned THEN v.board ELSE {p}

Closed == [on |-> "none", item |-> "none"]

\* What was loaded or is to be saved is old once another save was written.
OrganizerInit ==
  /\ settings = Empty
  /\ cache = [p \in Page |-> [of |-> Empty, old |-> TRUE]]
  /\ dialog = [p \in Page |-> Closed]
  /\ saves = {} /\ pressed = 0
  /\ meant = Empty.of /\ free = {} /\ adrift = {}

-----------------------------------------------------------------------------
(* Loading and saving.                                                     *)

\* The page is opened, or opened again.
Load(p) ==
  /\ cache' = [cache EXCEPT ![p] = [of |-> settings, old |-> FALSE]]
  /\ UNCHANGED <<settings, dialog, saves, pressed, memory>>

\* wmSaveSettings({ prefs: { ...prefs, ...next } }) from page p, of the value v.
\* History: it is to make the items what `goal` says, but nothing that can be
\* told of `astray`, and may leave the events `loose` without a calendar.
Save(p, v, goal, astray, loose) ==
  /\ pressed < MaxSaves /\ pressed' = pressed + 1
  /\ saves' = saves \union
       {[page |-> p, from |-> dialog[p].on, value |-> v, old |-> cache[p].old,
         goal |-> goal, astray |-> astray, loose |-> loose]}
  /\ UNCHANGED <<settings, cache, memory>>

\* A save from an older value than the one it replaces undoes what the page had
\* not loaded.  The dialog that saved is closed, or one of its kind that was
\* opened since; that of a card was closed before.
Write(s) ==
  /\ s \in saves
  /\ saves' = {[r EXCEPT !.old = TRUE] : r \in saves \ {s}}
  /\ settings' = s.value
  /\ cache' = [p \in Page |-> IF p = s.page THEN [of |-> s.value, old |-> FALSE]
                              ELSE [cache[p] EXCEPT !.old = TRUE]]
  /\ dialog' = IF s.from = "event" /\ dialog[s.page].on = "event"
               THEN [dialog EXCEPT ![s.page] = Closed] ELSE dialog
  /\ meant' = [x \in Item |-> IF x \in DOMAIN s.goal THEN s.goal[x] ELSE meant[x]]
  /\ free' = ((IF s.old THEN Item ELSE free) \ DOMAIN s.goal) \union s.astray
  /\ adrift' = adrift \union s.loose
  /\ UNCHANGED pressed

Refuse(s) ==
  /\ s \in saves /\ saves' = saves \ {s}
  /\ UNCHANGED <<settings, cache, dialog, pressed, memory>>

-----------------------------------------------------------------------------
(* Dialogs.                                                                *)

Open(p, d) ==
  /\ dialog[p].on = "none"
  /\ dialog' = [dialog EXCEPT ![p] = d]

Close(p) == dialog' = [dialog EXCEPT ![p] = Closed]

\* With its "Cancel", and by a click beside it.
CloseDialog(p) ==
  /\ dialog[p].on # "none" /\ Close(p)
  /\ UNCHANGED <<settings, cache, saves, pressed, memory>>

\* The item, made or edited; and put elsewhere as it is.
Changed(v, x, in) == [v EXCEPT !.of[x] = [in |-> in, words |-> IF @.in = {} THEN 0 ELSE 1 - @.words]]
Has(v, x) == v.of[x].in # {}

\* Its identifier is new: one that nothing knows of.
Fresh(x) ==
  /\ ~Has(settings, x) /\ \A s \in saves : ~Has(s.value, x)
  /\ \A p \in Page : ~Has(cache[p].of, x) /\ dialog[p].item # x

\* What becomes of items as a value has them, and that nothing does.
As(v, xs) == [x \in xs |-> v.of[x]]
Nothing == [x \in {} |-> Nowhere]

-----------------------------------------------------------------------------
(* Calendar.tsx.                                                           *)

\* openEvent() and openNew(): the dialog takes the calendar of the event, or
\* the first, and the user may pick another that is shown.
OpenEvent(p, e) ==
  LET v == cache[p].of
      picks == {{c} : c \in ToSet(Calendars(v))} IN
  /\ \/ /\ Has(v, e)
        /\ \E in \in picks \union {v.of[e].in} : Open(p, [on |-> "event", item |-> e, in |-> in])
     \/ \E in \in picks : Open(p, [on |-> "event", item |-> "new", in |-> in])
  /\ UNCHANGED <<settings, cache, saves, pressed, memory>>

\* "Save" and "Add": an event that is gone by then is not saved, though the page
\* says it is, and one whose calendar is gone is.
SaveEvent(p, e) ==
  LET v == cache[p].of  d == dialog[p]
      kept == IF d.item = "new" \/ Has(v, e) THEN {e} ELSE {}
      value == IF kept = {} THEN v ELSE Changed(v, e, d.in) IN
  /\ d.on = "event" /\ (d.item = e \/ (d.item = "new" /\ Fresh(e)))
  /\ Save(p, value, As(value, kept), {e} \ kept,
          IF d.in \subseteq ToSet(Calendars(v)) THEN {} ELSE {e})
  /\ UNCHANGED dialog

DeleteEvent(p, e) ==
  LET value == [cache[p].of EXCEPT !.of[e] = Nowhere] IN
  /\ dialog[p].on = "event" /\ dialog[p].item = e
  /\ Save(p, value, As(value, {e}), {}, {})
  /\ UNCHANGED dialog

\* addCalendar()
AddCalendar(p, c) ==
  LET v == cache[p].of IN
  /\ c # Primary /\ \A r \in saves : c \notin ToSet(r.value.cals)
  /\ c \notin ToSet(settings.cals) /\ \A q \in Page : c \notin ToSet(cache[q].of.cals)
  /\ dialog[p].on = "none" /\ UNCHANGED dialog
  /\ Save(p, [v EXCEPT !.cals = Append(Calendars(v), c)], Nothing, {}, {})

\* toggleCal(), and "Save" in the settings of a calendar.
SaveCalendars(p) ==
  /\ dialog[p].on = "none"
  /\ Save(p, [cache[p].of EXCEPT !.cals = Calendars(cache[p].of)], Nothing, {}, {})
  /\ UNCHANGED dialog

On(v, c) == {e \in Event : c \in v.of[e].in}

Moved(v, es, in) == [x \in Item |-> IF x \in es THEN [v.of[x] EXCEPT !.in = in] ELSE v.of[x]]

\* Mistake: its events stay on it.
DeleteCalendar_Alone(p, c) ==
  LET v == cache[p].of  cs == Calendars(v) IN
  /\ dialog[p].on = "none" /\ Len(cs) > 1
  /\ \E i \in DOMAIN cs : cs[i] = c /\
       Save(p, [v EXCEPT !.cals = RemoveAt(cs, i)], Nothing, {}, IF i = 1 THEN On(v, c) ELSE {})
  /\ UNCHANGED dialog

\* Its events go to the first calendar; to itself if it is the first, so that
\* they are on a calendar that is not there, and are not shown.
DeleteCalendar(p, c) ==
  LET v == cache[p].of  cs == Calendars(v)
      value(i) == [v EXCEPT !.cals = RemoveAt(cs, i), !.of = Moved(v, On(v, c), {cs[1]})] IN
  /\ dialog[p].on = "none" /\ Len(cs) > 1
  /\ \E i \in DOMAIN cs : cs[i] = c /\
       Save(p, value(i), As(value(i), On(v, c)), {}, IF i = 1 THEN On(v, c) ELSE {})
  /\ UNCHANGED dialog

-----------------------------------------------------------------------------
(* Planner.tsx.                                                            *)

\* commit()
Commit(p, board, v, goal, astray) ==
  Save(p, [v EXCEPT !.planned = TRUE, !.board = board], goal, astray, {})

AddCard(p, k, col) ==
  LET v == cache[p].of  value == Changed(v, k, {col}) IN
  /\ dialog[p].on = "none" /\ Fresh(k) /\ col \in Board(p, v)
  /\ Commit(p, Board(p, v), value, As(value, {k}), {})
  /\ UNCHANGED dialog

Put(v, k, in) == [v EXCEPT !.of[k].in = in]

\* Mistake: the card is not taken from the list it was in.
MoveCard_Copies(p, k, col) ==
  LET v == cache[p].of IN
  /\ dialog[p].on = "none" /\ Has(v, k) /\ col \in Board(p, v)
  /\ Commit(p, Board(p, v), [v EXCEPT !.of[k].in = @ \union {col}], As(Put(v, k, {col}), {k}), {})
  /\ UNCHANGED dialog

\* moveCard(), when it is dropped; a card that is gone by then is not.
MoveCard(p, k, col) ==
  LET v == cache[p].of IN
  /\ dialog[p].on = "none" /\ Has(v, k) /\ col \in Board(p, v)
  /\ Commit(p, Board(p, v), Put(v, k, {col}), As(Put(v, k, {col}), {k}), {})
  /\ UNCHANGED dialog

OpenCard(p, k) ==
  /\ Has(cache[p].of, k)
  /\ Open(p, [on |-> "card", item |-> k, in |-> cache[p].of.of[k].in])
  /\ UNCHANGED <<settings, cache, saves, pressed, memory>>

\* patchCard() and deleteCard(), of the list the card was in when its editor
\* was opened: the words are lost, and the card is not deleted, if it left it.
SaveCard(p) ==
  LET v == cache[p].of  d == dialog[p]
      still == IF v.of[d.item].in = d.in THEN {d.item} ELSE {} IN
  /\ d.on = "card"
  /\ \E made \in {Changed(v, d.item, d.in), [v EXCEPT !.of[d.item] = Nowhere]} :
       LET value == IF still = {} THEN v ELSE made IN
       Commit(p, Board(p, v), value, As(value, still), {d.item} \ still)
  /\ Close(p)

AddColumn(p, l) ==
  LET v == cache[p].of IN
  /\ dialog[p].on = "none" /\ l \notin settings.board
  /\ \A q \in Page : l \notin cache[q].of.board /\ \A r \in saves : l \notin r.value.board
  /\ Commit(p, Board(p, v) \union {l}, v, Nothing, {})
  /\ UNCHANGED dialog

\* renameColumn(), at every letter typed.
RenameColumn(p) ==
  /\ dialog[p].on = "none" /\ Commit(p, Board(p, cache[p].of), cache[p].of, Nothing, {})
  /\ UNCHANGED dialog

\* deleteColumn(), with its cards.
DeleteColumn(p, col) ==
  LET v == cache[p].of  cards == {k \in Card : col \in v.of[k].in}
      value == [v EXCEPT !.of = [x \in Item |-> IF x \in cards THEN Nowhere ELSE v.of[x]]] IN
  /\ dialog[p].on = "none" /\ col \in Board(p, v)
  /\ Commit(p, Board(p, v) \ {col}, value, As(value, cards), {})
  /\ UNCHANGED dialog

-----------------------------------------------------------------------------
(* Tasks.tsx and CalendarTasks.tsx.                                        *)

\* add(), toggle(), remove(), and update() at every letter typed.
TaskSaved(p, t) ==
  LET v == cache[p].of
      Saved(value) == Save(p, value, As(value, {t}), {}, {}) IN
  /\ dialog[p].on = "none"
  /\ \/ Fresh(t) /\ Saved(Changed(v, t, {"open"}))
     \/ Has(v, t) /\ Saved(Put(v, t, {"open", "done"} \ v.of[t].in))
     \/ Has(v, t) /\ Saved([v EXCEPT !.of[t] = Nowhere])
     \/ Has(v, t) /\ Saved(Changed(v, t, v.of[t].in))
  /\ UNCHANGED dialog

-----------------------------------------------------------------------------

\* The events shown on a calendar, to its owner and to those it is shared with:
\* those on it, if it is there.
Shown(v, c) == {e \in On(v, c) : c \in ToSet(Calendars(v))}

OrganizerNext ==
  \/ \E p \in Page :
       \/ Load(p) \/ CloseDialog(p)
       \/ SaveCalendars(p) \/ SaveCard(p) \/ RenameColumn(p)
       \/ \E e \in Event : OpenEvent(p, e) \/ SaveEvent(p, e) \/ DeleteEvent(p, e)
       \/ \E c \in Cal : AddCalendar(p, c) \/ DeleteCalendar(p, c)
       \/ \E k \in Card : OpenCard(p, k) \/ \E l \in Column : AddCard(p, k, l) \/ MoveCard(p, k, l)
       \/ \E l \in Column : DeleteColumn(p, l)
       \/ \E l \in List : AddColumn(p, l)
       \/ \E t \in Task : TaskSaved(p, t)
  \/ \E s \in saves : Write(s) \/ Refuse(s)

OrganizerSpec == OrganizerInit /\ [][OrganizerNext]_organizerVars

-----------------------------------------------------------------------------
(* Properties.                                                             *)

\* Every saved event is shown, on one calendar, whichever pages saved across
\* each other; but for those of the first calendar when it was deleted, and
\* those whose dialog was open while their calendar was.
EventsShown ==
  \A e \in Event \ adrift : Has(settings, e) =>
    \E c \in ToSet(Calendars(settings)) : \A k \in Cal : e \in Shown(settings, k) <=> k = c

\* An event, card or task is as the last save made it that was about it, though
\* its page saved other things since; but when a save was made from an older
\* value than it replaced, or by an editor whose item was moved or deleted.
LastMade == \A x \in Item \ free : settings.of[x] = meant[x]

=============================================================================
