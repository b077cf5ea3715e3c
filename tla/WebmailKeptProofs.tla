------------------------- MODULE WebmailKeptProofs --------------------------
(***************************************************************************)
(* Proofs about Organizer, for any calendars, cards and tasks, and about   *)
(* SecurityPage, for any browsers and addresses.                           *)
(***************************************************************************)
EXTENDS Organizer, SecurityPage, SequenceTheorems, TLAPS

(***************************************************************************)
(* Organizer.                                                              *)
(***************************************************************************)

Place == Cal \union Column \union {"open", "done"}
State == [in : SUBSET Place, words : {0, 1}]
Value == [cals : Seq(Cal), planned : BOOLEAN, board : SUBSET Column, of : [Item -> State]]
Goal == UNION {[xs -> State] : xs \in SUBSET Item}
Dialog ==
  {Closed} \union [on : {"event"}, item : Event \union {"new"}, in : SUBSET Place]
           \union [on : {"card"}, item : Card, in : SUBSET Place]

Saved ==
  [page : Page, from : {"none", "event", "card"}, value : Value, old : BOOLEAN,
   goal : Goal, astray : SUBSET Item, loose : SUBSET Event]

OrganizerType ==
  /\ settings \in Value
  /\ cache \in [Page -> [of : Value, old : BOOLEAN]]
  /\ dialog \in [Page -> Dialog]
  /\ saves \subseteq Saved
  /\ pressed \in Nat
  /\ meant \in [Item -> State] /\ free \subseteq Item /\ adrift \subseteq Event

\* An event is on one calendar; and those in `es` on one that is there.
Single(v) == \A e \in Event : Has(v, e) => \E c \in Cal : v.of[e].in = {c}
Placed(v, es) == \A e \in es : Has(v, e) => \E c \in ToSet(Calendars(v)) : v.of[e].in = {c}

\* Whatever is saved, kept or about to be saved has its events on calendars.
AllPlaced ==
  /\ Single(settings) /\ Placed(settings, Event \ adrift)
  /\ \A p \in Page : Single(cache[p].of) /\ Placed(cache[p].of, Event \ adrift)
  /\ \A s \in saves : Single(s.value) /\ Placed(s.value, Event \ (adrift \union s.loose))
  /\ \A p \in Page : dialog[p].on = "event" => \E c \in Cal : dialog[p].in = {c}

\* What is not old is what was saved last, and a save that is not old has the
\* items that it is not about as they are.
AllKnown ==
  /\ \A p \in Page : ~cache[p].old => cache[p].of = settings
  /\ \A s \in saves : \A x \in DOMAIN s.goal : s.goal[x] = s.value.of[x]
  /\ \A s \in saves : ~s.old =>
       \A x \in Item \ (DOMAIN s.goal \union s.astray) : s.value.of[x] = settings.of[x]
  /\ LastMade

OrganizerInv == OrganizerType /\ AllPlaced /\ AllKnown

LEMMA CalendarsOf ==
  ASSUME NEW v \in Value
  PROVE  Calendars(v) \in Seq(Cal) /\ Len(Calendars(v)) > 0 /\ ToSet(Calendars(v)) \subseteq Cal
BY OrganizerAssumption DEF Value, Calendars, ToSet

LEMMA EmptyValue == Empty \in Value /\ Nowhere \in State
BY DEF Empty, Value, State, Nowhere

LEMMA OrganizerInitInv == OrganizerInit => OrganizerInv
<1> SUFFICES ASSUME OrganizerInit PROVE OrganizerInv
  OBVIOUS
<1>1. OrganizerType
  BY EmptyValue DEF OrganizerInit, OrganizerType, Value, Dialog, Empty
<1>2. \A x \in Item : Empty.of[x].in = {}
  BY DEF Empty, Nowhere
<1>3. AllPlaced
  BY <1>2 DEF OrganizerInit, AllPlaced, Single, Placed, Has, Item, Closed
<1>4. AllKnown
  BY DEF OrganizerInit, AllKnown, LastMade
<1> QED
  BY <1>1, <1>3, <1>4 DEF OrganizerInv

\* A page saves a value that differs from what it has in items the save is
\* about, or that may be otherwise.
LEMMA SaveKeeps ==
  ASSUME OrganizerInv, NEW p \in Page, NEW v \in Value, NEW goal \in Goal,
         NEW astray \in SUBSET Item, NEW loose \in SUBSET Event,
         Save(p, v, goal, astray, loose),
         Single(v), Placed(v, Event \ (adrift \union loose)),
         \A x \in DOMAIN goal : goal[x] = v.of[x],
         \A x \in Item \ (DOMAIN goal \union astray) : v.of[x] = cache[p].of.of[x],
         dialog' = dialog \/ dialog' = [dialog EXCEPT ![p] = Closed]
  PROVE  OrganizerInv'
<1> DEFINE s0 == [page |-> p, from |-> dialog[p].on, value |-> v, old |-> cache[p].old,
                  goal |-> goal, astray |-> astray, loose |-> loose]
<1>1. /\ saves' = saves \union {s0} /\ pressed' = pressed + 1
      /\ UNCHANGED <<settings, cache, meant, free, adrift>>
  BY DEF Save, memory
<1>2. s0 \in Saved
  <2>1. dialog[p].on \in {"none", "event", "card"}
    BY DEF OrganizerInv, OrganizerType, Dialog, Closed
  <2>2. cache[p].old \in BOOLEAN
    BY DEF OrganizerInv, OrganizerType
  <2> QED
    BY <2>1, <2>2 DEF Saved
<1>3. s0.value = v /\ s0.goal = goal /\ s0.astray = astray /\ s0.loose = loose /\ s0.old = cache[p].old
  OBVIOUS
<1> HIDE DEF s0
<1>4. dialog' \in [Page -> Dialog]
  BY DEF OrganizerInv, OrganizerType, Dialog
<1>5. OrganizerType'
  BY <1>1, <1>2, <1>4 DEF OrganizerInv, OrganizerType
<1>6. \A q \in Page : dialog'[q] = dialog[q] \/ dialog'[q].on = "none"
  BY DEF OrganizerInv, OrganizerType, Closed
<1>7. AllPlaced'
  BY <1>1, <1>3, <1>6 DEF OrganizerInv, AllPlaced, Single, Placed, Has
<1>8. AllKnown'
  BY <1>1, <1>3 DEF OrganizerInv, OrganizerType, AllKnown, LastMade
<1> QED
  BY <1>5, <1>7, <1>8 DEF OrganizerInv

LEMMA WriteKeeps == ASSUME OrganizerInv, NEW s \in saves, Write(s) PROVE OrganizerInv'
<1>1. s \in Saved
  BY DEF OrganizerInv, OrganizerType
<1>2. /\ saves' = {[r EXCEPT !.old = TRUE] : r \in saves \ {s}}
      /\ settings' = s.value /\ adrift' = adrift \union s.loose /\ pressed' = pressed
      /\ cache' = [p \in Page |-> IF p = s.page THEN [of |-> s.value, old |-> FALSE]
                                  ELSE [cache[p] EXCEPT !.old = TRUE]]
  BY DEF Write
<1>3. saves' \subseteq Saved
  <2> SUFFICES ASSUME NEW r \in saves \ {s} PROVE [r EXCEPT !.old = TRUE] \in Saved
    BY <1>2
  <2> QED
    BY DEF OrganizerInv, OrganizerType, Saved
<1>4. \A r \in saves' : r.old = TRUE /\ \E q \in saves :
        r.value = q.value /\ r.goal = q.goal /\ r.loose = q.loose
  BY <1>2 DEF OrganizerInv, OrganizerType, Saved
<1>5. dialog' = dialog \/ dialog' = [dialog EXCEPT ![s.page] = Closed]
  BY DEF Write
<1>6. dialog' \in [Page -> Dialog] /\ \A q \in Page : dialog'[q] = dialog[q] \/ dialog'[q].on = "none"
  BY <1>1, <1>5 DEF OrganizerInv, OrganizerType, Dialog, Closed, Saved
<1>7. DOMAIN s.goal \subseteq Item /\ \A x \in DOMAIN s.goal : s.goal[x] \in State
  BY <1>1 DEF Goal, Saved
<1>8. cache' \in [Page -> [of : Value, old : BOOLEAN]]
  BY <1>1, <1>2 DEF OrganizerInv, OrganizerType, Saved
<1>9. meant' \in [Item -> State] /\ free' \subseteq Item
  BY <1>1, <1>7 DEF Write, Saved, OrganizerInv, OrganizerType
<1>10. OrganizerType'
  BY <1>1, <1>2, <1>3, <1>6, <1>8, <1>9 DEF OrganizerInv, OrganizerType, Saved
<1>11. \A p \in Page : \/ cache'[p].of = s.value /\ p = s.page
                       \/ cache'[p].of = cache[p].of /\ cache'[p].old = TRUE
  BY <1>1, <1>2 DEF OrganizerInv, OrganizerType
<1>12. AllPlaced'
  <2>1. /\ Single(s.value) /\ Placed(s.value, Event \ adrift')
        /\ \A p \in Page : Single(cache[p].of) /\ Placed(cache[p].of, Event \ adrift')
        /\ \A r \in saves : Single(r.value) /\ Placed(r.value, Event \ (adrift' \union r.loose))
    BY <1>2 DEF OrganizerInv, AllPlaced, Placed
  <2>2. \A p \in Page : Single(cache'[p].of) /\ Placed(cache'[p].of, Event \ adrift')
    BY <1>11, <2>1
  <2>3. \A r \in saves' : Single(r.value) /\ Placed(r.value, Event \ (adrift' \union r.loose))
    BY <1>4, <2>1
  <2>4. \A p \in Page : dialog'[p].on = "event" => \E c \in Cal : dialog'[p].in = {c}
    BY <1>6 DEF OrganizerInv, AllPlaced
  <2>5. Single(settings') /\ Placed(settings', Event \ adrift')
    BY <1>2, <2>1
  <2> QED
    BY <2>2, <2>3, <2>4, <2>5 DEF AllPlaced, Single, Placed, Has
<1>13. \A p \in Page : ~cache'[p].old => cache'[p].of = settings'
  BY <1>2, <1>11
<1>14. LastMade'
  <2> SUFFICES ASSUME NEW x \in Item, x \notin free' PROVE settings'.of[x] = meant'[x]
    BY DEF LastMade
  <2>1. CASE x \in DOMAIN s.goal
    BY <1>2, <2>1 DEF Write, OrganizerInv, AllKnown
  <2>2. CASE x \notin DOMAIN s.goal
    <3>1. ~s.old /\ x \notin free /\ x \notin s.astray /\ meant'[x] = meant[x]
      BY <2>2 DEF Write
    <3> QED
      BY <1>2, <2>2, <3>1 DEF OrganizerInv, AllKnown, LastMade
  <2> QED
    BY <2>1, <2>2
<1>15. \A r \in saves' : \A x \in DOMAIN r.goal : r.goal[x] = r.value.of[x]
  BY <1>4 DEF OrganizerInv, AllKnown
<1>16. AllKnown'
  BY <1>4, <1>13, <1>14, <1>15 DEF AllKnown
<1> QED
  BY <1>10, <1>12, <1>16 DEF OrganizerInv

\* The value `w` is `v`, with one item put elsewhere.
Reshape(w, v, x, in) ==
  /\ w \in Value /\ w.cals = v.cals /\ w.of[x].in = in
  /\ \A y \in Item \ {x} : w.of[y] = v.of[y]

LEMMA Reshaped ==
  ASSUME NEW v \in Value, NEW x \in Item, NEW in \in SUBSET Place
  PROVE  /\ Reshape(Changed(v, x, in), v, x, in)
         /\ Reshape(Put(v, x, in), v, x, in)
         /\ Reshape([v EXCEPT !.of[x] = Nowhere], v, x, {})
<1>1. v.of \in [Item -> State] /\ v.of[x] \in State
  BY DEF Value
<1>2. [in |-> in, words |-> IF v.of[x].in = {} THEN 0 ELSE 1 - v.of[x].words] \in State
  BY <1>1 DEF State
<1>3. Changed(v, x, in) = [v EXCEPT !.of = [v.of EXCEPT ![x] =
                            [in |-> in, words |-> IF v.of[x].in = {} THEN 0 ELSE 1 - v.of[x].words]]]
  BY DEF Changed
<1>4. [v.of[x] EXCEPT !.in = in] \in State /\ [v.of[x] EXCEPT !.in = in].in = in
  BY <1>1 DEF State
<1>5. Put(v, x, in) = [v EXCEPT !.of = [v.of EXCEPT ![x] = [v.of[x] EXCEPT !.in = in]]]
  BY DEF Put
<1>6. ASSUME NEW e \in State
      PROVE  /\ [v EXCEPT !.of = [v.of EXCEPT ![x] = e]] \in Value
             /\ [v EXCEPT !.of = [v.of EXCEPT ![x] = e]].cals = v.cals
             /\ [v EXCEPT !.of = [v.of EXCEPT ![x] = e]].of[x] = e
             /\ \A y \in Item \ {x} : [v EXCEPT !.of = [v.of EXCEPT ![x] = e]].of[y] = v.of[y]
  BY <1>1 DEF Value
<1>7. [v EXCEPT !.of[x] = Nowhere] = [v EXCEPT !.of = [v.of EXCEPT ![x] = Nowhere]]
  OBVIOUS
<1>8. Nowhere \in State /\ Nowhere.in = {}
  BY EmptyValue DEF Nowhere
<1> DEFINE e1 == [in |-> in, words |-> IF v.of[x].in = {} THEN 0 ELSE 1 - v.of[x].words]
           e2 == [v.of[x] EXCEPT !.in = in]
<1>9. e1 \in State /\ e1.in = in /\ Changed(v, x, in) = [v EXCEPT !.of = [v.of EXCEPT ![x] = e1]]
  BY <1>2, <1>3
<1>10. e2 \in State /\ e2.in = in /\ Put(v, x, in) = [v EXCEPT !.of = [v.of EXCEPT ![x] = e2]]
  BY <1>4, <1>5
<1> HIDE DEF e1, e2
<1>11. /\ Changed(v, x, in) \in Value /\ Changed(v, x, in).cals = v.cals /\ Changed(v, x, in).of[x].in = in
       /\ \A y \in Item \ {x} : Changed(v, x, in).of[y] = v.of[y]
  BY <1>9, <1>6
<1>12. /\ Put(v, x, in) \in Value /\ Put(v, x, in).cals = v.cals /\ Put(v, x, in).of[x].in = in
       /\ \A y \in Item \ {x} : Put(v, x, in).of[y] = v.of[y]
  BY <1>10, <1>6
<1> DEFINE gone == [v EXCEPT !.of[x] = Nowhere]
<1>13. gone = [v EXCEPT !.of = [v.of EXCEPT ![x] = Nowhere]]
  BY <1>7
<1> HIDE DEF gone
<1>14. /\ gone \in Value /\ gone.cals = v.cals /\ gone.of[x].in = {}
       /\ \A y \in Item \ {x} : gone.of[y] = v.of[y]
  BY <1>13, <1>6, <1>8
<1> QED
  BY <1>11, <1>12, <1>14 DEF gone, Reshape


\* What a value is to be: its items as they are in `xs`.
LEMMA AsGoal ==
  ASSUME NEW v \in Value, NEW xs \in SUBSET Item
  PROVE  /\ As(v, xs) \in Goal /\ DOMAIN As(v, xs) = xs
         /\ \A x \in xs : As(v, xs)[x] = v.of[x]
BY DEF As, Goal, Value

LEMMA NothingGoal == Nothing \in Goal /\ DOMAIN Nothing = {}
BY DEF Nothing, Goal

LEMMA CacheOf ==
  ASSUME OrganizerInv, NEW p \in Page
  PROVE  /\ cache[p].of \in Value /\ Single(cache[p].of) /\ Placed(cache[p].of, Event \ adrift)
         /\ dialog[p] \in Dialog
         /\ dialog[p].on = "event" => \E c \in Cal : dialog[p].in = {c}
BY DEF OrganizerInv, OrganizerType, AllPlaced

LEMMA ShowKeeps ==
  ASSUME OrganizerInv, NEW p \in Page, NEW d \in Dialog,
         d.on = "event" => \E c \in Cal : d.in = {c},
         dialog' = [dialog EXCEPT ![p] = d],
         UNCHANGED <<settings, cache, saves, pressed, memory>>
  PROVE  OrganizerInv'
<1>1. OrganizerType'
  BY DEF OrganizerInv, OrganizerType, memory
<1>2. \A q \in Page : dialog'[q] = dialog[q] \/ dialog'[q] = d
  BY DEF OrganizerInv, OrganizerType
<1>3. AllPlaced'
  BY <1>2 DEF OrganizerInv, AllPlaced, Single, Placed, Has, memory
<1>4. AllKnown'
  BY DEF OrganizerInv, AllKnown, LastMade, memory
<1> QED
  BY <1>1, <1>3, <1>4 DEF OrganizerInv

LEMMA DialogsKeep ==
  ASSUME OrganizerInv, NEW p \in Page,
         \/ CloseDialog(p)
         \/ \E e \in Event : OpenEvent(p, e)
         \/ \E k \in Card : OpenCard(p, k)
  PROVE  OrganizerInv'
<1>1. CASE CloseDialog(p)
  <2>1. Closed \in Dialog /\ Closed.on # "event"
    BY DEF Dialog, Closed
  <2> QED
    BY <1>1, <2>1, ShowKeeps DEF CloseDialog, Close
<1>2. ASSUME NEW e \in Event, OpenEvent(p, e) PROVE OrganizerInv'
  <2> DEFINE v == cache[p].of
             picks == {{c} : c \in ToSet(Calendars(v))}
  <2>1. \A in \in picks : \E c \in Cal : in = {c}
    BY CalendarsOf, CacheOf
  <2>2. Has(v, e) => \E c \in Cal : v.of[e].in = {c}
    BY CacheOf DEF Single
  <2>3. PICK item \in Event \union {"new"} : \E in \in picks \union (IF Has(v, e) THEN {v.of[e].in} ELSE {}) :
          dialog' = [dialog EXCEPT ![p] = [on |-> "event", item |-> item, in |-> in]]
    BY <1>2 DEF OpenEvent, Open
  <2>4. PICK in \in picks \union (IF Has(v, e) THEN {v.of[e].in} ELSE {}) :
          dialog' = [dialog EXCEPT ![p] = [on |-> "event", item |-> item, in |-> in]]
    BY <2>3
  <2>5. \E c \in Cal : in = {c}
    BY <2>1, <2>2
  <2> DEFINE d == [on |-> "event", item |-> item, in |-> in]
  <2>6. d \in Dialog
    BY <2>5 DEF Dialog, Place
  <2>7. UNCHANGED <<settings, cache, saves, pressed, memory>>
    BY <1>2 DEF OpenEvent
  <2> QED
    BY <2>4, <2>5, <2>6, <2>7, ShowKeeps
<1>3. ASSUME NEW k \in Card, OpenCard(p, k) PROVE OrganizerInv'
  <2> DEFINE d == [on |-> "card", item |-> k, in |-> cache[p].of.of[k].in]
  <2>1. d \in Dialog
    BY CacheOf DEF Dialog, Value, State, Item
  <2> QED
    BY <1>3, <2>1, ShowKeeps DEF OpenCard, Open
<1> QED
  BY <1>1, <1>2, <1>3

LEMMA LoadKeeps == ASSUME OrganizerInv, NEW p \in Page, Load(p) PROVE OrganizerInv'
<1>1. \A q \in Page : cache'[q] = cache[q] \/ cache'[q] = [of |-> settings, old |-> FALSE]
  BY DEF Load, OrganizerInv, OrganizerType
<1>2. OrganizerType'
  BY DEF Load, OrganizerInv, OrganizerType, memory
<1>3. AllPlaced'
  BY <1>1 DEF Load, OrganizerInv, AllPlaced, Single, Placed, Has, memory
<1>4. AllKnown'
  BY <1>1 DEF Load, OrganizerInv, AllKnown, LastMade, memory
<1> QED
  BY <1>2, <1>3, <1>4 DEF OrganizerInv

LEMMA RefuseKeeps == ASSUME OrganizerInv, NEW s \in saves, Refuse(s) PROVE OrganizerInv'
<1>1. OrganizerType'
  BY DEF Refuse, OrganizerInv, OrganizerType, memory
<1>2. AllPlaced'
  BY DEF Refuse, OrganizerInv, AllPlaced, Single, Placed, Has, memory
<1>3. AllKnown'
  BY DEF Refuse, OrganizerInv, AllKnown, LastMade, memory
<1> QED
  BY <1>1, <1>2, <1>3 DEF OrganizerInv

\* A change of one item that is no event leaves the events where they are.
LEMMA EventsStay ==
  ASSUME NEW v \in Value, NEW w \in Value, NEW es \in SUBSET Event, Single(v), Placed(v, es),
         ToSet(Calendars(v)) \subseteq ToSet(Calendars(w)),
         \A e \in Event : w.of[e] = v.of[e]
  PROVE  Single(w) /\ Placed(w, es)
BY DEF Single, Placed, Has

LEMMA SaveEventKeeps == ASSUME OrganizerInv, NEW p \in Page, NEW e \in Event, SaveEvent(p, e) PROVE OrganizerInv'
<1> DEFINE v == cache[p].of
           d == dialog[p]
           same == IF d.item = "new" \/ Has(v, e) THEN {e} ELSE {}
           value == IF same = {} THEN v ELSE Changed(v, e, d.in)
           loose == IF d.in \subseteq ToSet(Calendars(v)) THEN {} ELSE {e}
<1>1. v \in Value /\ Single(v) /\ Placed(v, Event \ adrift)
  BY CacheOf
<1>2. PICK c \in Cal : d.in = {c}
  BY CacheOf DEF SaveEvent
<1>3. e \in Item /\ d.in \in SUBSET Place
  BY <1>2 DEF Item, Place
<1>4. Save(p, value, As(value, same), {e} \ same, loose) /\ UNCHANGED dialog
  BY DEF SaveEvent
<1>5. /\ value \in Value /\ value.cals = v.cals /\ same \in SUBSET Item
      /\ \A x \in Item \ {e} : value.of[x] = v.of[x]
      /\ value.of[e] = v.of[e] \/ value.of[e].in = d.in
  <2> HIDE DEF v, d
  <2>1. CASE same = {}
    BY <1>1, <1>3, <2>1
  <2>2. CASE same # {}
    <3>1. value = Changed(v, e, d.in)
      BY <2>2
    <3>2. same \in SUBSET Item
      BY <1>3
    <3>3. Reshape(Changed(v, e, d.in), v, e, d.in)
      BY <1>1, <1>3, Reshaped
    <3> HIDE DEF value, same
    <3> QED
      BY <3>1, <3>2, <3>3 DEF Reshape
  <2> QED
    BY <2>1, <2>2
<1>6. same = {} => value = v
  OBVIOUS
<1>7. Calendars(value) = Calendars(v)
  BY <1>5 DEF Calendars
<1>20. e \notin loose => d.in \subseteq ToSet(Calendars(v))
  OBVIOUS
<1> HIDE DEF value
<1>8. Single(value)
  <2> SUFFICES ASSUME NEW x \in Event, Has(value, x) PROVE \E k \in Cal : value.of[x].in = {k}
    BY DEF Single
  <2>1. x \in Item
    BY DEF Item
  <2>2. value.of[x] = v.of[x] \/ value.of[x].in = {c}
    BY <1>2, <1>5, <2>1
  <2> QED
    BY <1>1, <2>2 DEF Single, Has
<1>9. Placed(value, Event \ (adrift \union loose))
  <2> SUFFICES ASSUME NEW x \in Event \ (adrift \union loose), Has(value, x)
               PROVE  \E k \in ToSet(Calendars(v)) : value.of[x].in = {k}
    BY <1>7 DEF Placed
  <2>1. x \in Item
    BY DEF Item
  <2>2. value.of[x] = v.of[x] \/ (x = e /\ value.of[x].in = {c})
    BY <1>2, <1>5, <2>1
  <2> QED
    BY <1>1, <1>2, <1>20, <2>2 DEF Placed, Has
<1>10. loose \in SUBSET Event /\ {e} \ same \in SUBSET Item
  BY <1>3
<1>11. \A x \in Item \ (same \union ({e} \ same)) : value.of[x] = v.of[x]
  BY <1>5
<1> HIDE DEF value, same, loose, v, d
<1>12. /\ As(value, same) \in Goal /\ DOMAIN As(value, same) = same
       /\ \A x \in same : As(value, same)[x] = value.of[x]
  BY <1>5, AsGoal
<1> QED
  BY <1>4, <1>5, <1>8, <1>9, <1>10, <1>11, <1>12, SaveKeeps DEF v

\* A save that is no event's: what is on no calendar changes, or nothing.
LEMMA OthersKeep ==
  ASSUME OrganizerInv, NEW p \in Page, NEW v \in Value, NEW xs \in SUBSET Item,
         NEW goal \in Goal, NEW astray \in SUBSET Item,
         Save(p, v, goal, astray, {}), DOMAIN goal = xs, \A x \in xs : goal[x] = v.of[x],
         ToSet(Calendars(cache[p].of)) \subseteq ToSet(Calendars(v)),
         \A x \in Item \ ((xs \union astray) \ Event) : v.of[x] = cache[p].of.of[x],
         dialog' = dialog \/ dialog' = [dialog EXCEPT ![p] = Closed]
  PROVE  OrganizerInv'
<1>1. /\ cache[p].of \in Value /\ Single(cache[p].of) /\ Placed(cache[p].of, Event \ adrift)
  BY CacheOf
<1>2. \A e \in Event : v.of[e] = cache[p].of.of[e]
  BY DEF Item
<1>3. Single(v) /\ Placed(v, Event \ adrift)
  BY <1>1, <1>2, EventsStay
<1>4. Placed(v, Event \ (adrift \union {}))
  BY <1>3 DEF Placed
<1>5. \A x \in DOMAIN goal : goal[x] = v.of[x]
  OBVIOUS
<1>6. \A x \in Item \ (DOMAIN goal \union astray) : v.of[x] = cache[p].of.of[x]
  OBVIOUS
<1> QED
  BY <1>3, <1>4, <1>5, <1>6, SaveKeeps

LEMMA DeleteEventKeeps == ASSUME OrganizerInv, NEW p \in Page, NEW e \in Event, DeleteEvent(p, e) PROVE OrganizerInv'
<1> DEFINE v == cache[p].of
           value == [v EXCEPT !.of[e] = Nowhere]
<1>1. v \in Value /\ Single(v) /\ Placed(v, Event \ adrift) /\ e \in Item
  BY CacheOf DEF Item
<1>2. Save(p, value, As(value, {e}), {}, {}) /\ UNCHANGED dialog
  BY DEF DeleteEvent
<1>3. {} \in SUBSET Place
  OBVIOUS
<1> HIDE DEF v
<1>4. /\ value \in Value /\ value.cals = v.cals /\ value.of[e].in = {}
      /\ \A x \in Item \ {e} : value.of[x] = v.of[x]
  BY <1>1, <1>3, Reshaped DEF Reshape
<1> HIDE DEF value
<1>5. Calendars(value) = Calendars(v)
  BY <1>4 DEF Calendars
<1>6. Single(value) /\ Placed(value, Event \ (adrift \union {}))
  BY <1>1, <1>4, <1>5 DEF Single, Placed, Has, Item
<1>7. /\ As(value, {e}) \in Goal /\ DOMAIN As(value, {e}) = {e}
      /\ \A x \in {e} : As(value, {e})[x] = value.of[x]
  BY <1>1, <1>4, AsGoal
<1> QED
  BY <1>2, <1>4, <1>6, <1>7, SaveKeeps DEF v

LEMMA AddCalendarKeeps == ASSUME OrganizerInv, NEW p \in Page, NEW c \in Cal, AddCalendar(p, c) PROVE OrganizerInv'
<1> DEFINE v == cache[p].of
           value == [v EXCEPT !.cals = Append(Calendars(v), c)]
<1>1. v \in Value
  BY CacheOf
<1>2. Save(p, value, Nothing, {}, {}) /\ UNCHANGED dialog
  BY DEF AddCalendar
<1> HIDE DEF v
<1>3. /\ Calendars(v) \in Seq(Cal) /\ Append(Calendars(v), c) \in Seq(Cal)
      /\ Append(Calendars(v), c) # <<>> /\ ToSet(Calendars(v)) \subseteq ToSet(Append(Calendars(v), c))
  BY <1>1, CalendarsOf DEF ToSet
<1>4. value \in Value /\ value.of = v.of /\ value.cals = Append(Calendars(v), c)
  BY <1>1, <1>3 DEF Value
<1> HIDE DEF value
<1>5. ToSet(Calendars(v)) \subseteq ToSet(Calendars(value))
  BY <1>3, <1>4 DEF Calendars
<1>6. Nothing \in Goal /\ DOMAIN Nothing = {} /\ \A x \in {} : Nothing[x] = value.of[x]
  BY NothingGoal
<1> QED
  BY <1>2, <1>4, <1>5, <1>6, OthersKeep DEF v

LEMMA SaveCalendarsKeeps == ASSUME OrganizerInv, NEW p \in Page, SaveCalendars(p) PROVE OrganizerInv'
<1> DEFINE v == cache[p].of
           value == [v EXCEPT !.cals = Calendars(v)]
<1>1. v \in Value
  BY CacheOf
<1>2. Save(p, value, Nothing, {}, {}) /\ UNCHANGED dialog
  BY DEF SaveCalendars
<1> HIDE DEF v
<1>3. Calendars(v) \in Seq(Cal) /\ Calendars(v) # <<>>
  BY <1>1, CalendarsOf
<1>4. value \in Value /\ value.of = v.of /\ value.cals = Calendars(v)
  BY <1>1, <1>3 DEF Value
<1> HIDE DEF value
<1>5. ToSet(Calendars(v)) \subseteq ToSet(Calendars(value))
  BY <1>3, <1>4 DEF Calendars
<1>6. Nothing \in Goal /\ DOMAIN Nothing = {} /\ \A x \in {} : Nothing[x] = value.of[x]
  BY NothingGoal
<1> QED
  BY <1>2, <1>4, <1>5, <1>6, OthersKeep DEF v

\* Taking out one place of a list leaves what is at the others.
LEMMA RemovedAt ==
  ASSUME NEW cs \in Seq(Cal), NEW i \in DOMAIN cs, Len(cs) > 1
  PROVE  /\ RemoveAt(cs, i) \in Seq(Cal) /\ RemoveAt(cs, i) # <<>>
         /\ \A j \in DOMAIN cs : j # i => cs[j] \in ToSet(RemoveAt(cs, i))
<1> DEFINE a == SubSeq(cs, 1, i - 1)
           b == SubSeq(cs, i + 1, Len(cs))
<1>1. /\ a \in Seq(Cal) /\ Len(a) = i - 1 /\ b \in Seq(Cal) /\ Len(b) = Len(cs) - i
      /\ \A j \in 1 .. i - 1 : a[j] = cs[j]
      /\ \A j \in 1 .. Len(cs) - i : b[j] = cs[i + j]
  OBVIOUS
<1>2. RemoveAt(cs, i) = a \o b
  BY DEF RemoveAt
<1> HIDE DEF a, b
<1>3. a \o b \in Seq(Cal) /\ Len(a \o b) = Len(cs) - 1
  BY <1>1
<1>4. \A j \in 1 .. i - 1 : (a \o b)[j] = cs[j]
  BY <1>1
<1>5. ASSUME NEW j \in i + 1 .. Len(cs) PROVE j - 1 \in DOMAIN (a \o b) /\ (a \o b)[j - 1] = cs[j]
  <2>1. j - 1 \in 1 .. Len(a) + Len(b) /\ j - 1 > Len(a) /\ (j - 1) - Len(a) = j - i
    BY <1>1
  <2>4. j - 1 \in Int /\ Len(a) \in Nat /\ Len(b) \in Nat
    BY <1>1
  <2>2. \A k \in 1 .. Len(a) + Len(b) : (a \o b)[k] = IF k <= Len(a) THEN a[k] ELSE b[k - Len(a)]
    BY <1>1, ConcatProperties
  <2>5. (a \o b)[j - 1] = b[(j - 1) - Len(a)]
    BY <2>1, <2>2, <2>4
  <2>3. b[j - i] = cs[i + (j - i)] /\ i + (j - i) = j
    BY <1>1
  <2> QED
    <3>1. DOMAIN (a \o b) = 1 .. Len(a) + Len(b)
      BY <1>1
    <3> QED
      BY <2>1, <2>3, <2>5, <3>1
<1>6. ASSUME NEW j \in DOMAIN cs, j # i PROVE cs[j] \in ToSet(a \o b)
  <2>1. CASE j < i
    <3>1. j \in 1 .. i - 1 /\ i - 1 <= Len(a \o b)
      BY <1>3, <2>1
    <3>2. (a \o b)[j] = cs[j] /\ j \in DOMAIN (a \o b)
      BY <1>3, <1>4, <3>1
    <3> QED
      BY <3>2 DEF ToSet
  <2>2. CASE j > i
    <3>1. j \in i + 1 .. Len(cs)
      BY <2>2
    <3> QED
      BY <1>5, <3>1 DEF ToSet
  <2> QED
    BY <1>6, <2>1, <2>2
<1> QED
  BY <1>2, <1>3, <1>6

LEMMA DeleteCalendarKeeps ==
  ASSUME OrganizerInv, NEW p \in Page, NEW c \in Cal, DeleteCalendar(p, c)
  PROVE  OrganizerInv'
<1> DEFINE v == cache[p].of
           cs == Calendars(v)
           value(i) == [v EXCEPT !.cals = RemoveAt(cs, i), !.of = Moved(v, On(v, c), {cs[1]})]
           loose(i) == IF i = 1 THEN On(v, c) ELSE {}
<1>1. v \in Value /\ Single(v) /\ Placed(v, Event \ adrift)
  BY CacheOf
<1>2. PICK i \in DOMAIN cs : cs[i] = c /\ Save(p, value(i), As(value(i), On(v, c)), {}, loose(i))
  BY DEF DeleteCalendar
<1>3. Len(cs) > 1 /\ UNCHANGED dialog
  BY DEF DeleteCalendar
<1> HIDE DEF v
<1>4. cs \in Seq(Cal)
  BY <1>1, CalendarsOf
<1>5. /\ RemoveAt(cs, i) \in Seq(Cal) /\ RemoveAt(cs, i) # <<>>
      /\ \A j \in DOMAIN cs : j # i => cs[j] \in ToSet(RemoveAt(cs, i))
  BY <1>3, <1>4, RemovedAt
<1>6. cs[1] \in Cal /\ 1 \in DOMAIN cs
  BY <1>3, <1>4
<1>7. On(v, c) \subseteq Event /\ On(v, c) \in SUBSET Item
  BY DEF On, Item
<1> DEFINE shifted == Moved(v, On(v, c), {cs[1]})
<1>8. /\ shifted \in [Item -> State]
      /\ \A x \in Item \ On(v, c) : shifted[x] = v.of[x]
      /\ \A x \in On(v, c) : shifted[x].in = {cs[1]}
  <2>1. \A x \in Item : v.of[x] \in State
    BY <1>1 DEF Value
  <2>2. {cs[1]} \in SUBSET Place
    BY <1>6 DEF Place
  <2>3. \A x \in Item : /\ [v.of[x] EXCEPT !.in = {cs[1]}] \in State
                       /\ [v.of[x] EXCEPT !.in = {cs[1]}].in = {cs[1]}
    BY <2>1, <2>2 DEF State
  <2> QED
    BY <1>7, <2>1, <2>3 DEF Moved
<1> HIDE DEF shifted
<1>9. value(i) \in Value /\ value(i).of = shifted /\ value(i).cals = RemoveAt(cs, i)
  BY <1>1, <1>5, <1>8 DEF Value, shifted
<1> HIDE DEF value
<1>10. Calendars(value(i)) = RemoveAt(cs, i)
  BY <1>5, <1>9 DEF Calendars
<1>11. Single(value(i))
  <2> SUFFICES ASSUME NEW e \in Event, Has(value(i), e) PROVE \E k \in Cal : shifted[e].in = {k}
    BY <1>9 DEF Single
  <2>1. CASE e \in On(v, c)
    BY <1>6, <1>8, <2>1
  <2>2. CASE e \notin On(v, c)
    <3>1. shifted[e] = v.of[e]
      BY <1>8, <2>2 DEF Item
    <3> QED
      BY <1>1, <1>9, <3>1 DEF Single, Has
  <2> QED
    BY <2>1, <2>2
<1>12. Placed(value(i), Event \ (adrift \union loose(i)))
  <2> SUFFICES ASSUME NEW e \in Event, e \notin adrift, e \notin loose(i), Has(value(i), e)
               PROVE  \E k \in ToSet(RemoveAt(cs, i)) : shifted[e].in = {k}
    BY <1>9, <1>10 DEF Placed
  <2>1. CASE e \in On(v, c)
    <3>1. i # 1
      BY <2>1
    <3> QED
      BY <1>5, <1>6, <1>8, <2>1, <3>1
  <2>2. CASE e \notin On(v, c)
    <3>1. shifted[e] = v.of[e] /\ e \in Event \ adrift
      BY <1>8, <2>2 DEF Item
    <3>2. PICK k \in ToSet(cs) : v.of[e].in = {k}
      BY <1>1, <1>9, <3>1 DEF Placed, Has
    <3>3. k # c
      BY <2>2, <3>2 DEF On
    <3>4. PICK j \in DOMAIN cs : cs[j] = k
      BY <3>2 DEF ToSet
    <3> QED
      BY <1>2, <1>5, <3>1, <3>2, <3>3, <3>4
  <2> QED
    BY <2>1, <2>2
<1>13. loose(i) \in SUBSET Event
  BY <1>7
<1>14. /\ As(value(i), On(v, c)) \in Goal /\ DOMAIN As(value(i), On(v, c)) = On(v, c)
       /\ \A x \in On(v, c) : As(value(i), On(v, c))[x] = value(i).of[x]
  BY <1>7, <1>9, AsGoal
<1>15. \A x \in Item \ (On(v, c) \union {}) : value(i).of[x] = v.of[x]
  BY <1>8, <1>9
<1> HIDE DEF loose, cs
<1> QED
  BY <1>2, <1>3, <1>9, <1>11, <1>12, <1>13, <1>14, <1>15, SaveKeeps DEF v

\* The planner's saves write the lists down, and leave the calendars.
LEMMA CommitKeeps ==
  ASSUME OrganizerInv, NEW p \in Page, NEW v \in Value, NEW board \in SUBSET Column,
         NEW xs \in SUBSET Item, NEW astray \in SUBSET Item,
         Commit(p, board, v, As(v, xs), astray), v.cals = cache[p].of.cals,
         \A x \in Item \ ((xs \union astray) \ Event) : v.of[x] = cache[p].of.of[x],
         dialog' = dialog \/ dialog' = [dialog EXCEPT ![p] = Closed]
  PROVE  OrganizerInv'
<1> DEFINE value == [v EXCEPT !.planned = TRUE, !.board = board]
<1>1. Save(p, value, As(v, xs), astray, {})
  BY DEF Commit
<1>2. value \in Value /\ value.of = v.of /\ value.cals = v.cals
  BY DEF Value
<1> HIDE DEF value
<1>3. As(v, xs) \in Goal /\ DOMAIN As(v, xs) = xs /\ \A x \in xs : As(v, xs)[x] = value.of[x]
  BY <1>2, AsGoal
<1>4. ToSet(Calendars(cache[p].of)) \subseteq ToSet(Calendars(value))
  BY <1>2 DEF Calendars
<1>5. \A x \in Item \ ((xs \union astray) \ Event) : value.of[x] = cache[p].of.of[x]
  BY <1>2
<1> QED
  BY <1>1, <1>2, <1>3, <1>4, <1>5, OthersKeep

LEMMA BoardOf ==
  ASSUME OrganizerInv, NEW p \in Page
  PROVE  Board(p, cache[p].of) \subseteq Column
BY CacheOf DEF Board, Value, Column

\* One item that is no event is put elsewhere, or is gone.
LEMMA OneCommitKeeps ==
  ASSUME OrganizerInv, NEW p \in Page, NEW v, NEW x \in Card, NEW in \in SUBSET Place,
         Reshape(v, cache[p].of, x, in), NEW board \in SUBSET Column,
         Commit(p, board, v, As(v, {x}), {}),
         dialog' = dialog \/ dialog' = [dialog EXCEPT ![p] = Closed]
  PROVE  OrganizerInv'
<1>1. v \in Value /\ v.cals = cache[p].of.cals
  BY DEF Reshape
<1>2. {x} \in SUBSET Item /\ x \notin Event
  BY OrganizerAssumption DEF Item
<1>3. \A y \in Item \ (({x} \union {}) \ Event) : v.of[y] = cache[p].of.of[y]
  BY <1>2 DEF Reshape
<1>4. {} \in SUBSET Item
  OBVIOUS
<1> QED
  BY <1>1, <1>2, <1>3, <1>4, CommitKeeps

LEMMA AddCardKeeps ==
  ASSUME OrganizerInv, NEW p \in Page, NEW k \in Card, NEW col \in Column, AddCard(p, k, col)
  PROVE  OrganizerInv'
<1> DEFINE v == cache[p].of
           value == Changed(v, k, {col})
<1>1. v \in Value /\ Board(p, v) \in SUBSET Column /\ k \in Item /\ {col} \in SUBSET Place
  BY CacheOf, BoardOf DEF Item, Place
<1>2. Commit(p, Board(p, v), value, As(value, {k}), {}) /\ UNCHANGED dialog
  BY DEF AddCard
<1>3. Reshape(value, v, k, {col})
  BY <1>1, Reshaped
<1> HIDE DEF value
<1> QED
  BY <1>1, <1>2, <1>3, OneCommitKeeps

LEMMA MoveCardKeeps ==
  ASSUME OrganizerInv, NEW p \in Page, NEW k \in Card, NEW col \in Column, MoveCard(p, k, col)
  PROVE  OrganizerInv'
<1> DEFINE v == cache[p].of
           value == Put(v, k, {col})
<1>1. v \in Value /\ Board(p, v) \in SUBSET Column /\ k \in Item /\ {col} \in SUBSET Place
  BY CacheOf, BoardOf DEF Item, Place
<1>2. Commit(p, Board(p, v), value, As(value, {k}), {}) /\ UNCHANGED dialog
  BY DEF MoveCard
<1>3. Reshape(value, v, k, {col})
  BY <1>1, Reshaped
<1> HIDE DEF value
<1> QED
  BY <1>1, <1>2, <1>3, OneCommitKeeps

LEMMA SaveCardKeeps == ASSUME OrganizerInv, NEW p \in Page, SaveCard(p) PROVE OrganizerInv'
<1> DEFINE v == cache[p].of
           d == dialog[p]
           still == IF v.of[d.item].in = d.in THEN {d.item} ELSE {}
<1>1. v \in Value /\ Board(p, v) \in SUBSET Column
  BY CacheOf, BoardOf
<1>2. d.item \in Card /\ d.in \in SUBSET Place
  <2>1. d \in Dialog /\ d.on = "card"
    BY CacheOf DEF SaveCard
  <2> HIDE DEF d
  <2> QED
    BY <2>1 DEF Dialog, Closed
<1>3. PICK made \in {Changed(v, d.item, d.in), [v EXCEPT !.of[d.item] = Nowhere]} :
        LET value == IF still = {} THEN v ELSE made IN
        Commit(p, Board(p, v), value, As(value, still), {d.item} \ still)
  BY DEF SaveCard
<1>4. dialog' = [dialog EXCEPT ![p] = Closed]
  BY DEF SaveCard, Close
<1>5. d.item \in Item /\ d.item \notin Event
  BY <1>2, OrganizerAssumption DEF Item
<1>6. PICK in \in SUBSET Place : Reshape(made, v, d.item, in)
  <2>1. CASE made = Changed(v, d.item, d.in)
    BY <1>1, <1>2, <1>5, <2>1, Reshaped
  <2>2. CASE made = [v EXCEPT !.of[d.item] = Nowhere]
    <3>1. {} \in SUBSET Place
      OBVIOUS
    <3>2. Reshape([v EXCEPT !.of[d.item] = Nowhere], v, d.item, {})
      BY <1>1, <1>2, <1>5, Reshaped
    <3> QED
      BY <2>2, <3>1, <3>2
  <2> QED
    BY <2>1, <2>2
<1> DEFINE value == IF still = {} THEN v ELSE made
<1>7. /\ value \in Value /\ value.cals = v.cals
      /\ \A x \in Item \ {d.item} : value.of[x] = v.of[x]
  BY <1>1, <1>6 DEF Reshape
<1>8. still \in SUBSET Item /\ {d.item} \ still \in SUBSET Item /\ d.item \in still \union ({d.item} \ still)
  BY <1>5
<1>9. Commit(p, Board(p, v), value, As(value, still), {d.item} \ still)
  BY <1>3
<1> DEFINE astray == {d.item} \ still
           board == Board(p, v)
<1> HIDE DEF value, still, d
<1>10. \A x \in Item \ ((still \union astray) \ Event) : value.of[x] = v.of[x]
  BY <1>5, <1>7, <1>8
<1>11. board \in SUBSET Column /\ astray \in SUBSET Item /\ Commit(p, board, value, As(value, still), astray)
  BY <1>1, <1>8, <1>9
<1> HIDE DEF astray, board
<1> QED
  BY <1>4, <1>7, <1>8, <1>10, <1>11, CommitKeeps

LEMMA NothingAs == ASSUME NEW v \in Value PROVE Nothing = As(v, {})
BY DEF Nothing, As

LEMMA ColumnsKeep ==
  ASSUME OrganizerInv, NEW p \in Page,
         RenameColumn(p) \/ \E l \in List : AddColumn(p, l)
  PROVE  OrganizerInv'
<1> DEFINE v == cache[p].of
<1>1. v \in Value /\ Board(p, v) \in SUBSET Column /\ As(v, {}) = Nothing
  BY CacheOf, BoardOf, NothingAs
<1>2. PICK board \in SUBSET Column : Commit(p, board, v, Nothing, {})
  BY <1>1 DEF RenameColumn, AddColumn, Column
<1>3. UNCHANGED dialog
  BY DEF RenameColumn, AddColumn
<1>4. Commit(p, board, v, As(v, {}), {})
  BY <1>1, <1>2
<1>5. {} \in SUBSET Item /\ v.cals = cache[p].of.cals
      /\ \A x \in Item \ (({} \union {}) \ Event) : v.of[x] = cache[p].of.of[x]
  OBVIOUS
<1> HIDE DEF v
<1> QED
  BY <1>1, <1>3, <1>4, <1>5, CommitKeeps

LEMMA DeleteColumnKeeps ==
  ASSUME OrganizerInv, NEW p \in Page, NEW col \in Column, DeleteColumn(p, col)
  PROVE  OrganizerInv'
<1> DEFINE v == cache[p].of
           cards == {k \in Card : col \in v.of[k].in}
           value == [v EXCEPT !.of = [x \in Item |-> IF x \in cards THEN Nowhere ELSE v.of[x]]]
<1>1. v \in Value /\ Board(p, v) \ {col} \in SUBSET Column
  BY CacheOf, BoardOf
<1>2. Commit(p, Board(p, v) \ {col}, value, As(value, cards), {}) /\ UNCHANGED dialog
  BY DEF DeleteColumn
<1>3. cards \in SUBSET Item /\ cards \intersect Event = {}
  BY OrganizerAssumption DEF Item
<1> HIDE DEF cards
<1>4. value \in Value /\ value.cals = v.cals /\ \A x \in Item \ cards : value.of[x] = v.of[x]
  BY <1>1, EmptyValue DEF Value
<1> HIDE DEF value
<1>5. {} \in SUBSET Item /\ \A x \in Item \ ((cards \union {}) \ Event) : value.of[x] = v.of[x]
  BY <1>3, <1>4
<1> QED
  BY <1>1, <1>2, <1>3, <1>4, <1>5, CommitKeeps

LEMMA TaskKeeps == ASSUME OrganizerInv, NEW p \in Page, NEW t \in Task, TaskSaved(p, t) PROVE OrganizerInv'
<1> DEFINE v == cache[p].of
           Written(value) == Save(p, value, As(value, {t}), {}, {})
<1>1. v \in Value
  BY CacheOf
<1>2. t \in Item /\ t \notin Event /\ {t} \in SUBSET Item
  BY OrganizerAssumption DEF Item
<1>3. UNCHANGED dialog
  BY DEF TaskSaved
<1>4. ASSUME NEW in \in SUBSET Place, NEW value, Reshape(value, v, t, in), Written(value) PROVE OrganizerInv'
  <2>1. value \in Value /\ value.cals = v.cals /\ \A x \in Item \ {t} : value.of[x] = v.of[x]
    BY <1>4 DEF Reshape
  <2>2. As(value, {t}) \in Goal /\ DOMAIN As(value, {t}) = {t} /\ \A x \in {t} : As(value, {t})[x] = value.of[x]
    BY <1>2, <2>1, AsGoal
  <2>3. ToSet(Calendars(cache[p].of)) \subseteq ToSet(Calendars(value))
    BY <2>1 DEF Calendars
  <2>4. {} \in SUBSET Item /\ \A x \in Item \ (({t} \union {}) \ Event) : value.of[x] = cache[p].of.of[x]
    BY <1>2, <2>1
  <2> QED
    BY <1>2, <1>3, <1>4, <2>1, <2>2, <2>3, <2>4, OthersKeep
<1>5. \/ Written(Changed(v, t, {"open"}))
      \/ Written(Put(v, t, {"open", "done"} \ v.of[t].in))
      \/ Written([v EXCEPT !.of[t] = Nowhere])
      \/ Written(Changed(v, t, v.of[t].in))
  BY DEF TaskSaved
<1> HIDE DEF Written
<1>6. /\ {"open"} \in SUBSET Place /\ {} \in SUBSET Place
      /\ {"open", "done"} \ v.of[t].in \in SUBSET Place /\ v.of[t].in \in SUBSET Place
  BY <1>1, <1>2 DEF Place, Value, State
<1> HIDE DEF v
<1>7. /\ Reshape(Changed(v, t, {"open"}), v, t, {"open"})
      /\ Reshape(Put(v, t, {"open", "done"} \ v.of[t].in), v, t, {"open", "done"} \ v.of[t].in)
      /\ Reshape([v EXCEPT !.of[t] = Nowhere], v, t, {})
      /\ Reshape(Changed(v, t, v.of[t].in), v, t, v.of[t].in)
  BY <1>1, <1>2, <1>6, Reshaped
<1> QED
  BY <1>4, <1>5, <1>6, <1>7

LEMMA OrganizerNextInv == OrganizerInv /\ [OrganizerNext]_organizerVars => OrganizerInv'
<1> SUFFICES ASSUME OrganizerInv, [OrganizerNext]_organizerVars PROVE OrganizerInv'
  OBVIOUS
<1>1. ASSUME NEW p \in Page, Load(p) \/ CloseDialog(p) \/ SaveCalendars(p) \/ SaveCard(p) \/ RenameColumn(p)
      PROVE  OrganizerInv'
  BY <1>1, LoadKeeps, DialogsKeep, SaveCalendarsKeeps, SaveCardKeeps, ColumnsKeep
<1>2. ASSUME NEW p \in Page, NEW e \in Event, OpenEvent(p, e) \/ SaveEvent(p, e) \/ DeleteEvent(p, e)
      PROVE  OrganizerInv'
  BY <1>2, DialogsKeep, SaveEventKeeps, DeleteEventKeeps
<1>3. ASSUME NEW p \in Page, NEW c \in Cal, AddCalendar(p, c) \/ DeleteCalendar(p, c)
      PROVE  OrganizerInv'
  BY <1>3, AddCalendarKeeps, DeleteCalendarKeeps
<1>4. ASSUME NEW p \in Page, NEW k \in Card, NEW l \in Column, OpenCard(p, k) \/ AddCard(p, k, l) \/ MoveCard(p, k, l)
      PROVE  OrganizerInv'
  BY <1>4, DialogsKeep, AddCardKeeps, MoveCardKeeps
<1>5. ASSUME NEW p \in Page, NEW k \in Card, OpenCard(p, k) PROVE OrganizerInv'
  BY <1>5, DialogsKeep
<1>6. ASSUME NEW p \in Page, NEW l \in Column, DeleteColumn(p, l) PROVE OrganizerInv'
  BY <1>6, DeleteColumnKeeps
<1>7. ASSUME NEW p \in Page, NEW l \in List, AddColumn(p, l) PROVE OrganizerInv'
  BY <1>7, ColumnsKeep
<1>8. ASSUME NEW p \in Page, NEW t \in Task, TaskSaved(p, t) PROVE OrganizerInv'
  BY <1>8, TaskKeeps
<1>9. ASSUME NEW s \in saves, Write(s) \/ Refuse(s) PROVE OrganizerInv'
  BY <1>9, WriteKeeps, RefuseKeeps
<1>10. CASE UNCHANGED organizerVars
  <2>1. OrganizerType'
    BY <1>10 DEF organizerVars, OrganizerInv, OrganizerType
  <2>2. AllPlaced'
    BY <1>10 DEF organizerVars, OrganizerInv, AllPlaced, Single, Placed, Has
  <2>3. AllKnown'
    BY <1>10 DEF organizerVars, OrganizerInv, AllKnown, LastMade
  <2> QED
    BY <2>1, <2>2, <2>3 DEF OrganizerInv
<1> QED
  BY <1>1, <1>2, <1>3, <1>4, <1>5, <1>6, <1>7, <1>8, <1>9, <1>10 DEF OrganizerNext

\* The invariant of the calendar, the planner and the tasks: every copy of the
\* preferences, saved, loaded or on its way, has its events on calendars it has.
THEOREM OrganizerInvariant == OrganizerSpec => []OrganizerInv
BY OrganizerInitInv, OrganizerNextInv, PTL DEF OrganizerSpec

\* Every saved event is shown, on one calendar, but for those of a first calendar
\* that was deleted and those saved onto a calendar that is gone.
THEOREM EventsAreShown == OrganizerSpec => []EventsShown
<1>1. OrganizerInv => EventsShown
  <2> SUFFICES ASSUME OrganizerInv, NEW e \in Event \ adrift, Has(settings, e)
               PROVE  \E c \in ToSet(Calendars(settings)) : \A k \in Cal : e \in Shown(settings, k) <=> k = c
    BY DEF EventsShown
  <2>1. PICK c \in ToSet(Calendars(settings)) : settings.of[e].in = {c}
    BY DEF OrganizerInv, AllPlaced, Placed
  <2> QED
    BY <2>1 DEF Shown, On
<1> QED
  BY <1>1, OrganizerInvariant, PTL

\* An item is as the last save that was about it made it, whatever was saved with
\* it since, if no save was made from an older value than it replaced.
THEOREM LastMadeStays == OrganizerSpec => []LastMade
<1>1. OrganizerInv => LastMade
  BY DEF OrganizerInv, AllKnown
<1> QED
  BY <1>1, OrganizerInvariant, PTL

-----------------------------------------------------------------------------
(***************************************************************************)
(* SecurityPage.                                                           *)
(***************************************************************************)

USE DEF prefsRow

Kinds == {"me", "contact", "options", "register", "remove", "disable", "setup", "verify",
          "emailOff", "emailSetup", "emailVerify"}
Address == Contact \union {"none"}
Profile == [totp : BOOLEAN, email : BOOLEAN, contact : Address]

Rows == [contact : Address, on : BOOLEAN]

Wires == [by : Browser, kind : Kinds, n : Number, to : Address,
          at : {"asked", "proved", "read", "ok", "lost", "refused"}, left : BOOLEAN,
          base : Profile, row : Rows]
Tabs == [at : {"login", "factor", "mail", "security"}, profile : Profile, secret : Number,
         sent : Address, methods : SUBSET {"passkey", "totp", "email"},
         counted : BOOLEAN, nag : BOOLEAN]

SecuritySorts ==
  /\ totp \in [secret : Number, on : BOOLEAN] /\ contact \in Address
  /\ emailOn \in BOOLEAN /\ moved \in BOOLEAN /\ copies \in [Writer -> Rows]
  /\ testCode \in [n : Number, to : Address]
  /\ keys \subseteq Number /\ ceremony \in Number /\ presses \in Number
  /\ visits \in [Browser -> 0 .. NagEvery - 1]
  /\ unsure \in [Browser -> SUBSET Fields]
  /\ wires \subseteq Wires
  /\ tab \in [Browser -> Tabs]

\* What the email factor rests on: a code is for the address there is, and every
\* row that may yet be written has the factor on with an address a code came back
\* from only.
RowProved(row) == row.on => row.contact \in proved

AddressProved ==
  ~moved => /\ testCode # NoCode => testCode.to = contact
            /\ Proving \/ emailOn => contact \in proved
            /\ \A v \in Writer : RowProved(copies[v])
            /\ \A w \in wires : w.at = "read" =>
                 /\ RowProved(w.row)
                 /\ w.kind = "emailVerify" => w.row.contact \in proved

\* The profile is asked for once, by a browser in the app.
MeAskedOnce ==
  \A v \in wires : v.kind = "me" =>
    InApp(v.by) /\ \A w \in wires : w.kind = "me" /\ w.by = v.by => w = v

\* What a request gives the field it touches.
Gives(w) == [totp |-> w.kind = "verify", email |-> w.kind = "emailVerify", contact |-> w.to]

AsksMe(b) == \E w \in wires : w.by = b /\ w.kind = "me"
Touching(b, f) == {w \in wires : w.by = b /\ f \in Touches(w.kind)}

\* A field that is not unsure: one request at most is about it, and none while the
\* profile is asked for; what is on its way is what the server has, and so is what
\* is shown once it came.
Sure(b, f) ==
  /\ \A v, w \in Touching(b, f) : v = w
  /\ AsksMe(b) => Touching(b, f) = {}
  /\ \A w \in wires : w.by = b /\ w.kind = "me" /\ w.at = "ok" => w.base[f] = Known[f]
  /\ \A w \in Touching(b, f) : w.at = "ok" => Gives(w)[f] = Known[f]
  /\ InApp(b) /\ ~AsksMe(b) =>
       /\ (\A w \in Touching(b, f) : w.at \notin {"ok", "lost"}) => tab[b].profile[f] = Known[f]
       /\ (\E w \in Touching(b, f) : w.kind = "setup") => tab[b].profile[f] = FALSE

SecurityInv ==
  /\ SecuritySorts /\ AddressProved /\ MeAskedOnce
  /\ \A b \in Browser : \A f \in Fields \ unsure[b] : Sure(b, f)

-----------------------------------------------------------------------------
(* Types.                                                                  *)

LEMMA WireType ==
  ASSUME NEW b \in Browser, NEW kind \in Kinds, NEW n \in Number, NEW to \in Address
  PROVE  Wire(b, kind, n, to) \in Wires
BY DEF Wire, Wires, Bare, Profile, Address, Rows, NoRow

LEMMA BareType == Bare \in Profile /\ SignedOut \in Tabs
BY SecurityAssumption DEF Bare, Profile, SignedOut, Tabs, Address, Number

LEMMA KnownType == SecuritySorts => Known \in Profile
BY DEF SecuritySorts, Known, Profile

LEMMA RowType == SecuritySorts => Row \in Rows /\ NoRow \in Rows
BY DEF SecuritySorts, Row, NoRow, Rows, Address

\* The addresses, when no request goes on with the row.
LEMMA ProvedQuiet ==
  ASSUME AddressProved, UNCHANGED <<contact, emailOn, copies, proved, moved>>,
         testCode' \in {testCode, NoCode},
         \A v \in wires' : \/ v.at \notin {"proved", "read"}
                          \/ \E w \in wires : v.at = w.at /\ v.row = w.row /\ v.kind = w.kind
  PROVE  AddressProved'
<1>1. \A row : RowProved(row)' <=> RowProved(row)
  BY DEF RowProved
<1>2. Proving' => Proving
  BY DEF Proving
<1> QED
  BY <1>1, <1>2 DEF AddressProved

LEMMA TouchesFields == \A kind \in Kinds : Touches(kind) \subseteq Fields /\ FieldOf(kind) \subseteq Touches(kind)
BY DEF Kinds, Touches, FieldOf, Fields

LEMMA PatchedHas ==
  ASSUME NEW p \in Profile, NEW w \in Wires
  PROVE  /\ Patched(p, w) \in Profile
         /\ \A f \in Fields : Patched(p, w)[f] = IF f \in FieldOf(w.kind) THEN Gives(w)[f] ELSE p[f]
<1>1. p = [totp |-> p.totp, email |-> p.email, contact |-> p.contact]
  BY DEF Profile
<1>2. CASE w.kind = "contact"
  <2>1. Patched(p, w) = [totp |-> p.totp, email |-> p.email, contact |-> w.to] /\ FieldOf(w.kind) = {"contact"}
    BY <1>1, <1>2 DEF Patched, FieldOf
  <2> QED
    BY <1>1, <2>1 DEF Profile, Wires, Fields, Gives
<1>3. CASE w.kind \in {"verify", "disable"}
  <2>1. Patched(p, w) = [totp |-> w.kind = "verify", email |-> p.email, contact |-> p.contact]
        /\ FieldOf(w.kind) = {"totp"}
    BY <1>1, <1>3 DEF Patched, FieldOf
  <2> QED
    BY <1>1, <2>1 DEF Profile, Wires, Fields, Gives
<1>4. CASE w.kind \in {"emailVerify", "emailOff"}
  <2>1. Patched(p, w) = [totp |-> p.totp, email |-> w.kind = "emailVerify", contact |-> p.contact]
        /\ FieldOf(w.kind) = {"email"}
    BY <1>1, <1>4 DEF Patched, FieldOf
  <2> QED
    BY <1>1, <2>1 DEF Profile, Wires, Fields, Gives
<1>5. CASE w.kind \notin {"contact", "verify", "disable", "emailVerify", "emailOff"}
  <2>1. Patched(p, w) = p /\ FieldOf(w.kind) = {}
    BY <1>5 DEF Patched, FieldOf
  <2> QED
    BY <2>1
<1> QED
  BY <1>2, <1>3, <1>4, <1>5

\* What the app shows keeps its profile.
LEMMA ShowHas ==
  ASSUME SecuritySorts, NEW b \in Browser, NEW shown \in Tabs, Show(b, shown)
  PROVE  /\ tab' \in [Browser -> Tabs] /\ visits' \in [Browser -> 0 .. NagEvery - 1]
         /\ tab'[b].at = shown.at /\ tab'[b].profile = shown.profile
         /\ \A c \in Browser \ {b} : tab'[c] = tab[c]
<1> DEFINE n == (visits[b] + 1) % NagEvery
           more == [shown EXCEPT !.counted = TRUE, !.nag = @ \/ n = 0]
<1>1. n \in 0 .. NagEvery - 1
  BY SecurityAssumption DEF SecuritySorts
<1>2. more \in Tabs /\ more.at = shown.at /\ more.profile = shown.profile
  <2>1. (shown.nag \/ n = 0) \in BOOLEAN
    OBVIOUS
  <2> QED
    BY <2>1 DEF Tabs
<1>3. \/ tab' = [tab EXCEPT ![b] = more] /\ visits' = [visits EXCEPT ![b] = n]
      \/ tab' = [tab EXCEPT ![b] = shown] /\ visits' = visits
  BY DEF Show
<1>4. tab \in [Browser -> Tabs] /\ visits \in [Browser -> 0 .. NagEvery - 1]
  BY DEF SecuritySorts
<1> HIDE DEF n, more
<1>5. CASE tab' = [tab EXCEPT ![b] = more] /\ visits' = [visits EXCEPT ![b] = n]
  BY <1>1, <1>2, <1>4, <1>5
<1>6. CASE tab' = [tab EXCEPT ![b] = shown] /\ visits' = visits
  BY <1>4, <1>6
<1> QED
  BY <1>3, <1>5, <1>6


\* Leaving a page, a request is as it was but for where its answer goes.
Leave(b, w) ==
  IF w.by = b /\ w.kind # "me" /\ ~w.left THEN [w EXCEPT !.left = TRUE, !.base = tab[b].profile] ELSE w

LEMMA LeaveHas ==
  ASSUME SecuritySorts, NEW b \in Browser
  PROVE  /\ Left(b) = {Leave(b, w) : w \in wires}
         /\ \A w \in wires : /\ Leave(b, w) \in Wires /\ Leave(b, w).by = w.by
                             /\ Leave(b, w).kind = w.kind /\ Leave(b, w).at = w.at
                             /\ Leave(b, w).n = w.n /\ Leave(b, w).to = w.to
                             /\ Leave(b, w).row = w.row
                             /\ w.kind = "me" => Leave(b, w) = w
<1>1. Left(b) = {Leave(b, w) : w \in wires}
  BY DEF Left, Leave
<1>2. ASSUME NEW w \in wires
      PROVE  /\ Leave(b, w) \in Wires /\ Leave(b, w).by = w.by
             /\ Leave(b, w).kind = w.kind /\ Leave(b, w).at = w.at
             /\ Leave(b, w).n = w.n /\ Leave(b, w).to = w.to /\ Leave(b, w).row = w.row
             /\ w.kind = "me" => Leave(b, w) = w
  <2>1. w \in Wires /\ tab[b].profile \in Profile
    BY DEF SecuritySorts, Tabs
  <2> QED
    BY <2>1 DEF Leave, Wires
<1> QED
  BY <1>1, <1>2

LEMMA EnterTypes ==
  ASSUME SecuritySorts, NEW b \in Browser, Enter(b)
  PROVE  /\ tab' \in [Browser -> Tabs] /\ visits' \in [Browser -> 0 .. NagEvery - 1]
         /\ unsure' \in [Browser -> SUBSET Fields] /\ wires' \subseteq Wires
         /\ \A c \in Browser \ {b} : tab'[c] = tab[c]
<1> DEFINE shown == [tab[b] EXCEPT !.at = "mail", !.profile = Bare, !.methods = {}]
           touched == UNION {Touches(w.kind) : w \in {v \in wires : v.by = b}}
<1>1. shown \in Tabs
  <2>1. tab[b] \in Tabs
    BY DEF SecuritySorts
  <2> QED
    BY <2>1, BareType DEF Tabs
<1>2. Show(b, shown)
  BY DEF Enter
<1>3. touched \subseteq Fields
  BY TouchesFields DEF SecuritySorts, Wires
<1>4. unsure' = [unsure EXCEPT ![b] = touched]
  BY DEF Enter
<1>5. Wire(b, "me", 0, "none") \in Wires
  BY WireType, SecurityAssumption DEF Kinds, Number, Address
<1> HIDE DEF shown, touched
<1>6. unsure' \in [Browser -> SUBSET Fields]
  BY <1>3, <1>4 DEF SecuritySorts
<1>7. wires' \subseteq Wires
  BY <1>5 DEF Enter, SecuritySorts
<1> QED
  BY <1>1, <1>2, <1>6, <1>7, ShowHas

LEMMA PressTypes ==
  ASSUME SecuritySorts, NEW b \in Browser, PressButton(b)
  PROVE  SecuritySorts'
<1> DEFINE cards == ContactCard(b) \union PasskeysCard(b) \union AuthenticatorCard(b) \union EmailCard(b)
           mine == {w \in wires : w.by = b}
           added(kind) == UNION {IF w.kind = "me" THEN Touches(kind)
                                 ELSE Touches(w.kind) \intersect Touches(kind) : w \in mine}
<1>1. tab[b] \in Tabs /\ 0 \in Number /\ presses + 1 \in Number
  BY SecurityAssumption DEF SecuritySorts, PressButton, Number
<1>2. PICK button \in cards :
        /\ wires' = wires \union {Wire(b, button.kind, button.n, button.to)}
        /\ unsure' = [unsure EXCEPT ![b] = @ \union added(button.kind)]
  BY DEF PressButton
<1>3. button.kind \in Kinds /\ button.n \in Number /\ button.to \in Address
  <2>1. CASE button \in ContactCard(b)
    BY <1>1, <2>1 DEF ContactCard, Button, Kinds, Address
  <2>2. CASE button \in PasskeysCard(b)
    BY <1>1, <2>2 DEF PasskeysCard, Button, Kinds, Address, SecuritySorts
  <2>3. CASE button \in AuthenticatorCard(b)
    BY <1>1, <2>3 DEF AuthenticatorCard, Button, Kinds, Address, Tabs
  <2>4. CASE button \in EmailCard(b)
    BY <1>1, <2>4 DEF EmailCard, Button, Kinds, Address, SecuritySorts
  <2> QED
    BY <2>1, <2>2, <2>3, <2>4
<1>4. Wire(b, button.kind, button.n, button.to) \in Wires
  BY <1>3, WireType
<1>5. added(button.kind) \subseteq Fields
  BY <1>3, TouchesFields
<1>6. wires' \subseteq Wires
  BY <1>2, <1>4 DEF SecuritySorts
<1> HIDE DEF added
<1>7. unsure' \in [Browser -> SUBSET Fields]
  BY <1>2, <1>5 DEF SecuritySorts
<1> QED
  BY <1>1, <1>6, <1>7 DEF PressButton, SecuritySorts, codeVars, passkeys

-----------------------------------------------------------------------------
(* What the server does.                                                   *)

Served(w) ==
  \/ ServeSetup(w) \/ ServeVerify(w) \/ ServeDisable(w) \/ ServeContact(w)
  \/ ServeEmailSetup(w) \/ ServeEmail(w) \/ ServePasskey(w)

\* A request gives the field it touches its value.
LEMMA ServedGives ==
  ASSUME SecuritySorts, NEW w \in wires, Served(w)
  PROVE  /\ Did(w) /\ UNCHANGED <<tab, visits, presses>> /\ w.kind # "me"
         /\ w.at \in {"asked", "read"}
         /\ \A f \in Touches(w.kind) : Known'[f] = Gives(w)[f]
<1>0. totp \in [secret : Number, on : BOOLEAN]
  BY DEF SecuritySorts
<1>1. CASE ServeSetup(w)
  <2>1. w.kind = "setup" /\ Touches(w.kind) = {"totp"} /\ w.at = "asked"
    BY <1>1 DEF ServeSetup, Touches, FieldOf
  <2>2. totp'.on = FALSE
    BY <1>0, <1>1 DEF ServeSetup
  <2>3. Did(w) /\ UNCHANGED <<tab, visits, presses>>
    BY <1>1 DEF ServeSetup, browserVars
  <2>4. Gives(w)["totp"] = FALSE
    BY <2>1 DEF Gives
  <2>5. Known'["totp"] = FALSE
    BY <2>2 DEF Known
  <2> QED
    BY <2>1, <2>3, <2>4, <2>5
<1>2. CASE ServeVerify(w)
  <2>1. w.kind = "verify" /\ Touches(w.kind) = {"totp"} /\ w.at = "asked"
    BY <1>2 DEF ServeVerify, Touches, FieldOf
  <2>2. totp'.on = TRUE
    BY <1>0, <1>2 DEF ServeVerify
  <2>3. Did(w) /\ UNCHANGED <<tab, visits, presses>>
    BY <1>2 DEF ServeVerify, browserVars
  <2>4. Gives(w)["totp"] = TRUE
    BY <2>1 DEF Gives
  <2>5. Known'["totp"] = TRUE
    BY <2>2 DEF Known
  <2> QED
    BY <2>1, <2>3, <2>4, <2>5
<1>3. CASE ServeDisable(w)
  <2>1. w.kind = "disable" /\ Touches(w.kind) = {"totp"} /\ w.at = "asked"
    BY <1>3 DEF ServeDisable, Touches, FieldOf
  <2>2. totp'.on = FALSE
    BY <1>0, <1>3 DEF ServeDisable
  <2>3. Did(w) /\ UNCHANGED <<tab, visits, presses>>
    BY <1>3 DEF ServeDisable, browserVars
  <2>4. Gives(w)["totp"] = FALSE
    BY <2>1 DEF Gives
  <2>5. Known'["totp"] = FALSE
    BY <2>2 DEF Known
  <2> QED
    BY <2>1, <2>3, <2>4, <2>5
<1>4. CASE ServeContact(w)
  <2>1. w.kind = "contact" /\ Touches(w.kind) = {"contact"} /\ w.at = "read"
    BY <1>4 DEF ServeContact, Touches, FieldOf
  <2>2. contact' = w.to
    BY <1>4 DEF ServeContact, SetRow
  <2>3. Did(w) /\ UNCHANGED <<tab, visits, presses>>
    BY <1>4 DEF ServeContact, browserVars
  <2> QED
    BY <2>1, <2>2, <2>3 DEF Known, Gives
<1>5. CASE ServeEmailSetup(w)
  <2>1. w.kind = "emailSetup" /\ Touches(w.kind) = {} /\ w.at = "read"
    BY <1>5 DEF ServeEmailSetup, Touches, FieldOf
  <2>2. Did(w) /\ UNCHANGED <<tab, visits, presses>>
    BY <1>5 DEF ServeEmailSetup, browserVars
  <2> QED
    BY <2>1, <2>2
<1>6. CASE ServeEmail(w)
  <2>1. w.kind \in {"emailVerify", "emailOff"} /\ Touches(w.kind) = {"email"} /\ w.at = "read"
    BY <1>6 DEF ServeEmail, Touches, FieldOf
  <2>2. emailOn' = (w.kind = "emailVerify")
    BY <1>6 DEF ServeEmail, SetRow
  <2>3. Did(w) /\ UNCHANGED <<tab, visits, presses>>
    BY <1>6 DEF ServeEmail, browserVars
  <2>4. Known'["email"] = Gives(w)["email"]
    BY <2>2 DEF Known, Gives
  <2> QED
    BY <2>1, <2>3, <2>4
<1>7. CASE ServePasskey(w)
  <2>1. w.kind \in {"options", "register", "remove"} /\ Touches(w.kind) = {} /\ w.at = "asked"
    BY <1>7 DEF ServePasskey, Touches, FieldOf
  <2>2. Did(w) /\ UNCHANGED <<tab, visits, presses>>
    BY <1>7 DEF ServePasskey, browserVars
  <2> QED
    BY <2>1, <2>2
<1> QED
  BY <1>1, <1>2, <1>3, <1>4, <1>5, <1>6, <1>7 DEF Served

LEMMA DidTypes ==
  ASSUME SecuritySorts, NEW w \in wires, Did(w)
  PROVE  /\ wires' \subseteq Wires /\ unsure' \in [Browser -> SUBSET Fields]
         /\ \E at \in {"ok", "lost"} : Becomes(w, at)
<1>1. w \in Wires /\ Turned \subseteq Fields
  BY DEF SecuritySorts, Turned
<1>2. unsure' \in [Browser -> SUBSET Fields]
  BY <1>1 DEF Did, SecuritySorts
<1>3. PICK at \in {"ok", "lost"} : Becomes(w, at)
  BY DEF Did
<1>4. [w EXCEPT !.at = at] \in Wires
  BY <1>1 DEF Wires
<1> QED
  BY <1>2, <1>3, <1>4 DEF Becomes, SecuritySorts

LEMMA ServedTypes ==
  ASSUME SecuritySorts, NEW w \in wires, Served(w)
  PROVE  SecuritySorts'
<1>0. w \in Wires /\ totp \in [secret : Number, on : BOOLEAN] /\ 0 \in Number
  BY SecurityAssumption DEF SecuritySorts, Number
<1>1. Did(w) /\ UNCHANGED <<tab, visits, presses>>
  BY ServedGives
<1>9. wires' \subseteq Wires /\ unsure' \in [Browser -> SUBSET Fields]
  BY <1>1, DidTypes
<1>2. totp' \in [secret : Number, on : BOOLEAN]
  <2>1. totp' = [secret |-> w.n, on |-> FALSE] \/ totp' = [totp EXCEPT !.on = TRUE]
        \/ totp' = [secret |-> 0, on |-> FALSE] \/ totp' = totp
    BY DEF Served, ServeSetup, ServeVerify, ServeDisable, ServeContact, ServeEmailSetup,
           ServeEmail, ServePasskey
  <2>2. w.n \in Number
    BY <1>0 DEF Wires
  <2>3. CASE totp' = [totp EXCEPT !.on = TRUE]
    BY <1>0, <2>3
  <2>4. CASE totp' = totp
    BY <1>0, <2>4
  <2>5. \A n \in Number : [secret |-> n, on |-> FALSE] \in [secret : Number, on : BOOLEAN]
    OBVIOUS
  <2> QED
    BY <1>0, <2>1, <2>2, <2>3, <2>4, <2>5
<1>8. w.row.contact \in Address /\ w.row.on \in BOOLEAN /\ w.to \in Address /\ w.n \in Number
  BY <1>0 DEF Wires, Rows
<1>3. contact' \in Address /\ emailOn' \in BOOLEAN /\ copies' = copies
  <2>1. CASE ServeContact(w) \/ ServeEmail(w)
    BY <1>8, <2>1 DEF ServeContact, ServeEmail, SetRow
  <2>2. CASE ServeSetup(w) \/ ServeVerify(w) \/ ServeDisable(w) \/ ServeEmailSetup(w) \/ ServePasskey(w)
    BY <2>2 DEF ServeSetup, ServeVerify, ServeDisable, ServeEmailSetup, ServePasskey, SecuritySorts
  <2> QED
    BY <2>1, <2>2 DEF Served
<1>5. moved' \in BOOLEAN
  BY <1>0 DEF Served, ServeSetup, ServeVerify, ServeDisable, ServeContact, ServeEmailSetup, SetRow,
              ServeEmail, ServePasskey, SecuritySorts, codeVars
<1>6. testCode' \in [n : Number, to : Address]
  <2>1. testCode' = testCode \/ testCode' = [n |-> w.n, to |-> w.row.contact]
    BY DEF Served, ServeSetup, ServeVerify, ServeDisable, ServeContact, ServeEmailSetup, ServeEmail,
           ServePasskey, codeVars
  <2>2. [n |-> w.n, to |-> w.row.contact] \in [n : Number, to : Address]
    BY <1>8
  <2>3. testCode \in [n : Number, to : Address]
    BY DEF SecuritySorts
  <2> QED
    BY <2>1, <2>2, <2>3
<1>7. keys' \subseteq Number /\ ceremony' \in Number
  BY <1>0 DEF Served, ServeSetup, ServeVerify, ServeDisable, ServeContact, ServeEmailSetup,
              ServeEmail, ServePasskey, SecuritySorts, passkeys, Wires
<1> QED
  BY <1>1, <1>2, <1>3, <1>5, <1>6, <1>7, <1>9 DEF SecuritySorts

\* A request that is done needs the row no more.
LEMMA DidWires ==
  ASSUME SecuritySorts, NEW w \in wires, Did(w)
  PROVE  \A v \in wires' : v \in wires \/ v.at \in {"ok", "lost"}
<1>1. PICK at \in {"ok", "lost"} : Becomes(w, at)
  BY DEF Did
<1>2. [w EXCEPT !.at = at].at = at
  BY DEF SecuritySorts, Wires
<1> QED
  BY <1>1, <1>2 DEF Becomes

\* The row is written: what is kept of the proofs.
LEMMA SetRowProves ==
  ASSUME AddressProved, NEW now \in Rows, NEW under \in BOOLEAN, SetRow(now, under),
         moved \in BOOLEAN, UNCHANGED <<copies, testCode, proved>>, under \/ RowProved(now),
         \A v \in wires' : v \in wires \/ v.at \in {"ok", "lost"}
  PROVE  AddressProved'
<1> SUFFICES ASSUME ~moved' PROVE AddressProved'
  BY DEF AddressProved
<1>1. /\ ~moved /\ ~under /\ contact' = now.contact /\ emailOn' = now.on
      /\ contact' # contact => testCode = NoCode /\ ~Proving
  BY DEF SetRow
<1>2. Proving' => Proving
  BY DEF Proving
<1>3. \A row : RowProved(row)' <=> RowProved(row)
  BY DEF RowProved
<1>4. emailOn' => contact' \in proved
  BY <1>1 DEF RowProved
<1> QED
  BY <1>1, <1>2, <1>3, <1>4 DEF AddressProved

LEMMA ServedProves ==
  ASSUME SecuritySorts, AddressProved, NEW w \in wires, Served(w)
  PROVE  AddressProved'
<1>1. /\ w \in Wires /\ w.row \in Rows /\ w.to \in Address /\ moved \in BOOLEAN
      /\ \A v \in wires' : v \in wires \/ v.at \in {"ok", "lost"}
  BY ServedGives, DidWires DEF SecuritySorts, Wires
<1>2. w.at = "read" /\ ~moved =>
        RowProved(w.row) /\ (w.kind = "emailVerify" => w.row.contact \in proved)
  BY DEF AddressProved
<1>3. CASE ServeContact(w)
  <2> DEFINE now == [contact |-> w.to, on |-> w.row.on]
             under == w.row.on /\ w.to # w.row.contact
  <2>1. now \in Rows /\ under \in BOOLEAN
    BY <1>1 DEF Rows
  <2>2. CASE moved
    BY <1>3, <2>2 DEF ServeContact, SetRow, AddressProved
  <2>3. CASE ~moved
    <3>1. under \/ RowProved(now)
      BY <1>2, <1>3, <2>3 DEF ServeContact, RowProved
    <3>2. SetRow(now, under) /\ UNCHANGED <<copies, testCode, proved>>
      BY <1>3 DEF ServeContact
    <3> HIDE DEF now, under
    <3> QED
      BY <1>1, <2>1, <3>1, <3>2, SetRowProves
  <2> QED
    BY <1>1, <2>2, <2>3
<1>4. CASE ServeEmail(w)
  <2> DEFINE now == [contact |-> w.row.contact, on |-> w.kind = "emailVerify"]
  <2>1. now \in Rows
    BY <1>1 DEF Rows
  <2>2. CASE moved
    BY <1>4, <2>2 DEF ServeEmail, SetRow, AddressProved
  <2>3. CASE ~moved
    <3>1. RowProved(now)
      BY <1>2, <1>4, <2>3 DEF ServeEmail, RowProved
    <3>2. SetRow(now, FALSE) /\ UNCHANGED <<copies, testCode, proved>>
      BY <1>4 DEF ServeEmail
    <3> HIDE DEF now
    <3> QED
      BY <1>1, <2>1, <3>1, <3>2, SetRowProves
  <2> QED
    BY <1>1, <2>2, <2>3
<1>5. CASE ServeEmailSetup(w)
  <2>1. /\ UNCHANGED <<contact, emailOn, copies, proved>>
        /\ ~moved' => ~moved /\ testCode'.to = contact
    BY <1>1, <1>5 DEF ServeEmailSetup
  <2>2. Proving' => Proving
    BY <1>1 DEF Proving
  <2>3. \A row : RowProved(row)' <=> RowProved(row)
    BY <2>1 DEF RowProved
  <2> QED
    BY <1>1, <2>1, <2>2, <2>3 DEF AddressProved
<1>6. CASE ServeSetup(w) \/ ServeVerify(w) \/ ServeDisable(w) \/ ServePasskey(w)
  <2>1. UNCHANGED <<contact, emailOn, copies, testCode, proved, moved>>
    BY <1>6 DEF ServeSetup, ServeVerify, ServeDisable, ServePasskey, codeVars
  <2> QED
    BY <1>1, <2>1, ProvedQuiet
<1> QED
  BY <1>3, <1>4, <1>5, <1>6 DEF Served

-----------------------------------------------------------------------------
(* The fields that are not unsure.                                         *)

\* What is another browser's leaves them.
LEMMA SureQuiet ==
  ASSUME NEW b \in Browser, NEW f \in Fields, Sure(b, f), Known'[f] = Known[f], tab'[b] = tab[b],
         \A w : (w \in wires' /\ w.by = b) <=> (w \in wires /\ w.by = b)
  PROVE  Sure(b, f)'
<1>1. Touching(b, f)' = Touching(b, f)
  BY DEF Touching
<1>2. (AsksMe(b)' <=> AsksMe(b)) /\ (InApp(b)' <=> InApp(b))
  BY DEF AsksMe, InApp
<1>3. \A w \in wires' : w.by = b /\ w.kind = "me" /\ w.at = "ok" => w.base[f] = Known'[f]
  BY DEF Sure
<1>4. \A w \in Touching(b, f) : Gives(w)' = Gives(w)
  BY DEF Gives
<1> QED
  BY <1>1, <1>2, <1>3, <1>4 DEF Sure

LEMMA GivesByKind ==
  ASSUME NEW v, NEW w, v.kind = w.kind, v.to = w.to
  PROVE  Gives(v) = Gives(w)
BY DEF Gives

LEMMA SureLeave ==
  ASSUME SecuritySorts, NEW b \in Browser, NEW f \in Fields, Sure(b, f), Known'[f] = Known[f],
         wires' \subseteq Left(b),
         \/ ~InApp(b)'
         \/ InApp(b) /\ tab'[b].profile = tab[b].profile /\ wires' = Left(b)
  PROVE  Sure(b, f)'
<1>1. \A v \in wires' : \E w \in wires : v = Leave(b, w)
  BY LeaveHas
<1>2. \A v \in Touching(b, f)' : \E w \in Touching(b, f) : v = Leave(b, w)
  BY <1>1, LeaveHas DEF Touching
<1>3. AsksMe(b)' => AsksMe(b)
  BY <1>1, LeaveHas DEF AsksMe
<1>4. \A v, w \in Touching(b, f)' : v = w
  BY <1>2 DEF Sure
<1>5. AsksMe(b)' => Touching(b, f)' = {}
  BY <1>2, <1>3 DEF Sure
<1>6. \A w \in wires' : w.by = b /\ w.kind = "me" /\ w.at = "ok" => w.base[f] = Known'[f]
  BY <1>1, LeaveHas DEF Sure
<1>7. ASSUME NEW v \in Touching(b, f)', v.at = "ok" PROVE Gives(v)[f] = Known'[f]
  <2>1. PICK w \in Touching(b, f) : v = Leave(b, w)
    BY <1>2, <1>7
  <2>2. w \in wires /\ w.at = "ok" /\ v.kind = w.kind /\ v.to = w.to
    BY <1>7, <2>1, LeaveHas DEF Touching
  <2>3. Gives(v) = Gives(w)
    BY <2>2, GivesByKind
  <2> QED
    BY <2>1, <2>2, <2>3 DEF Sure
<1>8. ASSUME InApp(b)', ~AsksMe(b)'
      PROVE  /\ (\A w \in Touching(b, f)' : w.at \notin {"ok", "lost"}) => tab'[b].profile[f] = Known'[f]
             /\ (\E w \in Touching(b, f)' : w.kind = "setup") => tab'[b].profile[f] = FALSE
  <2>1. InApp(b) /\ tab'[b].profile = tab[b].profile /\ wires' = Left(b)
    BY <1>8
  <2>2. ~AsksMe(b)
    BY <1>8, <2>1, LeaveHas DEF AsksMe
  <2>3. \A w \in Touching(b, f) : Leave(b, w) \in Touching(b, f)' /\ Leave(b, w).at = w.at
    BY <2>1, LeaveHas DEF Touching
  <2>4. (\A w \in Touching(b, f)' : w.at \notin {"ok", "lost"})
          => (\A w \in Touching(b, f) : w.at \notin {"ok", "lost"})
    BY <2>3
  <2>5. (\E w \in Touching(b, f)' : w.kind = "setup") => (\E w \in Touching(b, f) : w.kind = "setup")
    BY <1>2, LeaveHas DEF Touching
  <2> QED
    BY <2>1, <2>2, <2>4, <2>5 DEF Sure
<1> QED
  BY <1>4, <1>5, <1>6, <1>7, <1>8 DEF Sure, Gives

LEMMA ServedSure ==
  ASSUME SecurityInv, NEW w \in wires, Served(w), NEW b \in Browser, NEW f \in Fields \ unsure'[b]
  PROVE  Sure(b, f)'
<1>1. /\ w \in Wires /\ w.kind # "me" /\ Did(w) /\ tab' = tab
      /\ f \in Touches(w.kind) => Known'[f] = Gives(w)[f]
  BY ServedGives DEF SecurityInv, SecuritySorts
<1>2. PICK at \in {"ok", "lost"} : Becomes(w, at)
  BY <1>1, DidTypes DEF SecurityInv
<1> DEFINE new == [w EXCEPT !.at = at]
<1>3. /\ new.by = w.by /\ new.kind = w.kind /\ new.to = w.to /\ new.at = at
      /\ wires' = (wires \ {w}) \union {new}
  BY <1>1, <1>2 DEF Becomes, Wires
<1> HIDE DEF new
<1>4. /\ unsure'[b] = unsure[b] \union (Turned \ (IF b = w.by THEN Touches(w.kind) ELSE {}))
      /\ b # w.by \/ f \notin Touches(w.kind) => Known'[f] = Known[f]
  BY <1>1 DEF Did, Turned
<1>5. f \notin unsure[b] /\ Sure(b, f)
  BY <1>4 DEF SecurityInv
<1>6. CASE b # w.by
  <2>1. \A v : (v \in wires' /\ v.by = b) <=> (v \in wires /\ v.by = b)
    BY <1>3, <1>6
  <2>2. Known'[f] = Known[f] /\ tab'[b] = tab[b]
    BY <1>1, <1>4, <1>6
  <2> QED
    BY <1>5, <2>1, <2>2, SureQuiet
<1>7. CASE b = w.by
  <2>1. (AsksMe(b)' <=> AsksMe(b)) /\ (InApp(b)' <=> InApp(b))
    BY <1>1, <1>3 DEF AsksMe, InApp
  <2>2. \A v \in wires' : v.by = b /\ v.kind = "me" => v \in wires
    BY <1>1, <1>3
  <2>3. CASE f \in Touches(w.kind)
    <3>1. Touching(b, f) = {w}
      BY <1>5, <1>7, <2>3 DEF Sure, Touching
    <3>2. Touching(b, f)' = {new}
      BY <1>3, <1>7, <2>3, <3>1 DEF Touching
    <3>3. ~AsksMe(b)'
      BY <1>5, <2>1, <3>1 DEF Sure
    <3>4. \A v \in wires' : ~(v.by = b /\ v.kind = "me")
      BY <3>3 DEF AsksMe
    <3>5. Gives(new)[f] = Known'[f]
      BY <1>1, <1>3, <2>3, GivesByKind
    <3>6. InApp(b) /\ new.kind = "setup" => tab'[b].profile[f] = FALSE
      BY <1>1, <1>3, <1>5, <2>1, <3>1, <3>3 DEF Sure
    <3> QED
      BY <1>3, <2>1, <3>2, <3>3, <3>4, <3>5, <3>6 DEF Sure, Gives
  <2>4. CASE f \notin Touches(w.kind)
    <3>1. Touching(b, f)' = Touching(b, f)
      BY <1>3, <2>4 DEF Touching
    <3> QED
      BY <1>1, <1>4, <1>5, <2>1, <2>2, <2>4, <3>1 DEF Sure, Gives
  <2> QED
    BY <2>3, <2>4
<1> QED
  BY <1>6, <1>7

LEMMA ServedKeeps ==
  ASSUME SecurityInv, NEW w \in wires, Served(w)
  PROVE  SecurityInv'
<1>1. SecuritySorts' /\ AddressProved'
  BY ServedTypes, ServedProves DEF SecurityInv
<1>2. MeAskedOnce'
  <2>1. w \in Wires /\ w.kind # "me" /\ tab' = tab /\ Did(w)
    BY ServedGives DEF SecurityInv, SecuritySorts
  <2>2. PICK at \in {"ok", "lost"} : Becomes(w, at)
    BY <2>1, DidTypes DEF SecurityInv
  <2>3. [w EXCEPT !.at = at].kind # "me"
    BY <2>1 DEF Wires
  <2>4. \A v \in wires' : v.kind = "me" => v \in wires
    BY <2>2, <2>3 DEF Becomes
  <2> QED
    BY <2>1, <2>4 DEF SecurityInv, MeAskedOnce, InApp
<1> QED
  BY <1>1, <1>2, ServedSure DEF SecurityInv

\* A request that goes on, or fails, before it changed anything.
LEMMA WireMoves ==
  ASSUME SecurityInv, NEW w \in wires, NEW new \in Wires, wires' = (wires \ {w}) \union {new},
         w.at \in {"asked", "proved", "read"}, new.at \in {"proved", "read", "refused"},
         new.by = w.by, new.kind = w.kind, new.to = w.to,
         UNCHANGED <<totp, contact, emailOn, copies, passkeys, tab, visits, presses, unsure>>,
         testCode' \in [n : Number, to : Address], moved' \in BOOLEAN, AddressProved'
  PROVE  SecurityInv'
<1>1. SecuritySorts'
  BY DEF SecurityInv, SecuritySorts, passkeys
<1>2. MeAskedOnce'
  BY DEF SecurityInv, MeAskedOnce, InApp
<1>3. ASSUME NEW b \in Browser, NEW f \in Fields \ unsure'[b] PROVE Sure(b, f)'
  <2>1. Sure(b, f) /\ Known'[f] = Known[f] /\ tab' = tab
    BY DEF SecurityInv, Known
  <2>2. CASE b # w.by
    <3>1. \A v : (v \in wires' /\ v.by = b) <=> (v \in wires /\ v.by = b)
      BY <2>2
    <3> QED
      BY <2>1, <3>1, SureQuiet
  <2>3. CASE b = w.by
    <3>1. (AsksMe(b)' <=> AsksMe(b)) /\ (InApp(b)' <=> InApp(b))
      BY <2>1 DEF AsksMe, InApp
    <3>2. \A v \in wires' : v.at = "ok" => v \in wires
      OBVIOUS
    <3>3. CASE f \in Touches(w.kind)
      <4>1. Touching(b, f) = {w}
        BY <2>1, <2>3, <3>3 DEF Sure, Touching
      <4>2. Touching(b, f)' = {new}
        BY <2>3, <3>3, <4>1 DEF Touching
      <4> QED
        BY <2>1, <3>1, <3>2, <4>1, <4>2 DEF Sure, Gives
    <3>4. CASE f \notin Touches(w.kind)
      <4>1. Touching(b, f)' = Touching(b, f)
        BY <3>4 DEF Touching
      <4> QED
        BY <2>1, <3>1, <3>2, <4>1 DEF Sure, Gives
    <3> QED
      BY <3>3, <3>4
  <2> QED
    BY <2>2, <2>3
<1> QED
  BY <1>1, <1>2, <1>3 DEF SecurityInv

LEMMA GoesOnKeeps ==
  ASSUME SecurityInv, NEW w \in wires, ReadRow(w) \/ TakeCode(w) \/ Refused(w)
  PROVE  SecurityInv'
<1> DEFINE At(at) == [w EXCEPT !.at = at]
           read == [w EXCEPT !.at = "read", !.row = Row]
<1>1. w \in Wires /\ Row \in Rows /\ SecuritySorts /\ AddressProved
  BY RowType DEF SecurityInv, SecuritySorts
<1>2. CASE ReadRow(w)
  <2>1. /\ read \in Wires /\ read.by = w.by /\ read.kind = w.kind /\ read.to = w.to
        /\ read.at = "read" /\ read.row = Row
    <3> HIDE DEF Row
    <3> QED
      BY <1>1 DEF Wires
  <2>2. /\ wires' = (wires \ {w}) \union {read} /\ w.at \in {"asked", "proved"}
        /\ w.kind = "emailVerify" => w.at = "proved"
        /\ UNCHANGED <<totp, contact, emailOn, copies, codeVars, passkeys, browserVars, unsure>>
    BY <1>2 DEF ReadRow
  <2> HIDE DEF read
  <2>3. AddressProved'
    <3>1. Proving' => Proving
      BY <2>1, <2>2 DEF Proving
    <3>2. \A row : RowProved(row)' <=> RowProved(row)
      BY <2>2 DEF RowProved, codeVars
    <3>3. ~moved => RowProved(Row) /\ (w.kind = "emailVerify" => Row.contact \in proved)
      BY <1>1, <2>2 DEF AddressProved, Proving, RowProved, Row
    <3>4. \A v \in wires' : v \in wires \/ v = read
      BY <2>2
    <3> QED
      BY <1>1, <2>1, <2>2, <3>1, <3>2, <3>3, <3>4 DEF AddressProved, codeVars
  <2> QED
    BY <1>1, <2>1, <2>2, <2>3, WireMoves DEF SecuritySorts, codeVars, browserVars
<1>3. CASE TakeCode(w)
  <2> DEFINE new == At("proved")
  <2>1. /\ new \in Wires /\ new.by = w.by /\ new.kind = w.kind /\ new.to = w.to
        /\ new.at = "proved"
    BY <1>1 DEF Wires
  <2>2. /\ wires' = (wires \ {w}) \union {new} /\ w.at = "asked" /\ testCode # NoCode
        /\ proved' = proved \union {testCode.to} /\ testCode' = NoCode
        /\ UNCHANGED <<totp, contact, emailOn, copies, moved, passkeys, browserVars, unsure>>
    BY <1>3 DEF TakeCode, Becomes
  <2> HIDE DEF new
  <2>3. AddressProved'
    <3>1. \A row : RowProved(row) => RowProved(row)'
      BY <2>2 DEF RowProved
    <3>2. ~moved => contact \in proved'
      BY <1>1, <2>2 DEF AddressProved
    <3>3. \A v \in wires' : v.at = "read" => v \in wires
      BY <2>1, <2>2
    <3> QED
      BY <1>1, <2>2, <3>1, <3>2, <3>3 DEF AddressProved
  <2>4. NoCode \in [n : Number, to : Address]
    BY SecurityAssumption DEF NoCode, Number, Address
  <2> QED
    BY <1>1, <2>1, <2>2, <2>3, <2>4, WireMoves DEF SecuritySorts, browserVars
<1>4. CASE Refused(w)
  <2> DEFINE new == At("refused")
  <2>1. /\ new \in Wires /\ new.by = w.by /\ new.kind = w.kind /\ new.to = w.to
        /\ new.at = "refused"
    BY <1>1 DEF Wires
  <2>2. /\ wires' = (wires \ {w}) \union {new} /\ w.at \in {"asked", "proved", "read"}
        /\ UNCHANGED <<totp, contact, emailOn, copies, codeVars, passkeys, browserVars, unsure>>
    BY <1>4 DEF Refused, Becomes
  <2> HIDE DEF new
  <2>3. AddressProved'
    BY <1>1, <2>1, <2>2, ProvedQuiet DEF codeVars
  <2> QED
    BY <1>1, <2>1, <2>2, <2>3, WireMoves DEF SecuritySorts, codeVars, browserVars
<1> QED
  BY <1>2, <1>3, <1>4

\* Another writer takes a copy of the row, or writes its own.
LEMMA RowWritersKeep ==
  ASSUME SecurityInv, NEW v \in Writer, OtherReads(v) \/ OtherWrites(v)
  PROVE  SecurityInv'
<1>0. UNCHANGED <<totp, testCode, proved, passkeys, browserVars, wires>>
  BY DEF OtherReads, OtherWrites, codeVars
<1>1. /\ SecuritySorts /\ AddressProved /\ Row \in Rows /\ NoRow \in Rows /\ copies[v] \in Rows
      /\ UNCHANGED <<totp, testCode, proved, passkeys, browserVars, wires>>
  <2>1. SecuritySorts /\ AddressProved
    BY DEF SecurityInv
  <2> QED
    BY <1>0, <2>1, RowType DEF SecuritySorts
<1>2. SecuritySorts' /\ AddressProved'
  <2>1. CASE OtherReads(v)
    <3>1. PICK row \in {Row, NoRow} : copies' = [copies EXCEPT ![v] = row]
      BY <2>1 DEF OtherReads
    <3>2. UNCHANGED <<contact, emailOn, moved, unsure>>
      BY <2>1 DEF OtherReads, codeVars
    <3>3. ~moved => RowProved(row)
      BY <1>1, <3>1 DEF AddressProved, RowProved, Row, NoRow
    <3>4. Proving' = Proving /\ \A x : RowProved(x)' <=> RowProved(x)
      BY <1>1 DEF Proving, RowProved
    <3>5. row \in Rows
      BY <1>1, <3>1
    <3>6. copies' \in [Writer -> Rows] /\ \A u \in Writer : copies'[u] \in {copies[u], row}
      BY <1>1, <3>1, <3>5 DEF SecuritySorts
    <3> QED
      BY <1>1, <3>2, <3>3, <3>4, <3>6 DEF SecuritySorts, AddressProved, passkeys, browserVars
  <2>2. CASE OtherWrites(v)
    <3>1. SetRow(copies[v], FALSE) /\ copies' = copies
      BY <2>2 DEF OtherWrites
    <3>2. contact' \in Address /\ emailOn' \in BOOLEAN /\ moved' \in BOOLEAN
      BY <1>1, <3>1 DEF SetRow, Rows
    <3>3. unsure' \in [Browser -> SUBSET Fields]
      BY <1>1, <2>2 DEF OtherWrites, Turned, SecuritySorts
    <3>4. CASE moved
      BY <1>1, <3>1, <3>2, <3>3, <3>4 DEF SetRow, AddressProved, SecuritySorts, passkeys, browserVars
    <3>5. CASE ~moved
      <4>1. RowProved(copies[v])
        BY <1>1, <3>5 DEF AddressProved
      <4>2. AddressProved'
        BY <1>1, <3>1, <4>1, SetRowProves DEF SecuritySorts
      <4> QED
        BY <1>1, <3>1, <3>2, <3>3, <4>2 DEF SecuritySorts, passkeys, browserVars
    <3> QED
      BY <1>1, <3>4, <3>5 DEF SecuritySorts
  <2> QED
    BY <2>1, <2>2
<1>3. MeAskedOnce'
  BY <1>1 DEF SecurityInv, MeAskedOnce, InApp, browserVars
<1>4. ASSUME NEW b \in Browser, NEW f \in Fields \ unsure'[b] PROVE Sure(b, f)'
  <2>1. f \notin unsure[b] /\ Known'[f] = Known[f]
    <3>1. CASE OtherReads(v)
      BY <3>1 DEF OtherReads, Known
    <3>2. CASE OtherWrites(v)
      BY <3>2 DEF OtherWrites, Turned
    <3> QED
      BY <3>1, <3>2
  <2> QED
    BY <1>1, <2>1, SureQuiet DEF SecurityInv, browserVars
<1> QED
  BY <1>2, <1>3, <1>4 DEF SecurityInv

LEMMA EnterKeeps ==
  ASSUME SecurityInv, NEW b \in Browser, ~InApp(b), Enter(b),
         UNCHANGED <<totp, contact, emailOn, copies, codeVars, passkeys, presses>>
  PROVE  SecurityInv'
<1> DEFINE asked == Wire(b, "me", 0, "none")
           shown == [tab[b] EXCEPT !.at = "mail", !.profile = Bare, !.methods = {}]
<1>1. /\ wires' = wires \union {asked} /\ asked.by = b /\ asked.kind = "me" /\ asked.at = "asked"
      /\ Touches(asked.kind) = {}
      /\ unsure' = [unsure EXCEPT ![b] = UNION {Touches(w.kind) : w \in {v \in wires : v.by = b}}]
  BY DEF Enter, Wire, Touches, FieldOf
<1>2. /\ tab' \in [Browser -> Tabs] /\ visits' \in [Browser -> 0 .. NagEvery - 1]
      /\ unsure' \in [Browser -> SUBSET Fields] /\ wires' \subseteq Wires
      /\ \A c \in Browser \ {b} : tab'[c] = tab[c]
  BY EnterTypes DEF SecurityInv
<1>3. InApp(b)'
  <2>1. tab[b] \in Tabs
    BY DEF SecurityInv, SecuritySorts
  <2>2. shown \in Tabs /\ shown.at = "mail"
    BY <2>1, BareType DEF Tabs
  <2>3. Show(b, shown)
    BY DEF Enter
  <2> HIDE DEF shown
  <2> QED
    BY <2>2, <2>3, ShowHas DEF SecurityInv, InApp
<1> HIDE DEF asked, shown
<1>4. \A w \in wires : ~(w.by = b /\ w.kind = "me")
  BY DEF SecurityInv, MeAskedOnce
<1>5. SecuritySorts' /\ AddressProved'
  BY <1>1, <1>2, ProvedQuiet DEF SecurityInv, SecuritySorts, codeVars, passkeys
<1>6. MeAskedOnce'
  <2>1. \A v \in wires : v.kind = "me" => InApp(v.by)' /\ v.by # b
    <3> SUFFICES ASSUME NEW v \in wires, v.kind = "me" PROVE InApp(v.by)' /\ v.by # b
      OBVIOUS
    <3>1. v.by \in Browser \ {b} /\ InApp(v.by)
      BY <1>4 DEF SecurityInv, MeAskedOnce, SecuritySorts, Wires
    <3> QED
      BY <1>2, <3>1 DEF InApp
  <2> QED
    BY <1>1, <1>3, <2>1 DEF SecurityInv, MeAskedOnce
<1>7. ASSUME NEW c \in Browser, NEW f \in Fields \ unsure'[c] PROVE Sure(c, f)'
  <2>1. Known' = Known
    BY DEF Known
  <2>2. CASE c # b
    <3>1. Sure(c, f) /\ tab'[c] = tab[c]
      BY <1>1, <1>2, <2>2 DEF SecurityInv
    <3>2. \A v : (v \in wires' /\ v.by = c) <=> (v \in wires /\ v.by = c)
      BY <1>1, <2>2
    <3> QED
      BY <2>1, <3>1, <3>2, SureQuiet
  <2>3. CASE c = b
    <3>1. f \notin UNION {Touches(w.kind) : w \in {v \in wires : v.by = b}}
      BY <1>1, <2>3 DEF SecurityInv, SecuritySorts
    <3>2. Touching(b, f)' = {}
      BY <1>1, <3>1 DEF Touching
    <3>3. AsksMe(b)'
      BY <1>1 DEF AsksMe
    <3>4. \A w \in wires' : ~(w.by = b /\ w.kind = "me" /\ w.at = "ok")
      BY <1>1, <1>4
    <3> QED
      BY <2>3, <3>2, <3>3, <3>4 DEF Sure
  <2> QED
    BY <2>2, <2>3
<1> QED
  BY <1>5, <1>6, <1>7 DEF SecurityInv

LEMMA PressKeepsSure ==
  ASSUME SecurityInv, NEW b \in Browser, PressButton(b)
  PROVE  SecurityInv'
<1> DEFINE cards == ContactCard(b) \union PasskeysCard(b) \union AuthenticatorCard(b) \union EmailCard(b)
           mine == {w \in wires : w.by = b}
           added(kind) == UNION {IF w.kind = "me" THEN Touches(kind)
                                 ELSE Touches(w.kind) \intersect Touches(kind) : w \in mine}
<1>1. PICK button \in cards :
        /\ wires' = wires \union {Wire(b, button.kind, button.n, button.to)}
        /\ unsure' = [unsure EXCEPT ![b] = @ \union added(button.kind)]
  BY DEF PressButton
<1>2. button.kind # "me" /\ (button.kind = "setup" => tab[b].profile.totp = FALSE)
  <2>1. tab[b].profile.totp \in BOOLEAN
    BY DEF SecurityInv, SecuritySorts, Tabs, Profile
  <2>2. button.kind = "setup" => ~tab[b].profile.totp
    BY DEF ContactCard, PasskeysCard, AuthenticatorCard, EmailCard, Button
  <2>3. button.kind # "me"
    BY DEF ContactCard, PasskeysCard, AuthenticatorCard, EmailCard, Button
  <2> QED
    BY <2>1, <2>2, <2>3
<1> DEFINE new == Wire(b, button.kind, button.n, button.to)
<1>3. new.by = b /\ new.kind = button.kind /\ new.at = "asked"
  BY DEF Wire
<1>4. wires' = wires \union {new}
  BY <1>1
<1>5. UNCHANGED <<totp, contact, emailOn, copies, codeVars, passkeys, tab, visits>>
  BY DEF PressButton
<1> HIDE DEF new, cards, added
<1>6. SecuritySorts' /\ AddressProved'
  BY <1>3, <1>4, <1>5, PressTypes, ProvedQuiet DEF SecurityInv, codeVars
<1>7. MeAskedOnce'
  BY <1>2, <1>3, <1>4, <1>5 DEF SecurityInv, MeAskedOnce, InApp
<1>8. ASSUME NEW c \in Browser, NEW f \in Fields \ unsure'[c] PROVE Sure(c, f)'
  <2>1. Known' = Known /\ tab' = tab
    BY <1>5 DEF Known
  <2>2. Sure(c, f)
    BY <1>1 DEF SecurityInv, SecuritySorts
  <2>3. CASE c # b
    <3>1. \A v : (v \in wires' /\ v.by = c) <=> (v \in wires /\ v.by = c)
      BY <1>3, <1>4, <2>3
    <3> QED
      BY <2>1, <2>2, <3>1, SureQuiet
  <2>4. CASE c = b
    <3>1. (AsksMe(b)' <=> AsksMe(b)) /\ (InApp(b)' <=> InApp(b))
      BY <1>2, <1>3, <1>4, <2>1 DEF AsksMe, InApp
    <3>2. \A v \in wires' : v.kind = "me" \/ v.at = "ok" => v \in wires
      BY <1>2, <1>3, <1>4
    <3>3. CASE f \in Touches(button.kind)
      <4>1. f \notin added(button.kind)
        BY <1>1, <2>4 DEF SecurityInv, SecuritySorts
      <4>2. Touching(b, f) = {} /\ ~AsksMe(b)
        BY <3>3, <4>1 DEF Touching, AsksMe, added
      <4>3. Touching(b, f)' = {new}
        BY <1>3, <1>4, <3>3, <4>2 DEF Touching
      <4>4. InApp(b) => tab[b].profile[f] = Known[f]
        BY <2>2, <2>4, <4>2 DEF Sure
      <4>5. new.kind = "setup" => f = "totp"
        BY <1>3, <3>3 DEF Touches
      <4>6. \A v \in Touching(b, f)' : v.at # "ok"
        BY <1>3, <4>3
      <4> QED
        BY <1>2, <1>3, <2>1, <2>2, <2>4, <3>1, <3>2, <4>2, <4>3, <4>4, <4>5, <4>6 DEF Sure, AsksMe
    <3>4. CASE f \notin Touches(button.kind)
      <4>1. Touching(b, f)' = Touching(b, f)
        BY <1>3, <1>4, <3>4 DEF Touching
      <4> QED
        BY <2>1, <2>2, <2>4, <3>1, <3>2, <4>1 DEF Sure, Gives
    <3> QED
      BY <3>3, <3>4
  <2> QED
    BY <2>3, <2>4
<1> QED
  BY <1>6, <1>7, <1>8 DEF SecurityInv

-----------------------------------------------------------------------------
(* Pages that are left, and answers.                                       *)

LEMMA LeftKeeps ==
  ASSUME SecurityInv, NEW b \in Browser, wires' \subseteq Left(b),
         tab' \in [Browser -> Tabs], \A c \in Browser \ {b} : tab'[c] = tab[c],
         \A w \in Left(b) : w.by # b => w \in wires',
         \/ InApp(b) /\ InApp(b)' /\ tab'[b].profile = tab[b].profile /\ wires' = Left(b)
         \/ ~InApp(b)' /\ \A w \in wires' : ~(w.by = b /\ w.kind = "me"),
         unsure' \in [Browser -> SUBSET Fields], \A c \in Browser : unsure[c] \subseteq unsure'[c],
         UNCHANGED <<totp, contact, emailOn, copies, codeVars, passkeys, visits, presses>>
  PROVE  SecurityInv'
<1>0. SecuritySorts
  BY DEF SecurityInv
<1>1. \A v \in wires' : \E w \in wires : v = Leave(b, w)
  BY <1>0, LeaveHas
<1>2. wires' \subseteq Wires
  BY <1>0, <1>1, LeaveHas
<1>3. SecuritySorts' /\ AddressProved'
  <2>1. \A v \in wires' : \E w \in wires : v.at = w.at /\ v.row = w.row /\ v.kind = w.kind
    BY <1>0, <1>1, LeaveHas
  <2> QED
    BY <1>0, <1>2, <2>1, ProvedQuiet DEF SecurityInv, SecuritySorts, codeVars, passkeys
<1>4. \A v \in wires' : v.kind = "me" => v \in wires
  BY <1>0, <1>1, LeaveHas
<1>5. MeAskedOnce'
  <2>1. ASSUME NEW v \in wires', v.kind = "me" PROVE InApp(v.by)'
    <3>1. v \in wires /\ v.by \in Browser /\ InApp(v.by)
      BY <1>0, <1>4, <2>1 DEF SecurityInv, MeAskedOnce, SecuritySorts, Wires
    <3> QED
      BY <2>1, <3>1 DEF InApp
  <2> QED
    BY <1>4, <2>1 DEF SecurityInv, MeAskedOnce
<1>6. ASSUME NEW c \in Browser, NEW f \in Fields \ unsure'[c] PROVE Sure(c, f)'
  <2>1. Sure(c, f) /\ Known'[f] = Known[f]
    BY DEF SecurityInv, Known
  <2>2. CASE c # b
    <3>1. ASSUME NEW v, v.by = c PROVE v \in wires' <=> v \in wires
      <4>1. v \in wires => Leave(b, v) = v
        BY <2>2, <3>1 DEF Leave
      <4>2. ASSUME v \in wires' PROVE v \in wires
        <5>1. PICK u \in wires : v = Leave(b, u)
          BY <1>1, <4>2
        <5>2. u.by = c
          BY <1>0, <3>1, <5>1, LeaveHas
        <5> QED
          BY <2>2, <5>1, <5>2 DEF Leave
      <4>3. v \in wires => v \in Left(b)
        BY <1>0, <4>1, LeaveHas
      <4> QED
        BY <2>2, <3>1, <4>2, <4>3
    <3> QED
      BY <2>1, <2>2, <3>1, SureQuiet
  <2>3. CASE c = b
    BY <1>0, <2>1, <2>3, SureLeave
  <2> QED
    BY <2>2, <2>3
<1> QED
  BY <1>3, <1>5, <1>6 DEF SecurityInv

LEMMA PagesKeep ==
  ASSUME SecurityInv, NEW b \in Browser,
         SignOut(b) \/ NewTab(b) \/ OpenSecurity(b) \/ LeaveSecurity(b)
  PROVE  SecurityInv'
<1>1. /\ SecuritySorts /\ tab[b] \in Tabs /\ unsure' = unsure
      /\ UNCHANGED <<totp, contact, emailOn, copies, codeVars, passkeys, visits, presses>>
  BY DEF SecurityInv, SecuritySorts, SignOut, NewTab, OpenSecurity, LeaveSecurity
<1>2. unsure' \in [Browser -> SUBSET Fields] /\ \A c \in Browser : unsure[c] \subseteq unsure'[c]
  BY <1>1 DEF SecuritySorts
<1>3. CASE SignOut(b)
  <2> DEFINE gone == [SignedOut EXCEPT !.counted = tab[b].counted]
  <2>1. gone \in Tabs /\ gone.at = "login"
    BY <1>1, BareType DEF Tabs, SignedOut
  <2>2. tab' = [tab EXCEPT ![b] = gone] /\ wires' = {w \in Left(b) : w.by # b \/ w.kind # "me"}
    BY <1>3 DEF SignOut
  <2> HIDE DEF gone
  <2>3. /\ tab' \in [Browser -> Tabs] /\ ~InApp(b)' /\ \A c \in Browser \ {b} : tab'[c] = tab[c]
    BY <1>1, <2>1, <2>2 DEF SecuritySorts, InApp
  <2>4. \A w \in wires' : ~(w.by = b /\ w.kind = "me")
    BY <2>2
  <2> QED
    BY <1>1, <1>2, <2>2, <2>3, <2>4, LeftKeeps
<1>4. CASE LeaveSecurity(b)
  <2> DEFINE gone == [tab[b] EXCEPT !.at = "mail", !.secret = 0, !.sent = "none"]
  <2>1. gone \in Tabs /\ gone.at = "mail" /\ gone.profile = tab[b].profile
    <3>1. 0 \in Number /\ "none" \in Address
      BY SecurityAssumption DEF Address, Number
    <3> QED
      BY <1>1, <3>1 DEF Tabs
  <2>2. tab' = [tab EXCEPT ![b] = gone] /\ wires' = Left(b) /\ InApp(b)
    BY <1>1, <1>4 DEF LeaveSecurity, InApp, SecuritySorts
  <2> HIDE DEF gone
  <2>3. /\ tab' \in [Browser -> Tabs] /\ InApp(b)' /\ \A c \in Browser \ {b} : tab'[c] = tab[c]
        /\ tab'[b].profile = tab[b].profile
    BY <1>1, <2>1, <2>2 DEF SecuritySorts, InApp
  <2> QED
    BY <1>1, <1>2, <2>2, <2>3, LeftKeeps
<1>5. CASE NewTab(b) \/ OpenSecurity(b)
  <2>1. [tab[b] EXCEPT !.at = "security", !.nag = FALSE] \in Tabs
    BY <1>1 DEF Tabs
  <2>2. \E t \in Tabs :
           /\ tab' = [tab EXCEPT ![b] = t]
           /\ \/ t.at = "login"
              \/ t.at = "security" /\ tab[b].at = "mail" /\ t.profile = tab[b].profile
    <3>1. CASE NewTab(b)
      BY <3>1, BareType DEF NewTab, SignedOut
    <3>2. CASE OpenSecurity(b)
      <4> DEFINE t == [tab[b] EXCEPT !.at = "security", !.nag = FALSE]
      <4>1. t \in Tabs /\ t.at = "security" /\ t.profile = tab[b].profile
        BY <1>1, <2>1 DEF Tabs
      <4>2. tab' = [tab EXCEPT ![b] = t] /\ tab[b].at = "mail"
        BY <3>2 DEF OpenSecurity, SecuritySorts
      <4> QED
        BY <4>1, <4>2
    <3> QED
      BY <1>5, <3>1, <3>2
  <2>3. PICK t \in Tabs :
           /\ tab' = [tab EXCEPT ![b] = t]
           /\ \/ t.at = "login"
              \/ t.at = "security" /\ tab[b].at = "mail" /\ t.profile = tab[b].profile
    BY <2>2
  <2>4. tab' \in [Browser -> Tabs] /\ tab'[b] = t /\ \A c \in Browser \ {b} : tab'[c] = tab[c]
    BY <1>1, <2>3 DEF SecuritySorts
  <2>5. wires' = wires
    BY <1>5 DEF NewTab, OpenSecurity
  <2>6. \/ InApp(b) /\ InApp(b)' /\ tab'[b].profile = tab[b].profile
        \/ ~InApp(b)' /\ \A w \in wires : w.by # b
    <3>1. CASE NewTab(b)
      BY <3>1, <1>1, BareType DEF NewTab, SignedOut, InApp, SecuritySorts
    <3>2. CASE OpenSecurity(b)
      BY <3>2, <1>1 DEF OpenSecurity, InApp, SecuritySorts, Tabs
    <3> QED
      BY <1>5, <3>1, <3>2
  <2>7. SecuritySorts' /\ AddressProved'
    BY <1>1, <2>4, <2>5, ProvedQuiet DEF SecurityInv, SecuritySorts, codeVars, passkeys
  <2>8. MeAskedOnce'
    <3>1. ASSUME NEW v \in wires, v.kind = "me" PROVE InApp(v.by)'
      <4>1. v.by \in Browser /\ InApp(v.by)
        BY <3>1 DEF SecurityInv, MeAskedOnce, SecuritySorts, Wires
      <4>2. CASE v.by = b
        BY <2>6, <4>2
      <4>3. CASE v.by # b
        BY <2>4, <4>1, <4>3 DEF InApp
      <4> QED
        BY <4>2, <4>3
    <3> QED
      BY <2>5, <3>1 DEF SecurityInv, MeAskedOnce
  <2>9. ASSUME NEW c \in Browser, NEW f \in Fields \ unsure'[c] PROVE Sure(c, f)'
    <3>1. Sure(c, f) /\ Known'[f] = Known[f]
      BY <1>1 DEF SecurityInv, Known
    <3>2. CASE c # b
      BY <2>4, <2>5, <3>1, <3>2, SureQuiet
    <3>3. CASE c = b
      <4>1. Touching(b, f)' = Touching(b, f) /\ (AsksMe(b)' <=> AsksMe(b))
        BY <2>5 DEF Touching, AsksMe
      <4>2. \A w \in Touching(b, f) : Gives(w)' = Gives(w)
        BY DEF Gives
      <4> QED
        BY <2>5, <2>6, <3>1, <3>3, <4>1, <4>2 DEF Sure
    <3> QED
      BY <3>2, <3>3
  <2> QED
    BY <2>7, <2>8, <2>9 DEF SecurityInv
<1> QED
  BY <1>3, <1>4, <1>5

LEMMA CodeExpiresKeeps ==
  ASSUME SecurityInv, CodeExpires \/ UNCHANGED securityVars
  PROVE  SecurityInv'
<1>1. /\ UNCHANGED <<totp, contact, emailOn, copies, proved, moved, keys, browserVars, wires, unsure>>
      /\ testCode' \in {testCode, NoCode} /\ ceremony' \in {ceremony, 0}
  BY DEF CodeExpires, securityVars, codeVars, passkeys
<1>2. NoCode \in [n : Number, to : Address] /\ 0 \in Number
  BY SecurityAssumption DEF NoCode, Number, Address
<1>3. SecuritySorts' /\ AddressProved'
  BY <1>1, <1>2, ProvedQuiet DEF SecurityInv, SecuritySorts, browserVars
<1>4. MeAskedOnce'
  BY <1>1 DEF SecurityInv, MeAskedOnce, InApp, browserVars
<1>5. ASSUME NEW c \in Browser, NEW f \in Fields \ unsure'[c] PROVE Sure(c, f)'
  <2>1. Sure(c, f) /\ Known'[f] = Known[f] /\ wires' = wires /\ tab' = tab
    BY <1>1 DEF SecurityInv, Known, browserVars
  <2> QED
    BY <2>1, SureQuiet
<1> QED
  BY <1>3, <1>4, <1>5 DEF SecurityInv

LEMMA ServeMeKeeps ==
  ASSUME SecurityInv, NEW w \in wires, ServeMe(w)
  PROVE  SecurityInv'
<1> DEFINE new == [w EXCEPT !.at = "ok", !.base = Known]
<1>1. /\ w \in Wires /\ w.kind = "me" /\ w.by \in Browser /\ wires' = (wires \ {w}) \union {new}
      /\ UNCHANGED <<totp, contact, emailOn, copies, codeVars, passkeys, browserVars, unsure>>
  BY DEF SecurityInv, SecuritySorts, ServeMe, Wires
<1>2. new \in Wires /\ new.by = w.by /\ new.kind = "me" /\ new.base = Known /\ new.at = "ok"
  <2>1. Known \in Profile
    BY KnownType DEF SecurityInv
  <2> HIDE DEF Known
  <2> QED
    BY <1>1, <2>1 DEF Wires
<1> HIDE DEF new
<1>3. SecuritySorts' /\ AddressProved' /\ tab' = tab
  BY <1>1, <1>2, ProvedQuiet DEF SecurityInv, SecuritySorts, codeVars, passkeys, browserVars
<1>4. MeAskedOnce'
  BY <1>1, <1>2, <1>3 DEF SecurityInv, MeAskedOnce, InApp
<1>5. ASSUME NEW b \in Browser, NEW f \in Fields \ unsure'[b] PROVE Sure(b, f)'
  <2>1. Sure(b, f) /\ Known' = Known
    BY <1>1 DEF SecurityInv, Known
  <2>2. Touches("me") = {}
    BY DEF Touches, FieldOf
  <2>3. CASE b # w.by
    <3>1. \A v : (v \in wires' /\ v.by = b) <=> (v \in wires /\ v.by = b)
      BY <1>1, <1>2, <2>3
    <3> QED
      BY <1>3, <2>1, <3>1, SureQuiet
  <2>4. CASE b = w.by
    <3>1. (AsksMe(b)' <=> AsksMe(b)) /\ (InApp(b)' <=> InApp(b)) /\ Touching(b, f)' = Touching(b, f)
      BY <1>1, <1>2, <1>3, <2>2 DEF AsksMe, InApp, Touching
    <3>2. \A v \in wires' : v.by = b /\ v.kind = "me" /\ v.at = "ok" => v.base[f] = Known'[f]
      BY <1>1, <1>2, <2>1 DEF Sure
    <3> QED
      BY <1>3, <2>1, <3>1, <3>2 DEF Sure, Gives
  <2> QED
    BY <2>3, <2>4
<1> QED
  BY <1>3, <1>4, <1>5 DEF SecurityInv

LEMMA MeAnsweredKeeps ==
  ASSUME SecurityInv, NEW w \in wires, MeAnswered(w)
  PROVE  SecurityInv'
<1> DEFINE shown == [tab[w.by] EXCEPT !.profile = w.base]
<1>1. /\ w \in Wires /\ w.kind = "me" /\ w.at = "ok" /\ w.by \in Browser /\ wires' = wires \ {w}
      /\ UNCHANGED <<totp, contact, emailOn, copies, codeVars, passkeys, presses, unsure>>
      /\ InApp(w.by)
  BY DEF SecurityInv, SecuritySorts, MeAnswered, Wires, MeAskedOnce
<1>2. shown \in Tabs /\ shown.at = tab[w.by].at /\ shown.profile = w.base
  <2>1. tab[w.by] \in Tabs /\ w.base \in Profile
    BY <1>1 DEF SecurityInv, SecuritySorts, Wires
  <2> QED
    BY <2>1 DEF Tabs
<1>3. Show(w.by, shown)
  BY DEF MeAnswered
<1> HIDE DEF shown
<1>4. /\ tab' \in [Browser -> Tabs] /\ visits' \in [Browser -> 0 .. NagEvery - 1]
      /\ tab'[w.by].at = tab[w.by].at /\ tab'[w.by].profile = w.base
      /\ \A c \in Browser \ {w.by} : tab'[c] = tab[c]
  BY <1>1, <1>2, <1>3, ShowHas DEF SecurityInv
<1>5. SecuritySorts' /\ AddressProved'
  BY <1>1, <1>4, ProvedQuiet DEF SecurityInv, SecuritySorts, codeVars, passkeys
<1>6. MeAskedOnce'
  <2>1. \A v \in wires : v.by \in Browser /\ tab'[v.by].at = tab[v.by].at
    BY <1>1, <1>4 DEF SecurityInv, SecuritySorts, Wires
  <2> QED
    BY <1>1, <2>1 DEF SecurityInv, MeAskedOnce, InApp
<1>7. ASSUME NEW b \in Browser, NEW f \in Fields \ unsure'[b] PROVE Sure(b, f)'
  <2>1. Sure(b, f) /\ Known' = Known
    BY <1>1 DEF SecurityInv, Known
  <2>2. CASE b # w.by
    <3>1. \A v : (v \in wires' /\ v.by = b) <=> (v \in wires /\ v.by = b)
      BY <1>1, <2>2
    <3> QED
      BY <1>4, <2>1, <2>2, <3>1, SureQuiet
  <2>3. CASE b = w.by
    <3>1. AsksMe(b)
      BY <1>1, <2>3 DEF AsksMe
    <3>2. Touching(b, f)' = {}
      BY <1>1, <2>1, <3>1 DEF Sure, Touching
    <3>3. w.base[f] = Known'[f]
      BY <1>1, <2>1, <2>3 DEF Sure
    <3> QED
      BY <1>1, <1>4, <2>1, <2>3, <3>2, <3>3 DEF Sure
  <2> QED
    BY <2>2, <2>3
<1> QED
  BY <1>5, <1>6, <1>7 DEF SecurityInv

LEMMA FailedKeeps ==
  ASSUME SecurityInv, NEW w \in wires, Failed(w)
  PROVE  SecurityInv'
<1> DEFINE b == w.by
           lost == IF w.at = "lost" THEN Touches(w.kind) ELSE {}
<1>1. /\ w \in Wires /\ w.at \in {"refused", "lost"} /\ b \in Browser
      /\ unsure' = [unsure EXCEPT ![b] = @ \union lost]
      /\ UNCHANGED <<totp, contact, emailOn, copies, codeVars, passkeys, visits, presses>>
  BY DEF SecurityInv, SecuritySorts, Wires, Failed
<1>2. lost \subseteq Fields
  BY <1>1, TouchesFields DEF Wires
<1> HIDE DEF lost
<1>3. unsure' \in [Browser -> SUBSET Fields] /\ \A c \in Browser : unsure[c] \subseteq unsure'[c]
  BY <1>1, <1>2 DEF SecurityInv, SecuritySorts
<1>4. CASE w.kind = "me"
  <2> DEFINE gone == [SignedOut EXCEPT !.counted = tab[b].counted]
  <2>1. gone \in Tabs /\ gone.at = "login"
    <3>1. tab[b] \in Tabs
      BY <1>1 DEF SecurityInv, SecuritySorts
    <3> QED
      BY <3>1, BareType DEF Tabs, SignedOut
  <2>2. tab' = [tab EXCEPT ![b] = gone] /\ wires' = Left(b) \ {w}
    BY <1>4 DEF Failed
  <2> HIDE DEF gone
  <2>3. tab' \in [Browser -> Tabs] /\ ~InApp(b)' /\ \A c \in Browser \ {b} : tab'[c] = tab[c]
    BY <1>1, <2>1, <2>2 DEF SecurityInv, SecuritySorts, InApp
  <2>4. ASSUME NEW v \in wires', v.by = b, v.kind = "me" PROVE FALSE
    <3>1. PICK u \in wires : v = Leave(b, u)
      BY <1>1, <2>2, LeaveHas DEF SecurityInv
    <3>2. u.by = b /\ u.kind = "me" /\ v = u
      BY <1>1, <2>4, <3>1, LeaveHas DEF SecurityInv
    <3>3. u = w
      BY <1>4, <3>2 DEF SecurityInv, MeAskedOnce
    <3> QED
      BY <2>2, <3>2, <3>3
  <2>5. \A v \in Left(b) : v.by # b => v \in wires'
    BY <2>2
  <2> HIDE DEF b
  <2> QED
    BY <1>1, <1>3, <2>2, <2>3, <2>4, <2>5, LeftKeeps
<1>5. CASE w.kind # "me"
  <2>1. wires' = wires \ {w} /\ tab' = tab
    BY <1>5 DEF Failed
  <2>2. SecuritySorts' /\ AddressProved' /\ MeAskedOnce'
    BY <1>1, <1>3, <2>1, ProvedQuiet
       DEF SecurityInv, SecuritySorts, MeAskedOnce, InApp, codeVars, passkeys
  <2>3. ASSUME NEW c \in Browser, NEW f \in Fields \ unsure'[c] PROVE Sure(c, f)'
    <3>1. Sure(c, f) /\ Known' = Known
      BY <1>1, <1>3 DEF SecurityInv, Known
    <3>2. CASE c # b
      <4>1. \A v : (v \in wires' /\ v.by = c) <=> (v \in wires /\ v.by = c)
        BY <2>1, <3>2
      <4> QED
        BY <2>1, <3>1, <4>1, SureQuiet
    <3>3. CASE c = b
      <4>1. (AsksMe(c)' <=> AsksMe(c)) /\ (InApp(c)' <=> InApp(c)) /\ Touching(c, f)' = Touching(c, f) \ {w}
        BY <1>5, <2>1 DEF AsksMe, InApp, Touching
      <4>2. w \in Touching(c, f) => w.at = "refused"
        BY <1>1, <3>3 DEF SecurityInv, SecuritySorts, Touching, lost
      <4>3. \A v \in Touching(c, f)' : v \in Touching(c, f)
        BY <4>1
      <4>4. (\A v \in Touching(c, f)' : v.at \notin {"ok", "lost"})
              => \A v \in Touching(c, f) : v.at \notin {"ok", "lost"}
        BY <4>1, <4>2
      <4>5. \A v \in wires' : v \in wires
        BY <2>1
      <4>6. AsksMe(c)' => Touching(c, f)' = {}
        BY <3>1, <4>1 DEF Sure
      <4>7. \A v \in Touching(c, f)' : v.at = "ok" => Gives(v)[f] = Known'[f]
        BY <3>1, <4>3 DEF Sure
      <4> QED
        BY <2>1, <3>1, <4>1, <4>3, <4>4, <4>5, <4>6, <4>7 DEF Sure, Gives
    <3> QED
      BY <3>2, <3>3
  <2> QED
    BY <2>2, <2>3 DEF SecurityInv
<1> QED
  BY <1>4, <1>5

\* What an answer shows: the field the request was about, with what it gave.
LEMMA AfterHas ==
  ASSUME SecuritySorts, NEW w \in wires
  PROVE  /\ After(w.by, w) \in Tabs /\ After(w.by, w).at = tab[w.by].at
         /\ \A f \in FieldOf(w.kind) : After(w.by, w).profile[f] = Gives(w)[f]
         /\ ~w.left => \A f \in Fields \ FieldOf(w.kind) :
                          After(w.by, w).profile[f] = tab[w.by].profile[f]
         /\ FieldOf(w.kind) = {} => After(w.by, w).profile = tab[w.by].profile
<1> DEFINE b == w.by
           old == IF w.left THEN w.base ELSE tab[b].profile
           profile == IF FieldOf(w.kind) = {} THEN tab[b].profile ELSE Patched(old, w)
           secret == IF w.left THEN tab[b].secret ELSE IF w.kind = "setup" THEN w.n
                     ELSE IF w.kind = "verify" THEN 0 ELSE tab[b].secret
           sent == IF w.left THEN tab[b].sent ELSE IF w.kind = "emailSetup" THEN w.row.contact
                   ELSE IF w.kind = "emailVerify" THEN "none" ELSE tab[b].sent
<1>1. w \in Wires /\ b \in Browser /\ tab[b] \in Tabs /\ w.row.contact \in Address
  BY DEF SecuritySorts, Wires, Rows
<1>2. old \in Profile
  BY <1>1 DEF Tabs, Wires
<1>3. /\ Patched(old, w) \in Profile
      /\ \A f \in Fields : Patched(old, w)[f] = IF f \in FieldOf(w.kind) THEN Gives(w)[f] ELSE old[f]
  BY <1>1, <1>2, PatchedHas
<1>4. secret \in Number
  BY <1>1, SecurityAssumption DEF Tabs, Wires, Number
<1>5. sent \in Address
  BY <1>1 DEF Tabs, Address
<1>6. tab[b].profile \in Profile
  BY <1>1 DEF Tabs
<1>7. profile \in Profile
  BY <1>3, <1>6
<1>8. After(b, w) = [tab[b] EXCEPT !.profile = profile, !.secret = secret, !.sent = sent]
  BY DEF After
<1>9. FieldOf(w.kind) \subseteq Fields
  BY DEF FieldOf, Fields
<1>10. /\ \A f \in FieldOf(w.kind) : profile[f] = Gives(w)[f]
       /\ ~w.left => \A f \in Fields \ FieldOf(w.kind) : profile[f] = tab[b].profile[f]
       /\ FieldOf(w.kind) = {} => profile = tab[b].profile
  BY <1>3, <1>9
<1> HIDE DEF profile, secret, sent, old
<1>11. After(b, w) \in Tabs /\ After(b, w).at = tab[b].at /\ After(b, w).profile = profile
  BY <1>1, <1>4, <1>5, <1>7, <1>8 DEF Tabs
<1> QED
  BY <1>10, <1>11

LEMMA AnsweredKeeps ==
  ASSUME SecurityInv, NEW w \in wires, Answered(w)
  PROVE  SecurityInv'
<1> DEFINE b == w.by
           shown == After(b, w)
           more == IF w.kind = "options" THEN {Wire(b, "register", w.n, "none")} ELSE {}
           lost == IF w.left THEN {f \in Fields \ FieldOf(w.kind) : tab'[b].profile[f] # tab[b].profile[f]}
                   ELSE {}
<1>1. /\ w \in Wires /\ w.kind # "me" /\ w.at = "ok" /\ b \in Browser
      /\ wires' = (wires \ {w}) \union more
      /\ unsure' = [unsure EXCEPT ![b] = @ \union lost]
      /\ UNCHANGED <<totp, contact, emailOn, copies, codeVars, passkeys, presses>>
      /\ SecuritySorts
  BY DEF SecurityInv, SecuritySorts, Wires, Answered
<1>2. /\ shown \in Tabs /\ shown.at = tab[b].at
      /\ \A f \in FieldOf(w.kind) : shown.profile[f] = Gives(w)[f]
      /\ ~w.left => \A f \in Fields \ FieldOf(w.kind) : shown.profile[f] = tab[b].profile[f]
  BY <1>1, AfterHas
<1>3. IF InApp(b) THEN Show(b, shown) ELSE tab' = [tab EXCEPT ![b] = shown] /\ visits' = visits
  BY DEF Answered
<1>4. \A v \in more : v \in Wires /\ v.by = b /\ v.kind # "me" /\ Touches(v.kind) = {} /\ v.at = "asked"
  <2>1. "register" \in Kinds /\ w.n \in Number /\ "none" \in Address
    BY <1>1 DEF Kinds, Address, Wires
  <2>2. Wire(b, "register", w.n, "none") \in Wires
    BY <1>1, <2>1, WireType
  <2>3. LET v == Wire(b, "register", w.n, "none") IN v.by = b /\ v.kind = "register" /\ v.at = "asked"
    BY DEF Wire
  <2>4. Touches("register") = {}
    BY DEF Touches, FieldOf
  <2> QED
    BY <2>2, <2>3, <2>4
<1>5. lost \subseteq Fields /\ (w.left => \A f \in Fields \ FieldOf(w.kind) :
                                   f \notin lost => tab'[b].profile[f] = tab[b].profile[f])
  OBVIOUS
<1> HIDE DEF shown, more, lost
<1>6. /\ tab' \in [Browser -> Tabs] /\ visits' \in [Browser -> 0 .. NagEvery - 1]
      /\ tab'[b].at = tab[b].at /\ tab'[b].profile = shown.profile
      /\ \A c \in Browser \ {b} : tab'[c] = tab[c]
  <2>1. CASE InApp(b)
    <3>1. Show(b, shown)
      BY <1>3, <2>1
    <3> HIDE DEF b
    <3> QED
      BY <1>1, <1>2, <3>1, ShowHas
  <2>2. CASE ~InApp(b)
    BY <1>1, <1>2, <1>3, <2>2 DEF SecuritySorts
  <2> QED
    BY <2>1, <2>2
<1>7. SecuritySorts' /\ AddressProved'
  <2>1. unsure' \in [Browser -> SUBSET Fields]
    BY <1>1, <1>5 DEF SecuritySorts
  <2>2. wires' \subseteq Wires
    BY <1>1, <1>4 DEF SecuritySorts
  <2> QED
    BY <1>1, <1>4, <1>6, <2>1, <2>2, ProvedQuiet DEF SecurityInv, SecuritySorts, codeVars, passkeys
<1>8. MeAskedOnce'
  <2>1. \A v \in wires : v.by \in Browser /\ tab'[v.by].at = tab[v.by].at
    BY <1>1, <1>6 DEF SecuritySorts, Wires
  <2>2. \A v \in wires' : v.kind = "me" => v \in wires
    BY <1>1, <1>4
  <2> QED
    BY <2>1, <2>2 DEF SecurityInv, MeAskedOnce, InApp
<1>9. ASSUME NEW c \in Browser, NEW f \in Fields \ unsure'[c] PROVE Sure(c, f)'
  <2>1. Sure(c, f) /\ Known' = Known
    BY <1>1 DEF SecurityInv, SecuritySorts, Known
  <2>2. CASE c # b
    <3>1. \A v : (v \in wires' /\ v.by = c) <=> (v \in wires /\ v.by = c)
      BY <1>1, <1>4, <2>2
    <3> QED
      BY <1>6, <2>1, <2>2, <3>1, SureQuiet
  <2>3. CASE c = b
    <3>1. (AsksMe(c)' <=> AsksMe(c)) /\ (InApp(c)' <=> InApp(c)) /\ Touching(c, f)' = Touching(c, f) \ {w}
      BY <1>1, <1>4, <1>6, <2>3 DEF AsksMe, InApp, Touching
    <3>2. \A v \in wires' : v.kind = "me" => v \in wires
      BY <1>1, <1>4
    <3>3. \A v \in Touching(c, f)' : v \in Touching(c, f)
      BY <3>1
    <3>4. ASSUME InApp(c), ~AsksMe(c)
          PROVE  /\ (\A v \in Touching(c, f)' : v.at \notin {"ok", "lost"}) => tab'[c].profile[f] = Known[f]
                 /\ (\E v \in Touching(c, f)' : v.kind = "setup") => tab'[c].profile[f] = FALSE
      <4>1. w \in Touching(c, f) => Touching(c, f)' = {} /\ Gives(w)[f] = Known[f]
        BY <1>1, <2>1, <3>1 DEF Sure
      <4>2. CASE f \in FieldOf(w.kind)
        <5>1. w \in Touching(c, f)
          BY <1>1, <2>3, <4>2, TouchesFields DEF Touching, Wires
        <5> QED
          BY <1>2, <1>6, <2>3, <4>1, <4>2, <5>1
      <4>3. CASE f \notin FieldOf(w.kind)
        <5>1. f \notin lost
          BY <1>1, <2>3 DEF SecuritySorts
        <5>2. tab'[c].profile[f] = tab[c].profile[f]
          BY <1>2, <1>5, <1>6, <2>3, <4>3, <5>1
        <5>3. CASE w \in Touching(c, f)
          <6>1. w.kind = "setup" /\ f = "totp"
            BY <4>3, <5>3 DEF Touching, Touches
          <6>2. tab[c].profile[f] = FALSE
            BY <2>1, <3>4, <5>3, <6>1 DEF Sure
          <6>3. Gives(w)[f] = FALSE
            BY <6>1 DEF Gives
          <6> QED
            BY <4>1, <5>2, <5>3, <6>2, <6>3
        <5>4. CASE w \notin Touching(c, f)
          <6>1. Touching(c, f)' = Touching(c, f)
            BY <3>1, <5>4
          <6> QED
            BY <2>1, <3>4, <5>2, <6>1 DEF Sure
        <5> QED
          BY <5>3, <5>4
      <4> QED
        BY <4>2, <4>3
    <3>5. \A v \in Touching(c, f)' : v.at = "ok" => Gives(v)[f] = Known'[f]
      BY <2>1, <3>3 DEF Sure
    <3>6. AsksMe(c)' => Touching(c, f)' = {}
      BY <2>1, <3>1 DEF Sure
    <3>7. \A v \in wires' : v.by = c /\ v.kind = "me" /\ v.at = "ok" => v.base[f] = Known'[f]
      BY <2>1, <3>2 DEF Sure
    <3>8. \A u, v \in Touching(c, f)' : u = v
      BY <2>1, <3>3 DEF Sure
    <3> QED
      BY <2>1, <3>1, <3>4, <3>5, <3>6, <3>7, <3>8 DEF Sure, Gives
  <2> QED
    BY <2>2, <2>3
<1> QED
  BY <1>7, <1>8, <1>9 DEF SecurityInv

-----------------------------------------------------------------------------

LEMMA SecurityInitInv == SecurityInit => SecurityInv
<1> SUFFICES ASSUME SecurityInit PROVE SecurityInv
  OBVIOUS
<1>1. 0 \in Number /\ "none" \in Address /\ 0 \in 0 .. NagEvery - 1 /\ SignedOut \in Tabs
  BY SecurityAssumption, BareType DEF Number, Address
<1>2. SecuritySorts
  BY <1>1 DEF SecurityInit, SecuritySorts, NoCode, NoRow, Rows
<1>3. AddressProved /\ MeAskedOnce
  BY DEF SecurityInit, AddressProved, RowProved, NoRow, Proving, MeAskedOnce
<1>4. ASSUME NEW b \in Browser, NEW f \in Fields PROVE Sure(b, f)
  <2>1. ~InApp(b)
    BY DEF SecurityInit, InApp, SignedOut
  <2> QED
    BY <2>1 DEF SecurityInit, Sure, Touching, AsksMe
<1> QED
  BY <1>2, <1>3, <1>4 DEF SecurityInv

LEMMA SecurityNextInv == SecurityInv /\ [SecurityNext]_securityVars => SecurityInv'
<1> SUFFICES ASSUME SecurityInv, [SecurityNext]_securityVars PROVE SecurityInv'
  OBVIOUS
<1>1. ASSUME NEW b \in Browser, SignIn(b) PROVE SecurityInv'
  <2>1. CASE Methods = {}
    <3>1. ~InApp(b) /\ Enter(b) /\ UNCHANGED <<totp, contact, emailOn, copies, codeVars, passkeys, presses>>
      BY <1>1, <2>1 DEF SignIn, InApp
    <3> QED
      BY <3>1, EnterKeeps
  <2>2. CASE Methods # {}
    <3> DEFINE asked == [tab[b] EXCEPT !.at = "factor", !.methods = Methods]
    <3>1. Methods \in SUBSET {"passkey", "totp", "email"}
      BY DEF Methods
    <3>2. asked \in Tabs /\ asked.at = "factor" /\ asked.profile = tab[b].profile
      <4>1. tab[b] \in Tabs
        BY DEF SecurityInv, SecuritySorts
      <4> HIDE DEF Methods
      <4> QED
        BY <3>1, <4>1 DEF Tabs
    <3>3. /\ tab' = [tab EXCEPT ![b] = asked] /\ tab[b].at = "login"
          /\ UNCHANGED <<totp, contact, emailOn, copies, codeVars, passkeys, visits, presses, wires, unsure>>
      BY <1>1, <2>2 DEF SignIn, SecurityInv, SecuritySorts
    <3> HIDE DEF asked
    <3>4. /\ tab' \in [Browser -> Tabs] /\ ~InApp(b) /\ ~InApp(b)'
          /\ \A c \in Browser \ {b} : tab'[c] = tab[c]
      BY <3>2, <3>3 DEF SecurityInv, SecuritySorts, InApp
    <3>5. SecuritySorts' /\ AddressProved'
      BY <3>3, <3>4, ProvedQuiet DEF SecurityInv, SecuritySorts, codeVars, passkeys
    <3>6. \A c \in Browser : InApp(c)' <=> InApp(c)
      BY <3>4 DEF InApp
    <3>7. MeAskedOnce'
      BY <3>3, <3>6 DEF SecurityInv, MeAskedOnce, SecuritySorts, Wires
    <3>8. ASSUME NEW c \in Browser, NEW f \in Fields \ unsure'[c] PROVE Sure(c, f)'
      <4>1. Sure(c, f) /\ Known'[f] = Known[f]
        BY <3>3 DEF SecurityInv, Known
      <4>2. CASE c # b
        BY <3>3, <3>4, <4>1, <4>2, SureQuiet
      <4>3. CASE c = b
        <5>1. Touching(b, f)' = Touching(b, f) /\ (AsksMe(b)' <=> AsksMe(b))
          BY <3>3 DEF Touching, AsksMe
        <5> QED
          BY <3>3, <3>4, <4>1, <4>3, <5>1 DEF Sure, Gives
      <4> QED
        BY <4>2, <4>3
    <3> QED
      BY <3>5, <3>7, <3>8 DEF SecurityInv
  <2> QED
    BY <2>1, <2>2
<1>2. ASSUME NEW b \in Browser, PassFactor(b) PROVE SecurityInv'
  <2>1. ~InApp(b) /\ Enter(b) /\ UNCHANGED <<totp, contact, emailOn, copies, codeVars, passkeys, presses>>
    BY <1>2 DEF PassFactor, InApp
  <2> QED
    BY <2>1, EnterKeeps
<1>3. ASSUME NEW b \in Browser, SignOut(b) \/ NewTab(b) \/ OpenSecurity(b) \/ LeaveSecurity(b)
      PROVE  SecurityInv'
  BY <1>3, PagesKeep
<1>4. ASSUME NEW b \in Browser, PressButton(b) PROVE SecurityInv'
  BY <1>4, PressKeepsSure
<1>5. ASSUME NEW w \in wires, Served(w) PROVE SecurityInv'
  BY <1>5, ServedKeeps
<1>6. ASSUME NEW w \in wires, ReadRow(w) \/ TakeCode(w) \/ Refused(w) \/ ServeMe(w)
                              \/ Answered(w) \/ MeAnswered(w) \/ Failed(w)
      PROVE  SecurityInv'
  BY <1>6, GoesOnKeeps, ServeMeKeeps, AnsweredKeeps, MeAnsweredKeeps, FailedKeeps
<1>7. ASSUME NEW v \in Writer, OtherReads(v) \/ OtherWrites(v) PROVE SecurityInv'
  BY <1>7, RowWritersKeep
<1>8. CASE CodeExpires \/ UNCHANGED securityVars
  BY <1>8, CodeExpiresKeeps
<1> QED
  BY <1>1, <1>2, <1>3, <1>4, <1>5, <1>6, <1>7, <1>8 DEF SecurityNext, Served

\* The invariant of the Security page: a field that is not unsure has at most one
\* request about it, and what is on its way, then shown, is what the server has.
THEOREM SecurityInvariant == SecuritySpec => []SecurityInv
BY SecurityInitInv, SecurityNextInv, PTL DEF SecuritySpec

\* With no answer to come, the page shows the factors and the address there are.
THEOREM ProfileAsIs == SecuritySpec => []ShownAsIs
<1>1. SecurityInv => ShownAsIs
  BY DEF SecurityInv, ShownAsIs, Sure, AsksMe, Touching
<1> QED
  BY <1>1, SecurityInvariant, PTL

\* The email factor is on with an address that was proved.
THEOREM AddressWasProved == SecuritySpec => []EmailWasProved
<1>1. SecurityInv => EmailWasProved
  BY DEF SecurityInv, SecuritySorts, AddressProved, EmailWasProved
<1> QED
  BY <1>1, SecurityInvariant, PTL

=============================================================================
