------------------------- MODULE WebmailPagesProofs -------------------------
(***************************************************************************)
(* Proofs about Booking, for any number of visitors, any opening hours and *)
(* any set of durations; about MailFolders, for any messages, folders and  *)
(* rules; and about Reading, for any folders and messages.                 *)
(***************************************************************************)
EXTENDS Booking, MailFolders, Reading, FiniteSetTheorems, TLAPS

(***************************************************************************)
(* Booking.                                                                *)
(***************************************************************************)

LEMMA IdleType == Idle \in Local /\ Idle.pc = "idle"
  BY DurationAssumption DEF Idle, Local, Time

LEMMA LocalFields ==
  ASSUME NEW l \in Local
  PROVE  /\ l.pc \in {"idle", "begin", "insert"} /\ l.start \in Time
         /\ l.mins \in Nat /\ l.raced \in BOOLEAN
  BY DEF Local

\* The row a transaction inserts.
NewRow(r, i) == [id |-> i, start |-> req[r].start,
                 finish |-> req[r].start + req[r].mins, cancelled |-> FALSE]

\* Every reachable state is well typed.
THEOREM TypeCorrect == Spec => []TypeOK
<1>1. Init => TypeOK
  <2> SUFFICES ASSUME Init PROVE TypeOK
    OBVIOUS
  <2>1. link \in Link
    BY DEF Init, Link
  <2> QED
    BY <2>1, IdleType DEF Init, TypeOK
<1>2. TypeOK /\ [Next]_vars => TypeOK'
  <2> SUFFICES ASSUME TypeOK, [Next]_vars PROVE TypeOK'
    OBVIOUS
  <2> USE DEF TypeOK
  <2>1. ASSUME NEW r \in Req, NEW t \in Time, Submit(r, t) PROVE TypeOK'
    <3>1. link.durationMins \in Nat
      BY DurationAssumption DEF Link
    <3>2. [pc |-> "begin", start |-> t, mins |-> link.durationMins, raced |-> FALSE] \in Local
      BY <3>1 DEF Local
    <3> QED
      BY <2>1, <3>2 DEF Submit
  <2>2. ASSUME NEW r \in Req, TxRead(r) PROVE TypeOK'
    <3>1. [req[r] EXCEPT !.pc = "insert", !.raced = FALSE] \in Local
      BY DEF Local
    <3>2. req'[r] \in Local /\ req' = [req EXCEPT ![r] = req'[r]]
      BY <2>2, <3>1, IdleType DEF TxRead
    <3> QED
      BY <2>2, <3>2 DEF TxRead
  <2>3. ASSUME NEW r \in Req, NEW i \in Id, TxCommit(r, i) PROVE TypeOK'
    <3>1. req[r].start \in Time /\ req[r].mins \in Nat
      BY LocalFields
    <3>c. req[r].start + req[r].mins \in Nat
      BY <3>1, DurationAssumption DEF Time
    <3>2. NewRow(r, i) \in Row
      BY <3>1, <3>c DEF NewRow, Row
    <3>a. rows' = rows \union {NewRow(r, i)}
      BY <2>3 DEF TxCommit, NewRow
    <3>3. rows' \subseteq Row
      BY <3>a, <3>2
    <3>b. \A q \in Req : [req[q] EXCEPT !.raced = TRUE] \in Local
      BY DEF Local
    <3>4. req' \in [Req -> Local]
      BY <2>3, <3>b, IdleType DEF TxCommit
    <3> QED
      BY <2>3, <3>3, <3>4 DEF TxCommit
  <2>4. ASSUME NEW r \in Req, TxAbort(r) PROVE TypeOK'
    BY <2>4, IdleType DEF TxAbort
  <2>5. ASSUME NEW b \in rows, CancelBooking(b) PROVE TypeOK'
    <3>1. [b EXCEPT !.cancelled = TRUE] \in Row
      BY DEF Row
    <3> QED
      BY <2>5, <3>1 DEF CancelBooking
  <2>6. ASSUME NEW d \in Durations, NEW h \in Hours, UpdateLink(d, h) PROVE TypeOK'
    BY <2>6 DEF UpdateLink, Link
  <2>7. CASE DeleteLink
    BY <2>7 DEF DeleteLink, Link
  <2>8. CASE Tick
    BY <2>8 DEF Tick
  <2>9. CASE UNCHANGED vars
    BY <2>9 DEF vars
  <2> QED
    BY <2>1, <2>2, <2>3, <2>4, <2>5, <2>6, <2>7, <2>8, <2>9 DEF Next
<1> QED
  BY <1>1, <1>2, PTL DEF Spec

-----------------------------------------------------------------------------
(* Double booking.  A transaction that can still commit has checked a      *)
(* snapshot nothing was added to since, so its time is still free.         *)

StillFree ==
  \A r \in Req : req[r].pc = "insert" /\ ~req[r].raced =>
    \A b \in Live : b.start # req[r].start

\* Keys are given out once.
KeysSpent ==
  /\ \A b \in rows : b.id \in spent
  /\ \A b, c \in rows : b.id = c.id => b = c

BInv == StillFree /\ KeysSpent /\ NoDoubleBooking

\* How each kind of step changes the bookings that stand.
LEMMA LiveCommit ==
  ASSUME NEW r \in Req, NEW i \in Id, TxCommit(r, i)
  PROVE  Live' = Live \union {NewRow(r, i)}
  BY DEF TxCommit, Live, NewRow

LEMMA LiveCancel ==
  ASSUME TypeOK, NEW b \in rows, CancelBooking(b)
  PROVE  Live' = Live \ {b}
<1>1. [b EXCEPT !.cancelled = TRUE].cancelled = TRUE
  BY DEF TypeOK, Row
<1> QED
  BY <1>1 DEF CancelBooking, Live

LEMMA StepBInv == TypeOK /\ BInv /\ [Next]_vars => BInv'
<1> SUFFICES ASSUME TypeOK, BInv, [Next]_vars PROVE BInv'
  OBVIOUS
<1>1. ASSUME NEW r \in Req, NEW t \in Time, Submit(r, t) PROVE BInv'
  <2>1. \A q \in Req : req'[q].pc = "insert" => req'[q] = req[q]
    BY <1>1 DEF Submit, TypeOK
  <2>2. Live' = Live /\ rows' = rows /\ spent' = spent
    BY <1>1 DEF Submit, Live
  <2> QED
    BY <2>1, <2>2 DEF BInv, StillFree, KeysSpent, NoDoubleBooking
<1>2. ASSUME NEW r \in Req, TxRead(r) PROVE BInv'
  <2>1. Live' = Live /\ rows' = rows /\ spent' = spent
    BY <1>2 DEF TxRead, Live
  <2>2. \A q \in Req \ {r} : req'[q] = req[q]
    BY <1>2 DEF TxRead, TypeOK
  <2>3. ASSUME req'[r].pc = "insert" PROVE \A b \in Live : b.start # req'[r].start
    <3>1. req[r].start \in Available /\ req'[r].start = req[r].start
      BY <1>2, <2>3, IdleType DEF TxRead, TypeOK, Local
    <3>2. req[r].start > now /\ req[r].start \notin Taken
      BY <3>1 DEF Available
    <3>3. \A b \in Live : b.start >= now => b.start \in Taken
      BY DEF Taken
    <3>4. req[r].start \in Nat /\ now \in Nat
      BY LocalFields DEF TypeOK, Time
    <3> QED
      BY <3>1, <3>2, <3>3, <3>4
  <2>4. StillFree'
    BY <2>1, <2>2, <2>3 DEF BInv, StillFree
  <2> QED
    BY <2>1, <2>4 DEF BInv, KeysSpent, NoDoubleBooking
<1>3. ASSUME NEW r \in Req, NEW i \in Id, TxCommit(r, i) PROVE BInv'
  <2>1. Live' = Live \union {NewRow(r, i)}
    BY <1>3, LiveCommit
  <2>2. NewRow(r, i).start = req[r].start /\ NewRow(r, i).id = i
    BY DEF NewRow
  <2>3. /\ rows' = rows \union {NewRow(r, i)} /\ spent' = spent \union {i}
        /\ i \notin spent /\ req[r].pc = "insert" /\ ~req[r].raced
    BY <1>3 DEF TxCommit, NewRow
  <2>4. \A b \in Live : b.start # NewRow(r, i).start
    BY <2>2, <2>3 DEF BInv, StillFree
  <2>5. NoDoubleBooking'
    BY <2>1, <2>4 DEF BInv, NoDoubleBooking
  <2>6. KeysSpent'
    BY <2>2, <2>3 DEF BInv, KeysSpent
  <2>7. \A q \in Req : req'[q].pc = "insert" => req'[q].raced
    BY <1>3, IdleType DEF TxCommit, TypeOK, Local
  <2> QED
    BY <2>5, <2>6, <2>7 DEF BInv, StillFree
<1>4. ASSUME NEW r \in Req, TxAbort(r) PROVE BInv'
  <2>1. \A q \in Req : req'[q].pc = "insert" => req'[q] = req[q]
    BY <1>4, IdleType DEF TxAbort, TypeOK
  <2>2. Live' = Live /\ rows' = rows /\ spent' = spent
    BY <1>4 DEF TxAbort, Live
  <2> QED
    BY <2>1, <2>2 DEF BInv, StillFree, KeysSpent, NoDoubleBooking
<1>5. ASSUME NEW b \in rows, CancelBooking(b) PROVE BInv'
  <2>1. Live' \subseteq Live
    BY <1>5, LiveCancel
  <2>2. spent' = spent /\ req' = req
    BY <1>5 DEF CancelBooking
  <2>3. [b EXCEPT !.cancelled = TRUE].id = b.id
    BY DEF TypeOK, Row
  <2>4. KeysSpent'
    BY <1>5, <2>3 DEF CancelBooking, BInv, KeysSpent
  <2> QED
    BY <2>1, <2>2, <2>4 DEF BInv, StillFree, NoDoubleBooking
<1>6. ASSUME NEW d \in Durations, NEW h \in Hours, UpdateLink(d, h) PROVE BInv'
  BY <1>6 DEF UpdateLink, BInv, StillFree, KeysSpent, NoDoubleBooking, Live
<1>7. CASE DeleteLink
  BY <1>7 DEF DeleteLink, BInv, StillFree, KeysSpent, NoDoubleBooking, Live
<1>8. CASE Tick \/ UNCHANGED vars
  BY <1>8 DEF Tick, vars, BInv, StillFree, KeysSpent, NoDoubleBooking, Live
<1> QED
  BY <1>1, <1>2, <1>3, <1>4, <1>5, <1>6, <1>7, <1>8 DEF Next

THEOREM Inductive == Spec => []BInv
<1>1. Init => BInv
  BY IdleType DEF Init, BInv, StillFree, KeysSpent, NoDoubleBooking, Live
<1> QED
  BY <1>1, StepBInv, TypeCorrect, PTL DEF Spec

\* No two standing bookings begin at the same time.
THEOREM NeverDouble == Spec => []NoDoubleBooking
<1>1. BInv => NoDoubleBooking
  BY DEF BInv
<1> QED
  BY Inductive, <1>1, PTL

-----------------------------------------------------------------------------
(* Refinement: every step is a step of Appointments or changes nothing.    *)

LEMMA StepPage == TypeOK /\ BInv /\ [Next]_vars => [Page!ANext]_Held
<1> SUFFICES ASSUME TypeOK, BInv, [Next]_vars PROVE Page!ANext \/ Held' = Held
  OBVIOUS
<1>1. ASSUME NEW r \in Req, NEW i \in Id, TxCommit(r, i) PROVE Page!ANext
  <2> DEFINE t == req[r].start
  <2>1. t \in Time
    BY LocalFields DEF TypeOK
  <2>2. Live' = Live \union {NewRow(r, i)}
    BY <1>1, LiveCommit
  <2>3. NewRow(r, i).start = t /\ NewRow(r, i).id = i
    BY DEF NewRow
  <2>4. Held' = Held \union {[id |-> i, start |-> t]}
    BY <2>2, <2>3 DEF Held
  <2>5. \A b \in Live : b.start # t /\ b.id # i
    BY <1>1 DEF TxCommit, BInv, StillFree, KeysSpent, Live
  <2>6. \A a \in Held : a.start # t /\ a.id # i
    BY <2>5 DEF Held
  <2>7. Page!Make(i, t)
    BY <2>4, <2>6 DEF Page!Make
  <2> QED
    BY <2>1, <2>7 DEF Page!ANext
<1>2. ASSUME Live' \subseteq Live PROVE Page!ANext
  <2> DEFINE S == Held \ Held'
  <2>1. Held' \subseteq Held
    BY <1>2 DEF Held
  <2>2. S \in SUBSET Held /\ Held' = Held \ S
    BY <2>1
  <2>3. Page!Drop(S)
    BY <2>2 DEF Page!Drop
  <2> QED
    BY <2>2, <2>3 DEF Page!ANext
<1>3. ASSUME NEW b \in rows, CancelBooking(b) PROVE Live' \subseteq Live
  BY <1>3, LiveCancel
<1>4. ASSUME DeleteLink PROVE Live' \subseteq Live
  BY <1>4 DEF DeleteLink, Live
<1>5. ASSUME UNCHANGED rows PROVE Held' = Held
  BY <1>5 DEF Held, Live
<1> QED
  BY <1>1, <1>2, <1>3, <1>4, <1>5
  DEF Next, vars, Submit, TxRead, TxAbort, UpdateLink, Tick

\* Booking implements Appointments.
THEOREM KeepsPromise == Spec => PageSpec
<1>1. Init => Page!AInit
  BY DEF Init, Live, Held, Page!AInit
<1> QED
  BY <1>1, StepPage, TypeCorrect, Inductive, PTL DEF Spec, PageSpec, Page!ASpec

-----------------------------------------------------------------------------
(* The grid.  As long as the owner changes neither duration nor hours, all *)
(* bookings lie on the slots of the link as it is now.                     *)

OnGrid ==
  ~regrid =>
    /\ \A b \in Live : b.start \in Slots(link) /\ b.finish = b.start + link.durationMins
    /\ \A r \in Req : req[r].pc # "idle" => req[r].mins = link.durationMins
    /\ \A r \in Req : req[r].pc = "insert" => req[r].start \in Slots(link)

\* Two multiples of d that differ are at least d apart.
LEMMA Apart ==
  ASSUME NEW d \in Nat \ {0}, NEW x \in Nat, NEW y \in Nat,
         x % d = 0, y % d = 0, x < y
  PROVE  x + d <= y
<1>1. /\ x = d * (x \div d) + (x % d) /\ x \div d \in Nat
      /\ y = d * (y \div d) + (y % d) /\ y \div d \in Nat
  OBVIOUS
<1> DEFINE a == x \div d
           b == y \div d
<1>2. x = d * a /\ y = d * b /\ a \in Nat /\ b \in Nat
  BY <1>1
<1> HIDE DEF a, b
<1>3. a < b
  <2>1. SUFFICES ASSUME b <= a PROVE FALSE
    BY <1>2
  <2>2. d * b <= d * a
    BY <1>2, <2>1
  <2> QED
    BY <1>2, <2>2
<1>4. d * (a + 1) <= d * b
  BY <1>2, <1>3
<1>5. d * (a + 1) = d * a + d
  BY <1>2
<1> QED
  BY <1>2, <1>4, <1>5

LEMMA StepOnGrid == TypeOK /\ OnGrid /\ [Next]_vars => OnGrid'
<1> SUFFICES ASSUME TypeOK, OnGrid, [Next]_vars, ~regrid' PROVE OnGrid'
  BY DEF OnGrid
<1>1. ASSUME NEW r \in Req, NEW t \in Time, Submit(r, t) PROVE OnGrid'
  BY <1>1 DEF Submit, TypeOK, OnGrid, Live
<1>2. ASSUME NEW r \in Req, TxRead(r) PROVE OnGrid'
  <2>1. link' = link /\ Live' = Live /\ regrid' = regrid
    BY <1>2 DEF TxRead, Live
  <2>2. \A q \in Req \ {r} : req'[q] = req[q]
    BY <1>2 DEF TxRead, TypeOK
  <2>3. \/ req'[r] = Idle
        \/ /\ req'[r].mins = req[r].mins /\ req'[r].start = req[r].start
           /\ req[r].start \in Available /\ req[r].pc = "begin"
    BY <1>2 DEF TxRead, TypeOK, Local
  <2> QED
    BY <2>1, <2>2, <2>3, IdleType DEF OnGrid, Available
<1>3. ASSUME NEW r \in Req, NEW i \in Id, TxCommit(r, i) PROVE OnGrid'
  <2>1. link' = link /\ regrid' = regrid /\ Live' = Live \union {NewRow(r, i)}
        /\ req[r].pc = "insert"
    BY <1>3, LiveCommit DEF TxCommit
  <2>2. NewRow(r, i).start = req[r].start /\ NewRow(r, i).finish = req[r].start + req[r].mins
    BY DEF NewRow
  <2>3. \A q \in Req : \/ req'[q] = Idle
                       \/ /\ req'[q].pc = req[q].pc /\ req'[q].mins = req[q].mins
                          /\ req'[q].start = req[q].start
    BY <1>3 DEF TxCommit, TypeOK, Local
  <2> QED
    BY <2>1, <2>2, <2>3, IdleType DEF OnGrid
<1>4. ASSUME NEW r \in Req, TxAbort(r) PROVE OnGrid'
  BY <1>4, IdleType DEF TxAbort, TypeOK, OnGrid, Live
<1>5. ASSUME NEW b \in rows, CancelBooking(b) PROVE OnGrid'
  <2>1. Live' \subseteq Live
    BY <1>5, LiveCancel
  <2> QED
    BY <1>5, <2>1 DEF CancelBooking, OnGrid
<1>6. ASSUME NEW d \in Durations, NEW h \in Hours, UpdateLink(d, h) PROVE OnGrid'
  BY <1>6 DEF UpdateLink, OnGrid, Live
<1>7. CASE DeleteLink
  <2>1. Slots(link') = Slots(link) /\ link'.durationMins = link.durationMins
    BY <1>7 DEF DeleteLink, Slots, TypeOK, Link
  <2>2. Live' = {} /\ req' = req /\ regrid' = regrid
    BY <1>7 DEF DeleteLink, Live
  <2> QED
    BY <2>1, <2>2 DEF OnGrid
<1>8. CASE Tick \/ UNCHANGED vars
  BY <1>8 DEF Tick, vars, OnGrid, Live
<1> QED
  BY <1>1, <1>2, <1>3, <1>4, <1>5, <1>6, <1>7, <1>8 DEF Next

\* Slots of one window that differ do not overlap.
LEMMA SlotsApart ==
  ASSUME NEW d \in Nat \ {0}, NEW w \in Window, NEW s \in Cut(w, d), NEW t \in Cut(w, d), s < t
  PROVE  s + d <= t
<1>1. s \in Nat /\ t \in Nat /\ w.opens \in Nat
  BY DurationAssumption DEF Cut, Window, Time
<1>2. s - w.opens \in Nat /\ t - w.opens \in Nat /\ (s - w.opens) % d = 0 /\ (t - w.opens) % d = 0
  BY <1>1 DEF Cut
<1>3. s - w.opens < t - w.opens
  BY <1>1
<1>4. (s - w.opens) + d <= t - w.opens
  BY <1>2, <1>3, Apart
<1> QED
  BY <1>1, <1>4

\* Bookings on an unchanged grid end within their window, and overlap only where
\* the windows do.
THEOREM NeverOverlap == Spec => []GridKept
<1>1. Init => OnGrid
  BY IdleType DEF Init, OnGrid, Live
<1>2. TypeOK /\ NoDoubleBooking /\ OnGrid => GridKept
  <2> SUFFICES ASSUME TypeOK, NoDoubleBooking, OnGrid, ~regrid
               PROVE  /\ \A b \in Live : \E w \in link.availability : w.opens <= b.start /\ b.finish <= w.closes
                      /\ WindowsApart => NoOverlap
    BY DEF GridKept
  <2> DEFINE d == link.durationMins
             A == link.availability
  <2>1. d \in Nat \ {0} /\ A \subseteq Window
    BY DurationAssumption DEF TypeOK, Link
  <2>2. \A b \in Live : b.start \in Slots(link) /\ b.finish = b.start + d
    BY DEF OnGrid
  <2>3. \A b \in Live : \E w \in A : b.start \in Cut(w, d)
    BY <2>2 DEF Slots
  <2> HIDE DEF d, A
  <2>4. ASSUME NEW b \in Live, NEW w \in A, b.start \in Cut(w, d)
        PROVE  /\ b.start \in Nat /\ w.opens \in Nat /\ w.closes \in Nat /\ b.finish \in Nat
               /\ w.opens <= b.start /\ b.finish <= w.closes
    <3>1. w.opens \in Nat /\ w.closes \in Nat
      BY <2>1, DurationAssumption DEF Window, Time
    <3>2. b.start \in Nat /\ b.start >= w.opens /\ b.start + d <= w.closes
      BY <2>4, DurationAssumption DEF Cut, Time
    <3> QED
      BY <2>1, <2>2, <3>1, <3>2
  <2>5. ASSUME NEW b \in Live, NEW c \in Live, WindowsApart, Overlap(b, c) PROVE b = c
    <3>1. PICK v \in A, w \in A : b.start \in Cut(v, d) /\ c.start \in Cut(w, d)
      BY <2>3
    <3>2. /\ b.start \in Nat /\ v.opens \in Nat /\ v.closes \in Nat /\ b.finish \in Nat
          /\ v.opens <= b.start /\ b.finish <= v.closes
      BY <2>4, <3>1
    <3>3. /\ c.start \in Nat /\ w.opens \in Nat /\ w.closes \in Nat /\ c.finish \in Nat
          /\ w.opens <= c.start /\ c.finish <= w.closes
      BY <2>4, <3>1
    <3>4. v = w
      <4>1. v = w \/ v.closes <= w.opens \/ w.closes <= v.opens
        BY <2>5 DEF WindowsApart, A
      <4> QED
        BY <2>5, <3>2, <3>3, <4>1 DEF Overlap
    <3>5. ~(b.start < c.start)
      <4>1. b.start < c.start => b.start + d <= c.start
        BY <2>1, <3>1, <3>4, SlotsApart
      <4> QED
        BY <2>1, <2>2, <2>5, <3>2, <3>3, <4>1 DEF Overlap
    <3>6. ~(c.start < b.start)
      <4>1. c.start < b.start => c.start + d <= b.start
        BY <2>1, <3>1, <3>4, SlotsApart
      <4> QED
        BY <2>1, <2>2, <2>5, <3>2, <3>3, <4>1 DEF Overlap
    <3> QED
      BY <3>2, <3>3, <3>5, <3>6 DEF NoDoubleBooking
  <2> QED
    BY <2>3, <2>4, <2>5 DEF NoOverlap, A
<1> QED
  BY <1>1, <1>2, StepOnGrid, TypeCorrect, NeverDouble, PTL DEF Spec

-----------------------------------------------------------------------------
(***************************************************************************)
(* MailFolders.                                                            *)
(***************************************************************************)

Arrived == {m \in Msg : at[m] # "away"}

\* A UID names one message of its folder.
Unique ==
  \A m, n \in Msg : at[m] \in Folder /\ at[m] = at[n] /\ uid[m] = uid[n] => m = n

Mailbox == FoldersType /\ IsFiniteSet(Arrived) /\ Unique

\* The UIDs in `us` were given out in folder f, if it is still there, and name no
\* message there but those of `ms`.
Names(f, us, ms) ==
  /\ f \in Folder /\ us \subseteq Nat
  /\ \A u \in us : AtUid(f, u) \subseteq ms /\ (f \in There => u < next[f])

\* The page that still shows a folder by its old name.
ShowsOld == change.done /\ change.to # "INBOX" /\ view = change.from /\ view \notin made

\* What is ticked, and what a bulk action has left, are the messages it was
\* when they were ticked; so they will be once the page knows the new name.
AllNamed ==
  /\ Names(view, ticks, meant) /\ Names(bulk.from, bulk.left, bulk.meant)
  /\ ShowsOld => Names(change.to, ticks, meant)

FoldersInv ==
  /\ Mailbox
  /\ bulk.act = "none" => bulk.left = {}
  /\ change # NoChange /\ ~change.done => change.from \in made
  /\ change.done /\ change.to # "INBOX" => change.to \in made
  /\ ~carried => ~strayed /\ AllNamed

\* What a request does to messages at most: a message stays, is gone, or has a
\* new UID in its folder.
Moves ==
  /\ at' \in [Msg -> Folder \union {"away", "gone"}]
  /\ uid' \in [Msg -> 0 .. MaxUid] /\ next' \in [Folder -> 1 .. MaxUid + 1]
  /\ \A f \in Folder : next[f] <= next'[f]
  /\ \A m \in Msg :
       \/ at'[m] = at[m] /\ uid'[m] = uid[m]
       \/ at'[m] = "gone"
       \/ /\ at'[m] \in There
          /\ next[at'[m]] <= uid'[m] /\ uid'[m] < next'[at'[m]]
  /\ IsFiniteSet(Arrived') /\ Unique'

LEMMA FolderNames ==
  /\ Kept \subseteq Folder /\ "away" \notin Folder /\ "gone" \notin Folder
  /\ Custom \intersect Kept = {}
  BY MailFoldersAssumption DEF Kept, Folder

LEMMA ThereIsFolder ==
  ASSUME FoldersType PROVE There \subseteq Folder
  BY DEF FoldersType, There, Folder

\* Messages of one folder, or of none.
OfOneFolder(S) ==
  \A m, n \in S : m = n \/ (at[m] \in Folder /\ at[m] = at[n])

\* Messages arrive with the UIDs that come next.
LEMMA MoveAllMoves ==
  ASSUME Mailbox, NEW S \in SUBSET Msg, IsFiniteSet(S), OfOneFolder(S),
         NEW f \in There, MoveAll(S, f)
  PROVE  Moves
<1> USE DEF Mailbox
<1> DEFINE before(m) == {n \in S : uid[n] < uid[m]}
<1>f. f \in Folder
  BY ThereIsFolder
<1>n. next \in [Folder -> 1 .. MaxUid + 1] /\ uid \in [Msg -> 0 .. MaxUid] /\ MaxUid \in Nat
  BY MailFoldersAssumption DEF FoldersType
<1>c. Cardinality(S) \in Nat
  BY FS_CardinalityType
<1>1. ASSUME NEW m \in S
      PROVE  Cardinality(before(m)) \in Nat /\ Cardinality(before(m)) < Cardinality(S)
  <2>1. before(m) \in SUBSET S /\ m \notin before(m)
    BY <1>n
  <2> HIDE DEF before
  <2>2. IsFiniteSet(before(m)) /\ Cardinality(before(m)) <= Cardinality(S)
        /\ Cardinality(before(m)) # Cardinality(S)
    BY <2>1, FS_Subset
  <2>3. Cardinality(before(m)) \in Nat
    BY <2>2, FS_CardinalityType
  <2> QED
    BY <2>2, <2>3, <1>c
<1>2. /\ next[f] + Cardinality(S) <= MaxUid + 1
      /\ at' = [m \in Msg |-> IF m \in S THEN f ELSE at[m]]
      /\ uid' = [m \in Msg |-> IF m \in S THEN next[f] + Cardinality(before(m)) ELSE uid[m]]
      /\ next' = [next EXCEPT ![f] = @ + Cardinality(S)]
  BY DEF MoveAll
<1> HIDE DEF before
<1>3. next' \in [Folder -> 1 .. MaxUid + 1] /\ next'[f] = next[f] + Cardinality(S)
      /\ \A g \in Folder : next[g] <= next'[g]
  BY <1>f, <1>n, <1>c, <1>2
<1>4. \A m \in S : uid'[m] \in 0 .. MaxUid /\ next[f] <= uid'[m] /\ uid'[m] < next'[f] /\ at'[m] = f
  BY <1>f, <1>n, <1>c, <1>1, <1>2, <1>3
<1>5. \A m \in Msg \ S : uid'[m] = uid[m] /\ at'[m] = at[m]
  BY <1>2
<1>6. uid' \in [Msg -> 0 .. MaxUid]
  <2>1. \A m \in Msg : uid'[m] \in 0 .. MaxUid
    BY <1>4, <1>5, <1>n
  <2>2. DOMAIN uid' = Msg /\ uid' = [m \in Msg |-> uid'[m]]
    BY <1>2
  <2> QED
    BY <2>1, <2>2
<1>7. at' \in [Msg -> Folder \union {"away", "gone"}]
  BY <1>f, <1>2 DEF FoldersType
<1>8. IsFiniteSet(Arrived')
  <2>1. IsFiniteSet(Arrived \union S)
    BY FS_Union
  <2>2. Arrived' \in SUBSET (Arrived \union S)
    BY <1>5 DEF Arrived
  <2> QED
    BY <2>1, <2>2, FS_Subset
<1>9. Unique'
  <2>1. ASSUME NEW m \in S, NEW n \in S, uid'[m] = uid'[n] PROVE m = n
    <3>1. uid[m] \in Nat /\ uid[n] \in Nat
      BY <1>n
    <3>2. ASSUME NEW x \in S, NEW y \in S, uid[x] < uid[y], uid[x] \in Nat, uid[y] \in Nat
          PROVE  uid'[x] # uid'[y]
      <4>1. before(x) \in SUBSET before(y) /\ before(x) # before(y)
        <5>1. \A z \in S : uid[z] \in Nat
          BY <1>n
        <5> QED
          BY <3>2, <5>1 DEF before
      <4>2. before(y) \in SUBSET S
        BY DEF before
      <4>3. Cardinality(before(x)) # Cardinality(before(y))
        BY <4>1, <4>2, FS_Subset
      <4>4. uid'[x] = next[f] + Cardinality(before(x)) /\ uid'[y] = next[f] + Cardinality(before(y))
        BY <1>2
      <4> QED
        BY <4>3, <4>4, <1>1, <1>f, <1>n
    <3>3. uid[m] = uid[n]
      BY <2>1, <3>1, <3>2
    <3> QED
      BY <3>3 DEF OfOneFolder, Unique
  <2>2. ASSUME NEW m \in S, NEW n \in Msg \ S, at'[n] = f PROVE uid'[m] # uid'[n]
    <3>1. at[n] = f /\ uid'[n] = uid[n]
      BY <1>5, <2>2
    <3>2. uid[n] \in 1 .. next[f] - 1
      BY <3>1, <1>f DEF FoldersType
    <3>3. next[f] <= uid'[m] /\ uid'[m] \in Nat
      BY <1>4
    <3> QED
      BY <3>1, <3>2, <3>3, <1>f, <1>n
  <2> QED
    BY <2>1, <2>2, <1>4, <1>5 DEF Unique
<1> QED
  BY <1>3, <1>4, <1>5, <1>6, <1>7, <1>8, <1>9 DEF Moves

LEMMA StayMoves ==
  ASSUME Mailbox, UNCHANGED <<at, uid, next>>
  PROVE  Moves
<1>1. Unique' /\ IsFiniteSet(Arrived')
  BY DEF Mailbox, Unique, Arrived
<1>2. \A f \in Folder : next[f] <= next'[f]
  BY MailFoldersAssumption DEF Mailbox, FoldersType
<1> QED
  BY <1>1, <1>2 DEF Mailbox, FoldersType, Moves

LEMMA PurgeMoves ==
  ASSUME Mailbox, NEW S \in SUBSET Msg, \A m \in S : at[m] \in Folder, Purge(S)
  PROVE  Moves
<1> USE DEF Mailbox
<1>1. Arrived' \in SUBSET Arrived
  BY FolderNames DEF Purge, Arrived
<1>2. IsFiniteSet(Arrived')
  BY <1>1, FS_Subset
<1>3. \A f \in Folder : next[f] <= next'[f]
  BY MailFoldersAssumption DEF FoldersType, Purge
<1>4. uid' \in [Msg -> 0 .. MaxUid] /\ at' \in [Msg -> Folder \union {"away", "gone"}]
  BY MailFoldersAssumption DEF FoldersType, Purge
<1>5. Unique'
  BY FolderNames DEF Unique, Purge
<1> QED
  BY <1>2, <1>3, <1>4, <1>5 DEF FoldersType, Purge, Moves

LEMMA MoveMessageMoves ==
  ASSUME Mailbox, NEW S \in SUBSET Msg, IsFiniteSet(S), OfOneFolder(S),
         NEW f, MoveMessage(S, f)
  PROVE  Moves
  BY MoveAllMoves, StayMoves DEF MoveMessage

LEMMA TrashMessageMoves ==
  ASSUME Mailbox, NEW S \in SUBSET Msg, IsFiniteSet(S), OfOneFolder(S),
         \A m \in S : at[m] \in Folder, NEW f, TrashMessage(S, f)
  PROVE  Moves
<1>1. "Trash" \in There
  BY DEF There, Kept
<1> QED
  BY <1>1, MoveAllMoves, PurgeMoves DEF TrashMessage

\* Messages that move take no UID that is ticked.
LEMMA NamesKept ==
  ASSUME FoldersType, Moves, made' = made, NEW f, NEW us, NEW ms, Names(f, us, ms)
  PROVE  /\ f \in Folder /\ us \subseteq Nat
         /\ \A u \in us : /\ {m \in Msg : at'[m] = f /\ uid'[m] = u} \subseteq ms
                          /\ f \in There' => u < next'[f]
<1>1. f \in Folder /\ There' = There
  BY DEF Names, There
<1>2. next[f] \in Nat /\ next'[f] \in Nat /\ next[f] <= next'[f]
  BY <1>1, MailFoldersAssumption DEF Moves, FoldersType
<1>3. ASSUME NEW u \in us PROVE u \in Nat /\ (f \in There => u < next[f]) /\ AtUid(f, u) \subseteq ms
  BY DEF Names
<1>4. ASSUME NEW u \in us, NEW m \in Msg, at'[m] = f, uid'[m] = u PROVE m \in ms
  <2>1. f # "gone"
    BY <1>1, FolderNames
  <2>2. CASE at'[m] = at[m] /\ uid'[m] = uid[m]
    BY <2>2, <1>3, <1>4 DEF AtUid, In
  <2>3. CASE at'[m] \in There /\ next[at'[m]] <= uid'[m]
    BY <2>3, <1>2, <1>3, <1>4
  <2> QED
    BY <2>1, <2>2, <2>3, <1>4 DEF Moves
<1>5. ASSUME NEW u \in us, f \in There PROVE u < next'[f]
  BY <1>2, <1>3, <1>5
<1> QED
  BY <1>1, <1>4, <1>5 DEF Names

LEMMA NoneNamed ==
  ASSUME NEW f \in Folder, NEW ms PROVE Names(f, {}, ms)
BY DEF Names

LEMMA MovesTyped ==
  ASSUME FoldersType, Moves, made' = made
  PROVE  /\ at' \in [Msg -> Folder \union {"away", "gone"}] /\ made' \subseteq Custom
         /\ uid' \in [Msg -> 0 .. MaxUid] /\ next' \in [Folder -> 1 .. MaxUid + 1]
         /\ \A m \in Msg : at'[m] \in Folder => at'[m] \in There' /\ uid'[m] \in 1 .. next'[at'[m]] - 1
<1>1. ASSUME NEW m \in Msg, at'[m] \in Folder PROVE at'[m] \in There' /\ uid'[m] \in 1 .. next'[at'[m]] - 1
  <2>1. There' = There
    BY DEF There
  <2>2. CASE at'[m] = at[m] /\ uid'[m] = uid[m]
    <3>1. at[m] \in There /\ uid[m] \in 1 .. next[at[m]] - 1
      BY <2>2, <1>1 DEF FoldersType
    <3>2. /\ next[at[m]] <= next'[at[m]] /\ next[at[m]] \in Nat /\ next'[at[m]] \in Nat
          /\ uid[m] \in Nat
      BY <2>2, <1>1, MailFoldersAssumption DEF FoldersType, Moves
    <3> QED
      BY <3>1, <3>2, <2>1, <2>2
  <2>3. CASE at'[m] \in There /\ next[at'[m]] <= uid'[m] /\ uid'[m] < next'[at'[m]]
    <3>1. /\ next[at'[m]] \in 1 .. MaxUid + 1 /\ next'[at'[m]] \in 1 .. MaxUid + 1
          /\ uid'[m] \in 0 .. MaxUid
      BY <1>1 DEF FoldersType, Moves
    <3> QED
      BY <2>1, <2>3, <3>1, MailFoldersAssumption
  <2>4. at'[m] # "gone"
    BY <1>1, FolderNames
  <2> QED
    BY <2>2, <2>3, <2>4 DEF Moves
<1> QED
  BY <1>1 DEF Moves, FoldersType

\* A step that moves messages, and leaves the page alone.
LEMMA MovesKeep ==
  ASSUME FoldersInv, Moves, UNCHANGED <<made, foldersPage>>
  PROVE  FoldersInv'
<1> USE DEF foldersPage, ticked
<1> USE DEF Mailbox
<1>1. Mailbox'
  <2>1. There' = There
    BY DEF There
  <2> QED
    BY <2>1, MovesTyped DEF FoldersInv, FoldersType, Moves
<1>2. ASSUME ~carried PROVE ~strayed /\ AllNamed'
  <2>1. ~strayed /\ AllNamed /\ FoldersType
    BY <1>2 DEF FoldersInv
  <2>2. /\ view \in Folder /\ ticks \subseteq Nat
        /\ \A u \in ticks : /\ {m \in Msg : at'[m] = view /\ uid'[m] = u} \subseteq meant
                            /\ view \in There' => u < next'[view]
    BY <2>1, NamesKept DEF AllNamed
  <2>3. /\ bulk.from \in Folder /\ bulk.left \subseteq Nat
        /\ \A u \in bulk.left : /\ {m \in Msg : at'[m] = bulk.from /\ uid'[m] = u} \subseteq bulk.meant
                                /\ bulk.from \in There' => u < next'[bulk.from]
    BY <2>1, NamesKept DEF AllNamed
  <2>4. ASSUME ShowsOld
        PROVE  /\ change.to \in Folder /\ ticks \subseteq Nat
               /\ \A u \in ticks : /\ {m \in Msg : at'[m] = change.to /\ uid'[m] = u} \subseteq meant
                                   /\ change.to \in There' => u < next'[change.to]
    BY <2>1, <2>4, NamesKept DEF AllNamed
  <2>5. Names(view, ticks, meant)'
    BY <2>2 DEF Names, AtUid, In
  <2>6. Names(bulk.from, bulk.left, bulk.meant)'
    BY <2>3 DEF Names, AtUid, In
  <2>7. ShowsOld' => Names(change.to, ticks, meant)'
    <3>1. ShowsOld' <=> ShowsOld
      BY DEF ShowsOld
    <3> QED
      BY <2>4, <3>1 DEF Names, AtUid, In
  <2> QED
    BY <2>1, <2>5, <2>6, <2>7 DEF AllNamed
<1> QED
  BY <1>1, <1>2 DEF FoldersInv

LEMMA InFinite ==
  ASSUME FoldersInv, NEW f \in Folder, NEW S \in SUBSET In(f)
  PROVE  S \in SUBSET Msg /\ IsFiniteSet(S) /\ OfOneFolder(S) /\ \A m \in S : at[m] \in Folder /\ at[m] = f
<1>1. S \in SUBSET Arrived /\ S \in SUBSET Msg
  BY FolderNames DEF In, Arrived
<1> QED
  BY <1>1, FS_Subset DEF FoldersInv, Mailbox, In, OfOneFolder

LEMMA FoldersFirst == FoldersInit => FoldersInv
<1> SUFFICES ASSUME FoldersInit PROVE FoldersInv
  OBVIOUS
<1> USE DEF FoldersInit
<1>1. Arrived = {}
  BY DEF Arrived
<1>2. FoldersType
  <2>1. \A m \in Msg : at[m] \notin Folder /\ at[m] = "away"
    BY FolderNames
  <2>2. "INBOX" \in There /\ "INBOX" \in Folder
    BY DEF There, Folder, Kept
  <2>3. 1 \in 1 .. MaxUid + 1 /\ 0 \in 0 .. MaxUid
    BY MailFoldersAssumption
  <2>4. NoBulk \in [act : {"none", "archive", "delete"}, from : Folder,
                    left : SUBSET (1 .. MaxUid), meant : SUBSET Msg]
    BY <2>2 DEF NoBulk
  <2>5. change \in Changes
    BY DEF Changes
  <2> QED
    BY <2>1, <2>2, <2>3, <2>4, <2>5 DEF FoldersType
<1>4. Unique
  BY FolderNames DEF Unique
<1>3. AllNamed
  BY NoneNamed, FolderNames DEF AllNamed, ShowsOld, NoChange, Kept, NoBulk
<1> QED
  BY <1>1, <1>2, <1>3, <1>4, FS_EmptySet DEF FoldersInv, Mailbox, NoBulk, NoChange

\* The page's own steps, in which no message moves.
LEMMA PageKeeps ==
  ASSUME FoldersInv, UNCHANGED boxes,
         view' \in Folder, ticks' \subseteq 1 .. MaxUid, meant' \subseteq Msg, change' \in Changes,
         bulk' \in [act : {"none", "archive", "delete"}, from : Folder,
                   left : SUBSET (1 .. MaxUid), meant : SUBSET Msg],
         bulk'.act = "none" => bulk'.left = {},
         change' # NoChange /\ ~change'.done => change'.from \in made,
         change'.done /\ change'.to # "INBOX" => change'.to \in made,
         carried' \in BOOLEAN, carried => carried', UNCHANGED strayed,
         ~carried' => Names(view', ticks', meant') /\ Names(bulk'.from, bulk'.left, bulk'.meant),
         ~carried' /\ ShowsOld' => Names(change'.to, ticks', meant')
  PROVE  FoldersInv'
<1> USE DEF boxes
<1>1. There' = There /\ Arrived' = Arrived /\ \A f, u : AtUid(f, u)' = AtUid(f, u)
  BY DEF There, Arrived, AtUid, In
<1>2. Mailbox'
  BY <1>1 DEF FoldersInv, Mailbox, FoldersType, Unique
<1>3. ASSUME ~carried' PROVE ~strayed' /\ AllNamed'
  BY <1>1, <1>3 DEF FoldersInv, AllNamed, Names
<1> QED
  BY <1>1, <1>2, <1>3 DEF FoldersInv

\* The folder a change goes to is one there may be.
LEMMA ChangeTyped ==
  ASSUME FoldersInv
  PROVE  /\ change \in Changes /\ change.to \in Folder /\ view \in Folder
         /\ change.done => change.from \in Custom /\ change.from \notin Kept
BY FolderNames, MailFoldersAssumption DEF FoldersInv, Mailbox, FoldersType, Changes, NoChange, Folder, Kept

LEMMA SelectStdKeeps ==
  ASSUME FoldersInv, NEW f \in Kept \union {view}, SelectStd(f)
  PROVE  FoldersInv'
<1>1. f \in Folder /\ change.to \in Folder
  BY ChangeTyped, FolderNames
<1>2. Names(view', ticks', meant') /\ Names(change'.to, ticks', meant')
  BY <1>1, NoneNamed DEF SelectStd
<1>3. ~carried' => Names(bulk'.from, bulk'.left, bulk'.meant)
  BY DEF SelectStd, FoldersInv, AllNamed
<1> QED
  BY <1>1, <1>2, <1>3, PageKeeps DEF SelectStd, FoldersInv, Mailbox, FoldersType

LEMMA OpenCustomKeeps ==
  ASSUME FoldersInv, NEW f \in Custom, OpenCustom(f)
  PROVE  FoldersInv'
<1> USE DEF ticked
<1>1. f \in Folder /\ f \in made /\ view' = f /\ UNCHANGED <<made, ticks, meant, bulk, change, strayed>>
  BY DEF OpenCustom, Folder, boxes
<1>2. ASSUME ~carried' PROVE Names(view', ticks', meant')
  <2>1. ticks' = {}
    BY <1>2 DEF OpenCustom, FoldersInv, Mailbox, FoldersType
  <2> QED
    BY <1>1, <2>1, NoneNamed
<1>3. carried' \in BOOLEAN /\ (carried => carried') /\ ~ShowsOld'
  BY <1>1 DEF OpenCustom, FoldersInv, Mailbox, FoldersType, ShowsOld
<1>4. ~carried' => Names(bulk'.from, bulk'.left, bulk'.meant)
  BY <1>1, <1>3 DEF FoldersInv, AllNamed
<1> QED
  BY <1>1, <1>2, <1>3, <1>4, PageKeeps DEF OpenCustom, FoldersInv, Mailbox, FoldersType

LEMMA ToggleSelKeeps ==
  ASSUME FoldersInv, NEW m \in Msg, ToggleSel(m)
  PROVE  FoldersInv'
<1>1. view \in Folder /\ uid[m] \in Nat /\ uid[m] < next[view] /\ view \in There
  BY ThereIsFolder, MailFoldersAssumption DEF ToggleSel, FoldersInv, Mailbox, FoldersType
<1>2. uid[m] \in 1 .. MaxUid
  BY <1>1, MailFoldersAssumption DEF ToggleSel, FoldersInv, Mailbox, FoldersType
<1>3. ticks' \subseteq 1 .. MaxUid /\ meant' \subseteq Msg
  BY <1>2 DEF ToggleSel, FoldersInv, Mailbox, FoldersType
<1>4. ASSUME ~carried' PROVE Names(view, ticks', meant')
  <2>1. Names(view, ticks, meant)
    BY <1>4 DEF ToggleSel, FoldersInv, AllNamed
  <2>2. CASE uid[m] \in ticks
    BY <2>1, <2>2 DEF ToggleSel, Names, AtUid, In
  <2>3. CASE uid[m] \notin ticks
    <3>1. Unique /\ view \in Folder /\ at[m] = view
      BY <1>1 DEF ToggleSel, FoldersInv, Mailbox
    <3>2. AtUid(view, uid[m]) \subseteq {m}
      BY <3>1 DEF Unique, AtUid, In
    <3> QED
      BY <2>1, <2>3, <3>2, <1>1 DEF ToggleSel, Names
  <2> QED
    BY <2>2, <2>3
<1>5. ~ShowsOld' /\ change' = change
  BY <1>1, ChangeTyped DEF ToggleSel, ShowsOld, There, boxes
<1>6. ~carried' => Names(bulk'.from, bulk'.left, bulk'.meant)
  BY DEF ToggleSel, FoldersInv, AllNamed
<1> QED
  BY <1>1, <1>3, <1>4, <1>5, <1>6, PageKeeps DEF ToggleSel, FoldersInv, Mailbox, FoldersType

LEMMA BulkPressKeeps ==
  ASSUME FoldersInv, NEW act \in {"archive", "delete"}, BulkPress(act)
  PROVE  FoldersInv'
<1>1. view \in Folder
  BY DEF FoldersInv, Mailbox, FoldersType
<1>2. bulk' = [act |-> act, from |-> view, left |-> ticks, meant |-> meant]
  BY DEF BulkPress
<1>3. UNCHANGED <<boxes, view, ticks, meant, change, carried, strayed>>
  BY DEF BulkPress, ticked
<1>4. ASSUME ~carried' PROVE Names(view', ticks', meant') /\ Names(bulk'.from, bulk'.left, bulk'.meant)
  BY <1>2, <1>3, <1>4 DEF FoldersInv, AllNamed
<1>5. ~carried' /\ ShowsOld' => Names(change'.to, ticks', meant')
  BY <1>3 DEF FoldersInv, AllNamed, ShowsOld, boxes
<1> QED
  BY <1>1, <1>2, <1>3, <1>4, <1>5, PageKeeps DEF FoldersInv, Mailbox, FoldersType

LEMMA BulkEndKeeps ==
  ASSUME FoldersInv, BulkEnd
  PROVE  FoldersInv'
<1>1. NoBulk \in [act : {"none", "archive", "delete"}, from : Folder,
                  left : SUBSET (1 .. MaxUid), meant : SUBSET Msg]
  BY FolderNames DEF NoBulk, Kept
<1>2. /\ NoBulk.left = {} /\ Names(view, {}, {}) /\ Names(change.to, {}, {})
      /\ Names(NoBulk.from, NoBulk.left, NoBulk.meant)
  BY ChangeTyped, NoneNamed, FolderNames DEF NoBulk, Kept
<1>3. /\ UNCHANGED <<boxes, view, change, carried, strayed>>
      /\ bulk' = NoBulk /\ ticks' = {} /\ meant' = {}
  BY DEF BulkEnd
<1> QED
  BY <1>1, <1>2, <1>3, PageKeeps DEF FoldersInv, Mailbox, FoldersType, boxes

\* One turn of the loop takes a message that was ticked, or none.
LEMMA BulkStepKeeps ==
  ASSUME FoldersInv, NEW u \in bulk.left, BulkStep(u)
  PROVE  FoldersInv'
<1> DEFINE hit == AtUid(BulkFrom, u)
<1>1. BulkFrom = bulk.from /\ bulk.from \in Folder /\ u \in 1 .. MaxUid
  BY DEF BulkFrom, FoldersInv, Mailbox, FoldersType
<1>2. hit \in SUBSET In(bulk.from)
  BY <1>1 DEF AtUid
<1>3. hit \in SUBSET Msg /\ IsFiniteSet(hit) /\ OfOneFolder(hit) /\ \A m \in hit : at[m] \in Folder
  <2> HIDE DEF hit
  <2>1. PICK f \in Folder : f = bulk.from
    BY <1>1
  <2>2. hit \in SUBSET In(f)
    BY <1>2, <2>1
  <2> QED
    BY <2>2, InFinite
<1>4. bulk' = [bulk EXCEPT !.left = @ \ {u}] /\ UNCHANGED <<made, view, ticks, meant, change, carried>>
  BY DEF BulkStep, ticked
<1>5. ~carried => hit \subseteq bulk.meant
  BY <1>1 DEF FoldersInv, AllNamed, Names
<1>6. strayed' \in BOOLEAN /\ (~carried => strayed' = strayed)
  BY <1>5 DEF BulkStep, FoldersInv, Mailbox, FoldersType
<1>7. Moves
  <2>1. CASE UNCHANGED <<at, uid, next, strayed>>
    BY <2>1, StayMoves DEF FoldersInv
  <2>2. ASSUME CASE bulk.act = "archive" -> MoveMessage(hit, "Archive")
                 [] bulk.act = "delete"  -> TrashMessage(hit, BulkFrom)
        PROVE  Moves
    <3>1. bulk.act \in {"archive", "delete"}
      BY DEF FoldersInv, Mailbox, FoldersType
    <3>2. MoveMessage(hit, "Archive") \/ TrashMessage(hit, BulkFrom)
      BY <2>2, <3>1
    <3> HIDE DEF hit
    <3> QED
      BY <3>2, <1>3, MoveMessageMoves, TrashMessageMoves DEF FoldersInv
  <2> QED
    BY <2>1, <2>2 DEF BulkStep
<1>8. Mailbox'
  <2>1. FoldersType'
    <3>1. There' = There /\ bulk' \in [act : {"none", "archive", "delete"}, from : Folder,
                                       left : SUBSET (1 .. MaxUid), meant : SUBSET Msg]
      BY <1>4 DEF There, FoldersInv, Mailbox, FoldersType
    <3> QED
      BY <1>4, <1>6, <1>7, <3>1, MovesTyped DEF FoldersInv, Mailbox, FoldersType
  <2> QED
    BY <2>1, <1>7 DEF Moves, Mailbox
<1>9. ASSUME ~carried' PROVE ~strayed' /\ AllNamed'
  <2>1. ~strayed /\ AllNamed /\ Names(bulk.from, bulk.left \ {u}, bulk.meant) /\ FoldersType
    BY <1>4, <1>9 DEF FoldersInv, Mailbox, AllNamed, Names
  <2>2. /\ view \in Folder /\ ticks \subseteq Nat
        /\ \A v \in ticks : /\ {m \in Msg : at'[m] = view /\ uid'[m] = v} \subseteq meant
                            /\ view \in There' => v < next'[view]
    BY <2>1, <1>4, <1>7, NamesKept DEF AllNamed
  <2>3. /\ bulk.from \in Folder /\ bulk.left \ {u} \subseteq Nat
        /\ \A v \in bulk.left \ {u} : /\ {m \in Msg : at'[m] = bulk.from /\ uid'[m] = v} \subseteq bulk.meant
                                      /\ bulk.from \in There' => v < next'[bulk.from]
    BY <2>1, <1>4, <1>7, NamesKept
  <2>4. ASSUME ShowsOld
        PROVE  /\ change.to \in Folder /\ ticks \subseteq Nat
               /\ \A v \in ticks : /\ {m \in Msg : at'[m] = change.to /\ uid'[m] = v} \subseteq meant
                                   /\ change.to \in There' => v < next'[change.to]
    BY <2>1, <2>4, <1>4, <1>7, NamesKept DEF AllNamed
  <2>5. /\ view' = view /\ ticks' = ticks /\ meant' = meant /\ change' = change
        /\ bulk'.from = bulk.from /\ bulk'.left = bulk.left \ {u} /\ bulk'.meant = bulk.meant
    BY <1>4 DEF FoldersInv, Mailbox, FoldersType
  <2>6. Names(view, ticks, meant)'
    BY <2>2, <2>5 DEF Names, AtUid, In
  <2>7. Names(bulk.from, bulk.left, bulk.meant)'
    BY <2>3, <2>5 DEF Names, AtUid, In
  <2>8. ShowsOld' => Names(change.to, ticks, meant)'
    <3>1. ShowsOld' <=> ShowsOld
      BY <1>4 DEF ShowsOld
    <3> QED
      BY <2>4, <2>5, <3>1 DEF Names, AtUid, In
  <2> QED
    BY <2>1, <2>6, <2>7, <2>8, <1>4, <1>6, <1>9 DEF AllNamed
<1>10. bulk'.act = "none" => bulk'.left = {}
  BY <1>4 DEF FoldersInv, Mailbox, FoldersType
<1> QED
  BY <1>4, <1>8, <1>9, <1>10 DEF FoldersInv

\* The steps of the mailbox that leave the page alone.
LEMMA MailStepKeeps ==
  ASSUME FoldersInv,
         \/ \E m \in Msg : Arrive(m) \/ ActOnShown(m) \/ FileMessage(m)
         \/ EmptyCurrent
         \/ \E f \in Folder, action \in {"trash", "delete"} : AutoClean(f, action)
  PROVE  FoldersInv'
<1>t. Mailbox /\ FoldersType /\ "INBOX" \in There /\ "Trash" \in There /\ "Trash" \in Folder
      /\ view \in Folder /\ There \subseteq Folder
  BY ThereIsFolder DEF FoldersInv, Mailbox, FoldersType, There, Kept, Folder
<1>m. \A m \in Msg : {m} \in SUBSET Msg /\ IsFiniteSet({m}) /\ OfOneFolder({m})
  BY FS_Singleton DEF OfOneFolder
<1>1. ASSUME NEW m \in Msg, Arrive(m) PROVE FoldersInv'
  <2>1. Moves
    BY <1>1, <1>t, <1>m, MoveAllMoves DEF Arrive
  <2> QED
    BY <1>1, <2>1, MovesKeep DEF Arrive
<1>2. ASSUME NEW m \in Msg, ActOnShown(m) PROVE FoldersInv'
  <2>1. \A n \in {m} : at[n] \in Folder
    BY <1>2, <1>t DEF ActOnShown
  <2>2. TrashMessage({m}, view) \/ \E f \in There \ {view} : MoveMessage({m}, f)
    BY <1>2 DEF ActOnShown
  <2>3. Moves
    BY <2>1, <2>2, <1>t, <1>m, TrashMessageMoves, MoveMessageMoves
  <2> QED
    BY <1>2, <2>3, MovesKeep DEF ActOnShown
<1>3. ASSUME NEW m \in Msg, FileMessage(m) PROVE FoldersInv'
  <2>1. \E f \in Folder : MoveMessage({m}, f)
    BY <1>3 DEF FileMessage
  <2>2. Moves
    BY <2>1, <1>t, <1>m, MoveMessageMoves
  <2> QED
    BY <1>3, <2>2, MovesKeep DEF FileMessage
<1>4. ASSUME EmptyCurrent PROVE FoldersInv'
  <2>1. In(view) \in SUBSET Msg /\ \A m \in In(view) : at[m] \in Folder
    BY <1>t DEF In
  <2>2. Moves
    BY <1>4, <2>1, <1>t, PurgeMoves DEF EmptyCurrent
  <2> QED
    BY <1>4, <2>2, MovesKeep DEF EmptyCurrent
<1>5. ASSUME NEW f \in Folder, NEW action \in {"trash", "delete"}, AutoClean(f, action) PROVE FoldersInv'
  <2>1. PICK S \in SUBSET In(f) : Purge(S) \/ MoveAll(S, "Trash")
    BY <1>5 DEF AutoClean
  <2>2. S \in SUBSET Msg /\ IsFiniteSet(S) /\ OfOneFolder(S) /\ \A m \in S : at[m] \in Folder
    BY <2>1, InFinite
  <2>3. Moves
    BY <2>1, <2>2, <1>t, PurgeMoves, MoveAllMoves
  <2> QED
    BY <1>5, <2>3, MovesKeep DEF AutoClean
<1> QED
  BY <1>1, <1>2, <1>3, <1>4, <1>5

LEMMA NewFolderKeeps ==
  ASSUME FoldersInv, NEW f \in Custom, NewFolder(f)
  PROVE  FoldersInv'
<1> USE DEF ticked
<1>0. /\ made' = made \union {f} /\ carried' = (carried \/ KnownAs(f))
      /\ UNCHANGED <<at, uid, next, view, ticks, meant, bulk, change, strayed>>
  BY DEF NewFolder
<1>1. There' = There \union {f} /\ Arrived' = Arrived /\ \A g, u : AtUid(g, u)' = AtUid(g, u)
  BY <1>0 DEF There, Arrived, AtUid, In
<1>2. Mailbox'
  BY <1>0, <1>1 DEF FoldersInv, Mailbox, FoldersType, Unique
<1>3. ASSUME ~carried' PROVE ~strayed' /\ AllNamed'
  <2>1. ~strayed /\ AllNamed /\ ~KnownAs(f)
    BY <1>0, <1>3 DEF FoldersInv
  <2>2. \A g, us, ms : Names(g, us, ms) /\ (g = f => us = {}) => Names(g, us, ms)'
    BY <1>0, <1>1 DEF Names
  <2>3. Names(view, ticks, meant)' /\ Names(bulk.from, bulk.left, bulk.meant)'
    BY <1>0, <2>1, <2>2 DEF AllNamed, KnownAs
  <2>4. ASSUME ShowsOld' PROVE Names(change.to, ticks, meant)'
    <3>1. ShowsOld /\ Names(change.to, ticks, meant)
      BY <1>0, <2>1, <2>4 DEF ShowsOld, AllNamed
    <3>2. change.to # f
      BY <3>1 DEF ShowsOld, FoldersInv, NewFolder
    <3> QED
      BY <1>0, <2>2, <3>1, <3>2
  <2> QED
    BY <1>0, <2>1, <2>3, <2>4 DEF AllNamed
<1> QED
  BY <1>0, <1>2, <1>3 DEF FoldersInv

\* Another folder goes on as it was.
LEMMA NamesElsewhere ==
  ASSUME NEW f, NEW g, NEW us, NEW ms, Names(g, us, ms), g # f,
         g \in There' => g \in There, next'[g] = next[g],
         \A m \in Msg : at'[m] = g => at[m] = g /\ uid'[m] = uid[m]
  PROVE  Names(g, us, ms)'
BY DEF Names, AtUid, In

\* The page asks, and knows what it showed.
LEMMA AskChangeKeeps ==
  ASSUME FoldersInv, NEW f \in Custom, NEW to \in Custom \union {"INBOX"}, AskChange(f, to)
  PROVE  FoldersInv'
<1>1. change' = [from |-> f, to |-> to, shown |-> (view = f), done |-> FALSE] /\ f \in made
  BY DEF AskChange
<1>2. change' \in Changes /\ ~ShowsOld' /\ change'.from = f
  BY <1>1 DEF Changes, ShowsOld
<1>3. UNCHANGED <<boxes, view, ticks, meant, bulk, carried, strayed>>
  BY DEF AskChange, ticked
<1>4. ~carried' => Names(view', ticks', meant') /\ Names(bulk'.from, bulk'.left, bulk'.meant)
  BY <1>3 DEF FoldersInv, AllNamed
<1> QED
  BY <1>1, <1>2, <1>3, <1>4, PageKeeps DEF FoldersInv, Mailbox, FoldersType, boxes

\* A folder that is deleted takes its messages along; what knows its name names
\* none until there is another.
LEMMA ServeRemoveKeeps ==
  ASSUME FoldersInv, ServeRemove
  PROVE  FoldersInv'
<1>p. PICK f : f = change.from
  OBVIOUS
<1>c. change \in Changes /\ change # NoChange /\ change.to = "INBOX"
  BY DEF ServeRemove, FoldersInv, Mailbox, FoldersType
<1>d. f \in Custom /\ f \notin Kept /\ f # "gone"
  BY <1>c, <1>p, FolderNames DEF Changes, Folder
<1>e. change'.done /\ change'.to = "INBOX" /\ change' \in Changes
  BY <1>c DEF ServeRemove, Changes
<1>t. /\ Mailbox /\ FoldersType
      /\ made' = made \ {f}
      /\ at' = [m \in Msg |-> IF at[m] = f THEN "gone" ELSE at[m]]
      /\ uid' = [m \in Msg |-> IF at[m] = f THEN 0 ELSE uid[m]]
      /\ next' = [next EXCEPT ![f] = 1]
      /\ UNCHANGED <<view, ticks, meant, bulk, carried, strayed>>
  BY <1>p DEF ServeRemove, FoldersInv, Mailbox, ticked
<1>1. There' = There \ {f} /\ f \in Folder
  BY <1>d, <1>t DEF There, Folder
<1>2. Arrived' \in SUBSET Arrived
  BY <1>t, <1>1, FolderNames DEF Arrived
<1>3. IsFiniteSet(Arrived') /\ Unique'
  <2>1. IsFiniteSet(Arrived')
    BY <1>t, <1>2, FS_Subset DEF Mailbox
  <2>2. \A m \in Msg : at'[m] \in Folder => at'[m] = at[m] /\ uid'[m] = uid[m]
    BY <1>t, FolderNames
  <2>3. Unique'
    BY <1>t, <2>2 DEF Mailbox, Unique
  <2> QED
    BY <2>1, <2>3
<1>4. at' \in [Msg -> Folder \union {"away", "gone"}] /\ made' \subseteq Custom
  BY <1>t DEF FoldersType
<1>5. uid' \in [Msg -> 0 .. MaxUid] /\ next' \in [Folder -> 1 .. MaxUid + 1]
  <2>1. uid \in [Msg -> 0 .. MaxUid] /\ next \in [Folder -> 1 .. MaxUid + 1]
        /\ 0 \in 0 .. MaxUid /\ 1 \in 1 .. MaxUid + 1
    BY <1>t, MailFoldersAssumption DEF FoldersType
  <2>2. uid' \in [Msg -> 0 .. MaxUid]
    BY <1>t, <2>1
  <2>3. next' \in [Folder -> 1 .. MaxUid + 1]
    BY <1>t, <2>1
  <2> QED
    BY <2>2, <2>3
<1>6. \A m \in Msg : at'[m] \in Folder => at'[m] \in There' /\ uid'[m] \in 1 .. next'[at'[m]] - 1
  BY <1>d, <1>t, <1>1, FolderNames DEF FoldersType
<1>7. Mailbox'
  BY <1>e, <1>t, <1>3, <1>4, <1>5, <1>6 DEF Mailbox, FoldersType
<1>8. ASSUME ~carried' PROVE ~strayed' /\ AllNamed'
  <2>1. ~strayed /\ AllNamed
    BY <1>t, <1>8 DEF FoldersInv
  <2>2. ASSUME NEW g, NEW us, NEW ms, Names(g, us, ms) PROVE Names(g, us, ms)'
    <3>1. CASE g = f
      <4>1. f \notin There' /\ \A u : AtUid(f, u)' = {}
        BY <1>d, <1>t, <1>1 DEF AtUid, In
      <4> QED
        BY <2>2, <3>1, <4>1 DEF Names
    <3>2. CASE g # f
      <4>1. g \in Folder /\ next'[g] = next[g]
        BY <1>t, <2>2, <3>2 DEF Names, FoldersType
      <4>2. \A m \in Msg : at'[m] = g => at[m] = g /\ uid'[m] = uid[m]
        BY <1>t, <4>1, FolderNames
      <4> QED
        BY <1>1, <2>2, <3>2, <4>1, <4>2, NamesElsewhere
    <3> QED
      BY <3>1, <3>2
  <2>3. ~ShowsOld'
    BY <1>e DEF ShowsOld
  <2>4. Names(view, ticks, meant)' /\ Names(bulk.from, bulk.left, bulk.meant)'
    BY <1>t, <2>1, <2>2 DEF AllNamed
  <2> QED
    BY <1>t, <2>1, <2>3, <2>4 DEF AllNamed
<1> QED
  BY <1>e, <1>t, <1>7, <1>8 DEF FoldersInv

\* A folder that is renamed keeps its messages and their UIDs.
LEMMA ServeRenameKeeps ==
  ASSUME FoldersInv, ServeRename
  PROVE  FoldersInv'
<1>p. PICK f, g : f = change.from /\ g = change.to
  OBVIOUS
<1>c. change \in Changes /\ change # NoChange /\ g \in Custom \ made /\ g \notin Kept /\ g # "INBOX"
  BY <1>p, FolderNames, MailFoldersAssumption DEF ServeRename, FoldersInv, Mailbox, FoldersType, NoChange, Kept
<1>d. f \in Custom /\ f \in made /\ f \notin Kept
  BY <1>c, <1>p, FolderNames DEF Changes, ServeRename, FoldersInv
<1>e. change'.done /\ change'.to = g /\ change'.from = f /\ change' \in Changes
  BY <1>c, <1>p DEF ServeRename, Changes
<1>t. /\ Mailbox /\ FoldersType /\ f \in made /\ g \notin made /\ f # g
      /\ g \notin There /\ f \in Folder /\ g \in Folder
      /\ made' = (made \ {f}) \union {g}
      /\ at' = [m \in Msg |-> IF at[m] = f THEN g ELSE at[m]]
      /\ next' = [next EXCEPT ![g] = next[f], ![f] = 1]
      /\ carried' = (carried \/ KnownAs(g))
      /\ UNCHANGED <<uid, view, ticks, meant, bulk, strayed>>
  BY <1>c, <1>d, <1>p DEF ServeRename, FoldersInv, Mailbox, There, Folder, ticked
<1>1. There' = (There \ {f}) \union {g}
  BY <1>d, <1>t DEF There
<1>2. \A m \in Msg : at[m] # g
  BY <1>t DEF FoldersType
<1>3. Arrived' = Arrived
  BY <1>t, FolderNames DEF Arrived
<1>4. Unique'
  BY <1>t, <1>2 DEF Mailbox, Unique
<1>5. next' \in [Folder -> 1 .. MaxUid + 1] /\ next'[g] = next[f] /\ \A h \in Folder \ {f, g} : next'[h] = next[h]
  BY <1>t, MailFoldersAssumption DEF FoldersType
<1>6. \A m \in Msg : at'[m] \in Folder => at'[m] \in There' /\ uid'[m] \in 1 .. next'[at'[m]] - 1
  <2> SUFFICES ASSUME NEW m \in Msg, at'[m] \in Folder
               PROVE  at'[m] \in There' /\ uid'[m] \in 1 .. next'[at'[m]] - 1
    OBVIOUS
  <2>1. CASE at[m] = f
    BY <2>1, <1>t, <1>1, <1>5 DEF FoldersType
  <2>2. CASE at[m] # f
    BY <2>2, <1>t, <1>1, <1>2, <1>5 DEF FoldersType
  <2> QED
    BY <2>1, <2>2
<1>7. Mailbox'
  <2>1. at' \in [Msg -> Folder \union {"away", "gone"}] /\ made' \subseteq Custom
    BY <1>c, <1>t DEF FoldersType
  <2>3. carried' \in BOOLEAN
    BY <1>t DEF FoldersType, KnownAs
  <2> QED
    BY <1>e, <1>t, <1>3, <1>4, <1>5, <1>6, <2>1, <2>3 DEF Mailbox, FoldersType
<1>8. ASSUME ~carried' PROVE ~strayed' /\ AllNamed'
  <2>1. ~strayed /\ AllNamed /\ bulk.from # g /\ (view = g => ticks = {})
    BY <1>t, <1>8 DEF FoldersInv, KnownAs
  <2>2. ASSUME NEW h, NEW us, NEW ms, Names(h, us, ms), h # g PROVE Names(h, us, ms)'
    <3>1. CASE h = f
      <4>1. f \notin There' /\ \A u : AtUid(f, u)' = {}
        BY <1>t, <1>1 DEF AtUid, In
      <4> QED
        BY <2>2, <3>1, <4>1 DEF Names
    <3>2. CASE h # f
      <4>1. h \in Folder /\ next'[h] = next[h]
        BY <1>5, <2>2, <3>2 DEF Names
      <4>2. \A m \in Msg : at'[m] = h => at[m] = h /\ uid'[m] = uid[m]
        BY <1>t, <2>2
      <4> QED
        BY <1>1, <2>2, <3>2, <4>1, <4>2, NamesElsewhere
    <3> QED
      BY <3>1, <3>2
  <2>3. Names(bulk.from, bulk.left, bulk.meant)'
    BY <1>t, <2>1, <2>2 DEF AllNamed
  <2>4. Names(view, ticks, meant)'
    <3>1. CASE view = g
      BY <1>t, <2>1, <3>1 DEF Names
    <3> QED
      BY <1>t, <2>1, <2>2, <3>1 DEF AllNamed
  <2>5. ASSUME ShowsOld' PROVE Names(change.to, ticks, meant)'
    <3>1. view = f /\ Names(f, ticks, meant) /\ ticks' = ticks /\ meant' = meant
      BY <1>e, <1>t, <2>1, <2>5 DEF ShowsOld, AllNamed
    <3>2. \A u : AtUid(g, u)' = AtUid(f, u)
      BY <1>t, <1>2 DEF AtUid, In
    <3>3. f \in There /\ g \in Folder
      BY <1>t DEF There
    <3> QED
      BY <1>e, <1>t, <1>5, <3>1, <3>2, <3>3 DEF Names
  <2> QED
    BY <1>t, <2>1, <2>3, <2>4, <2>5 DEF AllNamed
<1> QED
  BY <1>e, <1>t, <1>7, <1>8 DEF FoldersInv

\* The page goes where its messages went, or takes its ticks along.
LEMMA ChangeAnsweredKeeps ==
  ASSUME FoldersInv, ChangeAnswered
  PROVE  FoldersInv'
<1>1. /\ UNCHANGED <<boxes, ticks, meant, bulk, strayed>> /\ change' = NoChange /\ change # NoChange
      /\ change' \in Changes /\ ~ShowsOld' /\ UNCHANGED made /\ ~change'.done
  BY DEF ChangeAnswered, ticked, Changes, NoChange, ShowsOld, boxes
<1>2. /\ view \in Folder /\ change.to \in Folder /\ carried \in BOOLEAN
      /\ ticks \subseteq 1 .. MaxUid /\ meant \subseteq Msg
      /\ bulk \in [act : {"none", "archive", "delete"}, from : Folder,
                  left : SUBSET (1 .. MaxUid), meant : SUBSET Msg]
      /\ bulk.act = "none" => bulk.left = {}
  BY ChangeTyped DEF FoldersInv, Mailbox, FoldersType
<1>3. CASE UNCHANGED <<view, carried>>
  <2>1. ~carried' => Names(view', ticks', meant') /\ Names(bulk'.from, bulk'.left, bulk'.meant)
    BY <1>1, <1>3 DEF FoldersInv, AllNamed
  <2> QED
    BY <1>1, <1>2, <1>3, <2>1, PageKeeps
<1>4. CASE (change.done \/ change.to = "INBOX") /\ LeaveFolder
  <2>1. view' \in Folder /\ carried' \in BOOLEAN /\ (carried => carried')
    BY <1>2, <1>4 DEF LeaveFolder
  <2>2. ASSUME ~carried' PROVE Names(view', ticks', meant') /\ Names(bulk'.from, bulk'.left, bulk'.meant)
    <3>1. AllNamed
      BY <2>1, <2>2 DEF FoldersInv
    <3>2. CASE view' = view
      BY <1>1, <3>1, <3>2 DEF AllNamed
    <3>3. CASE ticks = {}
      <4>1. Names(view', {}, meant)
        BY <2>1, NoneNamed
      <4> QED
        BY <1>1, <3>1, <3>3, <4>1 DEF AllNamed
    <3>4. CASE view' # view /\ ticks # {}
      <4>1. view' = change.to /\ change.to # "INBOX" /\ view = change.from /\ view \notin made
        BY <1>4, <2>2, <3>4 DEF LeaveFolder
      <4>2. Names(change.to, ticks, meant)
        BY <1>4, <3>1, <4>1 DEF AllNamed, ShowsOld
      <4> QED
        BY <1>1, <3>1, <4>1, <4>2 DEF AllNamed
    <3> QED
      BY <3>2, <3>3, <3>4
  <2> QED
    BY <1>1, <1>2, <2>1, <2>2, PageKeeps
<1> QED
  BY <1>3, <1>4 DEF ChangeAnswered

LEMMA FoldersStep == FoldersInv /\ [FoldersNext]_foldersVars => FoldersInv'
<1> SUFFICES ASSUME FoldersInv, [FoldersNext]_foldersVars PROVE FoldersInv'
  OBVIOUS
<1>1. ASSUME UNCHANGED foldersVars PROVE FoldersInv'
  BY <1>1 DEF foldersVars, foldersPage, boxes, ticked, FoldersInv, Mailbox, FoldersType, Arrived, Unique,
              AllNamed, ShowsOld, Names, There, AtUid, In
<1> QED
  BY <1>1, MailStepKeeps, ToggleSelKeeps, SelectStdKeeps, OpenCustomKeeps, NewFolderKeeps, AskChangeKeeps,
     ServeRemoveKeeps, ServeRenameKeeps, ChangeAnsweredKeeps, BulkPressKeeps, BulkStepKeeps, BulkEndKeeps
     DEF FoldersNext, RemoveFolder, RenameFolder

\* Every reachable state of the folders is well typed, a UID names one message
\* of its folder, and the ticks and what is left of a bulk action are the
\* messages they were when they were ticked.
THEOREM FoldersInvariant == FoldersSpec => []FoldersInv
<1> QED
  BY FoldersFirst, FoldersStep, PTL DEF FoldersSpec

\* A bulk action takes messages that were ticked and no others, but for ticks
\* taken along to another folder or a name given to another: for any mailbox and
\* any folders.
THEOREM BulkTakesTicked == FoldersSpec => []BulkHitsChosen
<1>1. FoldersInv => BulkHitsChosen
  BY DEF FoldersInv, BulkHitsChosen, Mailbox, FoldersType
<1> QED
  BY <1>1, FoldersInvariant, PTL

\* Out of the inbox and the archive a message goes for good by no step but a
\* rule that deletes: for any mailbox and any folders.
THEOREM PurgedOnlyThere == FoldersSpec => PurgedFromTrash
<1> DEFINE Lost(m) == at[m] \in {"INBOX", "Archive"} /\ at'[m] = "gone"
           Cleaned == foldersPage' = foldersPage /\ \E f \in Folder : AutoClean(f, "delete")
<1>1. FoldersInv /\ [FoldersNext]_foldersVars => [\A m \in Msg : Lost(m) => Cleaned]_foldersVars
  <2> SUFFICES ASSUME FoldersInv, FoldersNext, NEW m \in Msg, Lost(m) PROVE Cleaned
    BY DEF foldersVars
  <2>t. /\ There \subseteq Folder /\ "gone" \notin Folder /\ "INBOX" \notin Custom /\ "Archive" \notin Custom
        /\ "Trash" \in There /\ at \in [Msg -> Folder \union {"away", "gone"}]
    BY ThereIsFolder, MailFoldersAssumption, FolderNames DEF FoldersInv, Mailbox, FoldersType, There, Kept
  <2>m. ASSUME NEW S, NEW f \in There, MoveAll(S, f) PROVE at'[m] # "gone"
    BY <2>m, <2>t DEF MoveAll
  <2>p. ASSUME NEW S, Purge(S) PROVE m \in S
    BY <2>p DEF Purge
  <2>a. ASSUME NEW S, NEW f, MoveMessage(S, f) PROVE FALSE
    BY <2>a, <2>m DEF MoveMessage
  <2>b. ASSUME NEW S, NEW f, TrashMessage(S, f), S \subseteq In(f) PROVE FALSE
    BY <2>b, <2>m, <2>p, <2>t DEF TrashMessage, In
  <2>s. at' # at
    OBVIOUS
  <2>1. ASSUME NEW n \in Msg, Arrive(n) \/ FileMessage(n) PROVE FALSE
    BY <2>1, <2>a, <2>m DEF Arrive, FileMessage, There, Kept
  <2>2. ASSUME NEW n \in Msg, ActOnShown(n) PROVE FALSE
    BY <2>2, <2>a, <2>b DEF ActOnShown, In
  <2>3. ASSUME EmptyCurrent PROVE FALSE
    BY <2>3, <2>p DEF EmptyCurrent, In
  <2>4. ASSUME ServeRemove PROVE FALSE
    BY <2>4, <2>t, ChangeTyped DEF ServeRemove, Changes, NoChange
  <2>5. ASSUME ServeRename PROVE FALSE
    BY <2>5, <2>t DEF ServeRename, Folder
  <2>6. ASSUME NEW u \in bulk.left, BulkStep(u) PROVE FALSE
    <3> DEFINE hit == AtUid(BulkFrom, u)
    <3>1. hit \subseteq In(BulkFrom) /\ bulk.act \in {"archive", "delete"}
      BY DEF AtUid, FoldersInv, Mailbox, FoldersType
    <3>2. MoveMessage(hit, "Archive") \/ TrashMessage(hit, BulkFrom)
      BY <2>6, <2>s, <3>1 DEF BulkStep
    <3> QED
      BY <3>1, <3>2, <2>a, <2>b
  <2>7. ASSUME NEW f \in Folder, AutoClean(f, "trash") PROVE FALSE
    <3>1. PICK S \in SUBSET In(f) : IF f = "Trash" THEN Purge(S) ELSE MoveAll(S, "Trash")
      BY <2>7 DEF AutoClean
    <3> QED
      BY <3>1, <2>m, <2>p, <2>t DEF In
  <2>8. ASSUME NEW f \in Folder, AutoClean(f, "delete") PROVE Cleaned
    BY <2>8 DEF AutoClean
  <2>9. CASE \/ \E n \in Msg : ToggleSel(n)
             \/ \E f \in Kept \union {view} : SelectStd(f)
             \/ \E f \in Custom : OpenCustom(f) \/ NewFolder(f) \/ RemoveFolder(f)
             \/ \E f, g \in Custom : RenameFolder(f, g)
             \/ \E act \in {"archive", "delete"} : BulkPress(act)
             \/ BulkEnd \/ ChangeAnswered
    BY <2>9, <2>s DEF ToggleSel, SelectStd, OpenCustom, NewFolder, BulkPress, BulkEnd, boxes,
                      RemoveFolder, RenameFolder, AskChange, ChangeAnswered
  <2> QED
    BY <2>1, <2>2, <2>3, <2>4, <2>5, <2>6, <2>7, <2>8, <2>9 DEF FoldersNext
<1> QED
  BY <1>1, FoldersInvariant, PTL DEF FoldersSpec, PurgedFromTrash

-----------------------------------------------------------------------------
(***************************************************************************)
(* Reading.                                                                *)
(***************************************************************************)

USE DEF ListCopy, FolderFetch, PageAsk

\* Where the page and the mailbox have a stay: a stay is in one folder.
Homes ==
  {h \in Stay \X Shelf : h[1][2] = stay[h[1][1]] /\ h[2] = where[h[1][1]]}
  \union {h \in Stay \X Shelf : \E i \in lists[h[2]].items \union fetch[h[2]].items : i.of = h[1]}
  \union {h \in Stay \X Shelf : \E r \in asks : r.of = h[1] /\ r.folder = h[2]}
  \union {h \in Stay \X Shelf : h[1] = open /\ h[2] = folder}

\* None is later than the stay the message is at.
HomesKnown ==
  /\ \A h \in Homes : /\ h[1][2] <= stay[h[1][1]]
                      /\ h[1][2] = stay[h[1][1]] => where[h[1][1]] = h[2]
  /\ \A h, g \in Homes : h[1] = g[1] => h[2] = g[2]

\* The messages a request of folder f is about.
Pending(f) == {r.of : r \in {q \in asks : q.folder = f}}

\* A copy of the list of f, but for what it misses and what is to be answered.
Follows(copy, f) ==
  Beside(copy.items, copy.but \union Pending(f)) = Beside(Server(f), copy.but \union Pending(f))

CopiesFollow ==
  \A f \in Shelf :
    /\ lists[f].has /\ ~lists[f].late /\ ~lists[f].old => Follows(lists[f], f)
    /\ fetch[f].at = "read" /\ ~fetch[f].late => Follows(fetch[f], f)

\* No fetch that would mark it seen is under way for a message marked unread.
ToldUnread ==
  \A k \in told :
    /\ k[2] <= stay[k[1]]
    /\ k[2] = stay[k[1]] => "seen" \notin marks[k[1]]
         /\ \A r \in asks : ~(r.kind = "open" /\ r.of = k /\ r.at = "asked" /\ r.folder = where[k[1]])

ReadingInv ==
  /\ ReadingType
  /\ \A r \in asks : r.kind = "open" => r.to = r.folder
  /\ HomesKnown /\ CopiesFollow /\ ToldUnread

-----------------------------------------------------------------------------

LEMMA ServerHas ==
  ASSUME NEW f \in Shelf, NEW i \in Server(f)
  PROVE  \E m \in Letter : where[m] = f /\ i = [of |-> <<m, stay[m]>>, marks |-> marks[m]]
BY DEF Server

\* What happens to the copies of a folder's list besides.
ItemsFrom(f) == lists[f].items \union fetch[f].items

LEMMA HomesQuiet ==
  ASSUME ReadingType, HomesKnown, UNCHANGED <<where, stay>>,
         \A f \in Shelf : ItemsFrom(f)' \subseteq ItemsFrom(f) \union Server(f),
         \A r \in asks' : <<r.of, r.folder>> \in Homes,
         open' = NoMessage \/ <<open', folder'>> \in Homes
  PROVE  HomesKnown'
<1>1. ASSUME NEW h \in Homes' PROVE h \in Homes
  <2>1. h \in Stay \X Shelf
    BY DEF Homes
  <2>2. CASE h[1][2] = stay[h[1][1]] /\ h[2] = where[h[1][1]]
    BY <2>1, <2>2 DEF Homes
  <2>3. CASE \E r \in asks' : r.of = h[1] /\ r.folder = h[2]
    BY <2>1, <2>3
  <2>4. CASE h[1] = open' /\ h[2] = folder'
    <3>1. open' # NoMessage
      BY <2>1, <2>4 DEF Stay, NoMessage
    <3> QED
      BY <2>1, <2>4, <3>1
  <2>5. CASE \E i \in ItemsFrom(h[2])' : i.of = h[1]
    <3>1. PICK i \in ItemsFrom(h[2]) \union Server(h[2]) : i.of = h[1]
      BY <2>1, <2>5
    <3>2. CASE i \in ItemsFrom(h[2])
      BY <2>1, <3>1, <3>2 DEF Homes, ItemsFrom
    <3>3. CASE i \in Server(h[2])
      <4>1. PICK m \in Letter : where[m] = h[2] /\ i.of = <<m, stay[m]>>
        BY <2>1, <3>3, ServerHas
      <4>2. h[1][1] = m /\ h[1][2] = stay[m]
        BY <3>1, <4>1
      <4> QED
        BY <2>1, <4>1, <4>2 DEF Homes
    <3> QED
      BY <3>1, <3>2, <3>3
  <2> QED
    BY <2>1, <2>2, <2>3, <2>4, <2>5 DEF Homes, ItemsFrom
<1> QED
  BY <1>1 DEF HomesKnown

\* A message comes to a folder with a stay nothing knows of.
LEMMA HomesMoved ==
  ASSUME ReadingType, HomesKnown, NEW m \in Letter, NEW f \in Shelf, NEW n \in Nat, stay[m] <= n,
         where' = [where EXCEPT ![m] = f], stay' = [stay EXCEPT ![m] = n],
         \A h \in Homes : h[1] # <<m, n>>,
         \A g \in Shelf : ItemsFrom(g)' \subseteq ItemsFrom(g),
         \A r \in asks' : <<r.of, r.folder>> \in Homes,
         UNCHANGED <<open, folder>>
  PROVE  HomesKnown'
<1> DEFINE new == <<<<m, n>>, f>>
<1>1. /\ \A x \in Letter \ {m} : where'[x] = where[x] /\ stay'[x] = stay[x]
      /\ where'[m] = f /\ stay'[m] = n /\ \A x \in Letter : stay[x] \in Nat
  BY DEF ReadingType
<1>2. ASSUME NEW h \in Homes' PROVE h \in Homes \/ h = new
  <2>1. h \in Stay \X Shelf /\ h[1] \in Letter \X Nat
    BY DEF Homes, Stay
  <2>2. CASE h[1][2] = stay'[h[1][1]] /\ h[2] = where'[h[1][1]]
    BY <1>1, <2>1, <2>2 DEF Homes
  <2>3. CASE \E r \in asks' : r.of = h[1] /\ r.folder = h[2]
    BY <2>1, <2>3
  <2>4. CASE h[1] = open' /\ h[2] = folder'
    BY <2>1, <2>4 DEF Homes
  <2>5. CASE \E i \in ItemsFrom(h[2])' : i.of = h[1]
    BY <2>1, <2>5 DEF Homes, ItemsFrom
  <2> QED
    BY <2>1, <2>2, <2>3, <2>4, <2>5 DEF Homes, ItemsFrom
<1>3. \A h \in Homes : h[1] \in Letter \X Nat
  BY DEF Homes, Stay
<1>5. ASSUME NEW h \in Homes'
      PROVE  h[1][2] <= stay'[h[1][1]] /\ (h[1][2] = stay'[h[1][1]] => where'[h[1][1]] = h[2])
  <2>1. CASE h = new
    BY <1>1, <2>1
  <2>2. CASE h \in Homes
    <3>1. /\ h[1][2] <= stay[h[1][1]] /\ (h[1][2] = stay[h[1][1]] => where[h[1][1]] = h[2])
          /\ h[1][1] \in Letter /\ h[1][2] \in Nat /\ h[1] = <<h[1][1], h[1][2]>>
      BY <1>3, <2>2 DEF HomesKnown
    <3>2. CASE h[1][1] = m
      <4>1. h[1][2] # n
        BY <2>2, <3>1, <3>2
      <4> QED
        BY <1>1, <3>1, <3>2, <4>1
    <3>3. CASE h[1][1] # m
      BY <1>1, <3>1, <3>3
    <3> QED
      BY <3>2, <3>3
  <2> QED
    BY <1>2, <2>1, <2>2
<1>6. \A h, g \in Homes' : h[1] = g[1] => h[2] = g[2]
  BY <1>2 DEF HomesKnown
<1> QED
  BY <1>5, <1>6 DEF HomesKnown

\* An entry known at two places of the server is one.
LEMMA BesideMore ==
  ASSUME NEW items, NEW a, NEW b, NEW x, NEW y, x \subseteq y,
         Beside(items, x) = Beside(a, x), Beside(a, y) = Beside(b, y)
  PROVE  Beside(items, y) = Beside(b, y)
<1>1. Beside(items, y) = Beside(a, y)
  BY DEF Beside
<1> QED
  BY <1>1

\* A copy that was read before, with no less that it misses.
Older(was, copy, f) ==
  /\ copy.items = was.items
  /\ was.but \union Pending(f) \subseteq copy.but \union Pending(f)'

LEMMA CopiesQuiet ==
  ASSUME CopiesFollow, UNCHANGED <<where, stay, marks>>,
         \A f \in Shelf : lists'[f].has /\ ~lists'[f].late /\ ~lists'[f].old =>
           \/ lists[f].has /\ ~lists[f].late /\ ~lists[f].old /\ Older(lists[f], lists'[f], f)
           \/ fetch[f].at = "read" /\ ~fetch[f].late /\ Older(fetch[f], lists'[f], f),
         \A f \in Shelf : fetch'[f].at = "read" /\ ~fetch'[f].late =>
           \/ fetch[f].at = "read" /\ ~fetch[f].late /\ Older(fetch[f], fetch'[f], f)
           \/ fetch'[f].items = Server(f)
  PROVE  CopiesFollow'
<1> SUFFICES ASSUME NEW f \in Shelf
             PROVE  /\ lists'[f].has /\ ~lists'[f].late /\ ~lists'[f].old => Follows(lists[f], f)'
                    /\ fetch'[f].at = "read" /\ ~fetch'[f].late => Follows(fetch[f], f)'
  BY DEF CopiesFollow
<1>1. Server(f)' = Server(f)
  BY DEF Server
<1>2. ASSUME NEW was, NEW copy, Older(was, copy, f),
             Beside(was.items, was.but \union Pending(f)) = Beside(Server(f), was.but \union Pending(f))
      PROVE  Beside(copy.items, copy.but \union Pending(f)') = Beside(Server(f), copy.but \union Pending(f)')
  BY <1>2, BesideMore DEF Older
<1>3. ASSUME lists'[f].has, ~lists'[f].late, ~lists'[f].old PROVE Follows(lists[f], f)'
  <2>1. CASE lists[f].has /\ ~lists[f].late /\ ~lists[f].old /\ Older(lists[f], lists'[f], f)
    BY <1>1, <1>2, <2>1 DEF CopiesFollow, Follows
  <2>2. CASE fetch[f].at = "read" /\ ~fetch[f].late /\ Older(fetch[f], lists'[f], f)
    BY <1>1, <1>2, <2>2 DEF CopiesFollow, Follows
  <2> QED
    BY <1>3, <2>1, <2>2
<1>4. ASSUME fetch'[f].at = "read", ~fetch'[f].late PROVE Follows(fetch[f], f)'
  <2>1. CASE fetch[f].at = "read" /\ ~fetch[f].late /\ Older(fetch[f], fetch'[f], f)
    BY <1>1, <1>2, <2>1 DEF CopiesFollow, Follows
  <2>2. CASE fetch'[f].items = Server(f)
    BY <1>1, <2>2 DEF Follows
  <2> QED
    BY <1>4, <2>1, <2>2
<1> QED
  BY <1>3, <1>4

\* The messages of a folder are as they were, but for those in `y`.
LEMMA ServerBeside ==
  ASSUME NEW f \in Shelf, NEW y,
         \A m \in Letter :
           \/ where'[m] = where[m] /\ stay'[m] = stay[m] /\ marks'[m] = marks[m]
           \/ (where[m] = f => <<m, stay[m]>> \in y) /\ (where'[m] = f => <<m, stay'[m]>> \in y)
  PROVE  Beside(Server(f), y) = Beside(Server(f)', y)
<1>1. ASSUME NEW i \in Beside(Server(f), y) PROVE i \in Beside(Server(f)', y)
  <2>1. PICK m \in Letter : where[m] = f /\ i = [of |-> <<m, stay[m]>>, marks |-> marks[m]]
    BY <1>1 DEF Beside, Server
  <2>2. <<m, stay[m]>> \notin y
    BY <1>1, <2>1 DEF Beside
  <2> QED
    BY <1>1, <2>1, <2>2 DEF Beside, Server
<1>2. ASSUME NEW i \in Beside(Server(f)', y) PROVE i \in Beside(Server(f), y)
  <2>1. PICK m \in Letter : where'[m] = f /\ i = [of |-> <<m, stay'[m]>>, marks |-> marks'[m]]
    BY <1>2 DEF Beside, Server
  <2>2. <<m, stay'[m]>> \notin y
    BY <1>2, <2>1 DEF Beside
  <2> QED
    BY <1>2, <2>1, <2>2 DEF Beside, Server
<1> QED
  BY <1>1, <1>2

\* The mailbox changes: a copy misses what of its folder changed, or a request of
\* the folder that is not answered yet is about it.
LEMMA CopiesServed ==
  ASSUME CopiesFollow,
         \A f \in Shelf : Pending(f)' = Pending(f),
         \A f \in Shelf : /\ lists'[f].has = lists[f].has /\ lists'[f].late = lists[f].late
                          /\ lists'[f].old = lists[f].old /\ lists'[f].items = lists[f].items
                          /\ lists[f].but \subseteq lists'[f].but,
         \A f \in Shelf : /\ fetch'[f].at = fetch[f].at /\ fetch'[f].late = fetch[f].late
                          /\ fetch'[f].items = fetch[f].items /\ fetch[f].but \subseteq fetch'[f].but,
         \A f \in Shelf : \A but \in {lists'[f].but, fetch'[f].but} : \A m \in Letter :
           \/ where'[m] = where[m] /\ stay'[m] = stay[m] /\ marks'[m] = marks[m]
           \/ /\ where[m] = f => <<m, stay[m]>> \in but \union Pending(f)
              /\ where'[m] = f => <<m, stay'[m]>> \in but \union Pending(f)
  PROVE  CopiesFollow'
<1> SUFFICES ASSUME NEW f \in Shelf
             PROVE  /\ lists'[f].has /\ ~lists'[f].late /\ ~lists'[f].old => Follows(lists[f], f)'
                    /\ fetch'[f].at = "read" /\ ~fetch'[f].late => Follows(fetch[f], f)'
  BY DEF CopiesFollow
<1>1. ASSUME NEW but \in {lists'[f].but, fetch'[f].but}
      PROVE  Beside(Server(f), but \union Pending(f)) = Beside(Server(f)', but \union Pending(f))
  <2> DEFINE y == but \union Pending(f)
  <2>1. \A m \in Letter :
          \/ where'[m] = where[m] /\ stay'[m] = stay[m] /\ marks'[m] = marks[m]
          \/ (where[m] = f => <<m, stay[m]>> \in y) /\ (where'[m] = f => <<m, stay'[m]>> \in y)
    OBVIOUS
  <2> HIDE DEF y
  <2>2. Beside(Server(f), y) = Beside(Server(f)', y)
    BY <2>1, ServerBeside
  <2> QED
    BY <2>2 DEF y
<1>2. ASSUME NEW items, NEW was, NEW but \in {lists'[f].but, fetch'[f].but}, was \subseteq but,
             Beside(items, was \union Pending(f)) = Beside(Server(f), was \union Pending(f))
      PROVE  Beside(items, but \union Pending(f)) = Beside(Server(f)', but \union Pending(f))
  <2> DEFINE x == was \union Pending(f)
             y == but \union Pending(f)
  <2>1. x \subseteq y /\ Beside(items, x) = Beside(Server(f), x) /\ Beside(Server(f), y) = Beside(Server(f)', y)
    BY <1>1, <1>2
  <2> HIDE DEF x, y
  <2>2. Beside(items, y) = Beside(Server(f)', y)
    BY <2>1, BesideMore
  <2> QED
    BY <2>2 DEF y
<1>3. ASSUME lists'[f].has, ~lists'[f].late, ~lists'[f].old PROVE Follows(lists[f], f)'
  <2>1. Beside(lists[f].items, lists[f].but \union Pending(f)) = Beside(Server(f), lists[f].but \union Pending(f))
    BY <1>3 DEF CopiesFollow, Follows
  <2>2. Beside(lists[f].items, lists'[f].but \union Pending(f)) = Beside(Server(f)', lists'[f].but \union Pending(f))
    BY <1>2, <2>1
  <2> QED
    BY <2>2 DEF Follows
<1>4. ASSUME fetch'[f].at = "read", ~fetch'[f].late PROVE Follows(fetch[f], f)'
  <2>1. Beside(fetch[f].items, fetch[f].but \union Pending(f)) = Beside(Server(f), fetch[f].but \union Pending(f))
    BY <1>4 DEF CopiesFollow, Follows
  <2>2. Beside(fetch[f].items, fetch'[f].but \union Pending(f)) = Beside(Server(f)', fetch'[f].but \union Pending(f))
    BY <1>2, <2>1
  <2> QED
    BY <2>2 DEF Follows
<1> QED
  BY <1>3, <1>4

\* A message marked unread, when the mailbox is left alone.
LEMMA ToldQuiet ==
  ASSUME ToldUnread, UNCHANGED <<where, stay, marks>>, told' \subseteq told,
         \A r \in asks' : r \in asks \/ r.kind # "open" \/ r.at # "asked" \/ r.of \notin told'
  PROVE  ToldUnread'
BY DEF ToldUnread

\* What an invalidation does: the list of f is not used as it is, nor is what was
\* read before.
LEMMA RenewFacts ==
  ASSUME ReadingType, NEW f \in Shelf, NEW seen \in BOOLEAN, Renew(f, seen)
  PROVE  /\ lists' \in [Shelf -> ListCopy]
         /\ fetch' \in [Shelf -> FolderFetch]
         /\ \A g \in Shelf \ {f} : lists'[g] = lists[g] /\ fetch'[g] = fetch[g]
         /\ ~(lists'[f].has /\ ~lists'[f].old)
         /\ ~(fetch'[f].at = "read" /\ ~fetch'[f].late)
         /\ \A g \in Shelf : ItemsFrom(g)' \subseteq ItemsFrom(g)
<1> DEFINE L == ListCopy
           F == FolderFetch
           l1 == [lists[f] EXCEPT !.old = lists[f].old \/ lists[f].has]
           again == seen /\ (fetch[f].at = "none" \/ lists[f].has)
           f1 == IF again THEN [NoFetch EXCEPT !.at = "asked"]
                 ELSE [fetch[f] EXCEPT !.late = fetch[f].late \/ fetch[f].at = "read"]
<1>1. lists[f] \in L /\ fetch[f] \in F /\ lists \in [Shelf -> L] /\ fetch \in [Shelf -> F]
  BY DEF ReadingType
<1>2. l1 \in L /\ l1.items = lists[f].items /\ (l1.has => l1.old)
  BY <1>1
<1>3. f1 \in F /\ f1.items \subseteq fetch[f].items /\ (f1.at = "read" => f1.late)
  BY <1>1 DEF NoFetch
<1>4. lists' = [lists EXCEPT ![f] = l1]
  BY <1>1 DEF Renew
<1>5. fetch' = [fetch EXCEPT ![f] = f1]
  <2>1. CASE again
    BY <2>1 DEF Renew
  <2>2. CASE ~again
    BY <2>2 DEF Renew
  <2> QED
    BY <2>1, <2>2
<1> HIDE DEF l1, f1, L, F
<1>6. lists' \in [Shelf -> L] /\ fetch' \in [Shelf -> F]
  BY <1>1, <1>2, <1>3, <1>4, <1>5
<1>7. /\ \A g \in Shelf \ {f} : lists'[g] = lists[g] /\ fetch'[g] = fetch[g]
      /\ lists'[f] = l1 /\ fetch'[f] = f1
  BY <1>1, <1>4, <1>5
<1>8. \A g \in Shelf : ItemsFrom(g)' \subseteq ItemsFrom(g)
  BY <1>2, <1>3, <1>7 DEF ItemsFrom
<1> QED
  BY <1>2, <1>3, <1>6, <1>7, <1>8 DEF L, F

LEMMA MissedFacts ==
  ASSUME ReadingType, NEW hit \in SUBSET Stay, lists' = Missed(lists, hit), fetch' = Missed(fetch, hit)
  PROVE  /\ lists' \in [Shelf -> ListCopy]
         /\ fetch' \in [Shelf -> FolderFetch]
         /\ \A f \in Shelf : /\ lists'[f].has = lists[f].has /\ lists'[f].late = lists[f].late
                             /\ lists'[f].old = lists[f].old /\ lists'[f].items = lists[f].items
                             /\ lists'[f].but = lists[f].but \union hit
         /\ \A f \in Shelf : /\ fetch'[f].at = fetch[f].at /\ fetch'[f].late = fetch[f].late
                             /\ fetch'[f].items = fetch[f].items /\ fetch'[f].but = fetch[f].but \union hit
         /\ \A g \in Shelf : ItemsFrom(g)' \subseteq ItemsFrom(g)
<1> DEFINE L == ListCopy
           F == FolderFetch
<1>1. lists \in [Shelf -> L] /\ fetch \in [Shelf -> F]
  BY DEF ReadingType
<1>2. /\ lists' = [f \in Shelf |-> [lists[f] EXCEPT !.but = lists[f].but \union hit]]
      /\ fetch' = [f \in Shelf |-> [fetch[f] EXCEPT !.but = fetch[f].but \union hit]]
  BY DEF Missed
<1>3. \A l \in L : /\ [l EXCEPT !.but = l.but \union hit] \in L
                  /\ [l EXCEPT !.but = l.but \union hit].but = l.but \union hit
  OBVIOUS
<1>4. \A l \in F : /\ [l EXCEPT !.but = l.but \union hit] \in F
                  /\ [l EXCEPT !.but = l.but \union hit].but = l.but \union hit
  OBVIOUS
<1>5. lists' \in [Shelf -> L] /\ fetch' \in [Shelf -> F]
  <2> HIDE DEF L, F
  <2> QED
    BY <1>1, <1>2, <1>3, <1>4
<1>6. \A f \in Shelf : /\ lists'[f].has = lists[f].has /\ lists'[f].late = lists[f].late
                      /\ lists'[f].old = lists[f].old /\ lists'[f].items = lists[f].items
                      /\ lists'[f].but = lists[f].but \union hit
  BY <1>1, <1>2
<1>7. \A f \in Shelf : /\ fetch'[f].at = fetch[f].at /\ fetch'[f].late = fetch[f].late
                      /\ fetch'[f].items = fetch[f].items /\ fetch'[f].but = fetch[f].but \union hit
  BY <1>1, <1>2
<1> QED
  BY <1>5, <1>6, <1>7 DEF ItemsFrom

LEMMA HomesOf ==
  ASSUME ReadingType
  PROVE  /\ \A k \in Listed : k \in Stay /\ <<k, folder>> \in Homes
         /\ \A r \in asks : <<r.of, r.folder>> \in Homes
         /\ open # NoMessage => open \in Stay /\ <<open, folder>> \in Homes
<1>1. ASSUME NEW k \in Listed PROVE k \in Stay /\ <<k, folder>> \in Homes
  <2>1. PICK i \in lists[folder].items : i.of = k
    BY <1>1 DEF Listed
  <2>2. i \in Entry /\ folder \in Shelf
    BY DEF ReadingType
  <2>3. k \in Stay
    BY <2>1, <2>2 DEF Entry
  <2> QED
    BY <2>1, <2>2, <2>3 DEF Homes
<1>2. ASSUME NEW r \in asks PROVE <<r.of, r.folder>> \in Homes
  BY DEF ReadingType, Homes
<1>3. ASSUME open # NoMessage PROVE open \in Stay /\ <<open, folder>> \in Homes
  BY <1>3 DEF ReadingType, Homes
<1> QED
  BY <1>1, <1>2, <1>3

LEMMA CopiesStay ==
  ASSUME CopiesFollow, UNCHANGED <<where, stay, marks, lists, fetch>>,
         \A f \in Shelf : Pending(f) \subseteq Pending(f)'
  PROVE  CopiesFollow'
<1>1. \A f \in Shelf : Older(lists[f], lists'[f], f) /\ Older(fetch[f], fetch'[f], f)
  BY DEF Older
<1> QED
  BY <1>1, CopiesQuiet

LEMMA RenewFollows ==
  ASSUME ReadingType, CopiesFollow, NEW f \in Shelf, NEW seen \in BOOLEAN, Renew(f, seen),
         UNCHANGED <<where, stay, marks>>, \A g \in Shelf \ {f} : Pending(g) \subseteq Pending(g)'
  PROVE  CopiesFollow'
<1>1. /\ \A g \in Shelf \ {f} : lists'[g] = lists[g] /\ fetch'[g] = fetch[g]
      /\ ~(lists'[f].has /\ ~lists'[f].old)
      /\ ~(fetch'[f].at = "read" /\ ~fetch'[f].late)
  BY RenewFacts
<1>2. \A g \in Shelf \ {f} : Older(lists[g], lists'[g], g) /\ Older(fetch[g], fetch'[g], g)
  BY <1>1 DEF Older
<1> QED
  BY <1>1, <1>2, CopiesQuiet

LEMMA PendingGrows ==
  ASSUME NEW f \in Shelf, asks \subseteq asks'
  PROVE  Pending(f) \subseteq Pending(f)'
BY DEF Pending

LEMMA PendingAnswered ==
  ASSUME NEW r \in asks, asks' = asks \ {r}
  PROVE  /\ \A f \in Shelf \ {r.folder} : Pending(f) \subseteq Pending(f)'
         /\ \A f \in Shelf : Pending(f) \subseteq Pending(f)' \union {r.of}
BY DEF Pending

LEMMA ServedFacts ==
  ASSUME ReadingType, NEW r \in asks, NEW how \in {"asked", "ok", "bad"}, Served(r, how)
  PROVE  /\ \A f \in Shelf : Pending(f)' = Pending(f)
         /\ asks' \subseteq PageAsk
         /\ \A q \in asks' : \/ q \in asks
                             \/ /\ q.kind = r.kind /\ q.of = r.of /\ q.folder = r.folder
                                /\ q.to = r.to /\ q.at = how
         /\ \A q \in asks' : <<q.of, q.folder>> \in Homes
<1> DEFINE A == PageAsk
           r1 == [r EXCEPT !.at = how]
<1>1. r \in A /\ asks \subseteq A
  BY DEF ReadingType
<1>2. /\ r1 \in A /\ r1.kind = r.kind /\ r1.of = r.of /\ r1.folder = r.folder
      /\ r1.to = r.to /\ r1.at = how
  BY <1>1
<1>3. asks' = (asks \ {r}) \union {r1}
  BY DEF Served
<1> HIDE DEF r1, A
<1>4. \A f \in Shelf : Pending(f)' = Pending(f)
  BY <1>2, <1>3 DEF Pending
<1>5. \A q \in asks' : <<q.of, q.folder>> \in Homes
  BY <1>2, <1>3, HomesOf
<1> QED
  BY <1>1, <1>2, <1>3, <1>4, <1>5 DEF A

LEMMA AskingFacts ==
  ASSUME ReadingType, NEW kind \in {"open", "unread", "star", "move", "block"}, NEW k \in Stay,
         NEW f \in Shelf, NEW to \in Shelf, Asking(Ask(kind, k, f, to))
  PROVE  /\ asks' \subseteq PageAsk
         /\ asked' \in 0 .. MaxAsks /\ asks \subseteq asks'
         /\ \A q \in asks' : q \in asks \/ (q.kind = kind /\ q.of = k /\ q.folder = f /\ q.to = to)
<1> DEFINE r1 == Ask(kind, k, f, to)
<1>1. /\ r1 \in PageAsk
      /\ r1.kind = kind /\ r1.of = k /\ r1.folder = f /\ r1.to = to
  BY DEF Ask
<1>2. asks' = asks \union {r1} /\ asked' = asked + 1 /\ asked < MaxAsks
  BY DEF Asking
<1> HIDE DEF r1
<1> QED
  BY <1>1, <1>2, ReadingAssumption DEF ReadingType

-----------------------------------------------------------------------------

LEMMA ReadingInitInv == ReadingInit => ReadingInv
<1> SUFFICES ASSUME ReadingInit PROVE ReadingInv
  OBVIOUS
<1> USE ReadingAssumption
<1>1. ReadingType
  <2> DEFINE F == FolderFetch
  <2>1. NoFetch \in F /\ [NoFetch EXCEPT !.at = "asked"] \in F
    BY DEF NoFetch
  <2>2. NoList \in ListCopy
    BY DEF NoList
  <2> HIDE DEF F
  <2>3. fetch \in [Shelf -> F]
    BY <2>1 DEF ReadingInit
  <2>4. lists \in [Shelf -> ListCopy]
    BY <2>2 DEF ReadingInit
  <2>5. where \in [Letter -> Shelf \union {"away"}] /\ stay \in [Letter -> 1 .. MaxStay] /\ marks \in [Letter -> SUBSET Mark]
    BY DEF ReadingInit
  <2> QED
    BY <2>3, <2>4, <2>5 DEF F, ReadingInit, ReadingType
<1>2. Homes \subseteq {h \in Stay \X Shelf : h[1][2] = stay[h[1][1]] /\ h[2] = where[h[1][1]]}
  <2>1. \A f \in Shelf : lists[f].items = {} /\ fetch[f].items = {}
    BY DEF ReadingInit, NoList, NoFetch
  <2>2. \A k \in Stay : k # NoMessage
    BY DEF Stay, NoMessage
  <2> QED
    BY <2>1, <2>2 DEF ReadingInit, Homes
<1>3. \A k \in Stay : k[1] \in Letter /\ k[2] \in Nat
  BY DEF Stay
<1>4. HomesKnown
  BY <1>2, <1>3 DEF HomesKnown
<1>5. CopiesFollow
  BY DEF ReadingInit, CopiesFollow, NoList, NoFetch
<1> QED
  BY <1>1, <1>4, <1>5 DEF ReadingInit, ReadingInv, ToldUnread

LEMMA ReadListKeeps == ASSUME ReadingInv, NEW f \in Shelf, ReadList(f) PROVE ReadingInv'
<1> DEFINE f1 == [NoFetch EXCEPT !.at = "read", !.items = Server(f)]
<1>1. /\ fetch' = [fetch EXCEPT ![f] = f1]
      /\ UNCHANGED <<where, stay, marks, elsewhere, folder, open, bodies, lists, asks, asked, told>>
  BY DEF ReadList, mail, onScreen, requests
<1>2. Server(f) \subseteq Entry
  BY DEF Server, Entry, Stay, ReadingInv, ReadingType
<1>3. f1.items = Server(f) /\ f1 \in FolderFetch
  BY <1>2 DEF NoFetch
<1> HIDE DEF f1
<1>4. fetch'[f] = f1 /\ \A g \in Shelf \ {f} : fetch'[g] = fetch[g]
  BY <1>1 DEF ReadingInv, ReadingType
<1>5. ReadingType'
  BY <1>1, <1>3 DEF ReadingInv, ReadingType
<1>6. \A g \in Shelf : ItemsFrom(g)' \subseteq ItemsFrom(g) \union Server(g)
  BY <1>1, <1>3, <1>4 DEF ItemsFrom
<1>7. HomesKnown'
  BY <1>1, <1>6, HomesOf, HomesQuiet DEF ReadingInv
<1>8. \A g \in Shelf : Pending(g)' = Pending(g)
  BY <1>1 DEF Pending
<1>9. \A g \in Shelf \ {f} : Older(fetch[g], fetch'[g], g)
  BY <1>4, <1>8 DEF Older
<1>10. \A g \in Shelf : Older(lists[g], lists'[g], g)
  BY <1>1, <1>8 DEF Older
<1>11. CopiesFollow'
  BY <1>1, <1>3, <1>4, <1>9, <1>10, CopiesQuiet DEF ReadingInv
<1>12. ToldUnread'
  BY <1>1, ToldQuiet DEF ReadingInv
<1> QED
  BY <1>1, <1>5, <1>7, <1>11, <1>12 DEF ReadingInv

LEMMA ListArrivesKeeps == ASSUME ReadingInv, NEW f \in Shelf, ListArrives(f) PROVE ReadingInv'
<1> DEFINE l1 == [has |-> TRUE, items |-> fetch[f].items, old |-> FALSE, but |-> fetch[f].but, late |-> fetch[f].late]
<1>1. /\ lists' = [lists EXCEPT ![f] = l1] /\ fetch' = [fetch EXCEPT ![f] = NoFetch] /\ fetch[f].at = "read"
      /\ UNCHANGED <<where, stay, marks, elsewhere, folder, open, bodies, asks, asked, told>>
  BY DEF ListArrives, mail, onScreen, requests
<1>2. l1 \in ListCopy
  BY DEF ReadingInv, ReadingType
<1>3. l1.items = fetch[f].items /\ l1.but = fetch[f].but /\ l1.late = fetch[f].late
  OBVIOUS
<1>4. NoFetch \in FolderFetch
      /\ NoFetch.items = {} /\ NoFetch.at # "read"
  BY DEF NoFetch
<1> HIDE DEF l1
<1>5. /\ lists'[f] = l1 /\ \A g \in Shelf \ {f} : lists'[g] = lists[g]
      /\ fetch'[f] = NoFetch /\ \A g \in Shelf \ {f} : fetch'[g] = fetch[g]
  BY <1>1 DEF ReadingInv, ReadingType
<1>6. ReadingType'
  BY <1>1, <1>2, <1>4 DEF ReadingInv, ReadingType
<1>7. \A g \in Shelf : ItemsFrom(g)' \subseteq ItemsFrom(g) \union Server(g)
  BY <1>3, <1>4, <1>5 DEF ItemsFrom
<1>8. HomesKnown'
  BY <1>1, <1>7, HomesOf, HomesQuiet DEF ReadingInv
<1>9. \A g \in Shelf : Pending(g)' = Pending(g)
  BY <1>1 DEF Pending
<1>10. /\ \A g \in Shelf \ {f} : Older(fetch[g], fetch'[g], g) /\ Older(lists[g], lists'[g], g)
       /\ Older(fetch[f], lists'[f], f)
  BY <1>3, <1>5, <1>9 DEF Older
<1>11. CopiesFollow'
  BY <1>1, <1>3, <1>4, <1>5, <1>10, CopiesQuiet DEF ReadingInv
<1>12. ToldUnread'
  BY <1>1, ToldQuiet DEF ReadingInv
<1> QED
  BY <1>1, <1>6, <1>8, <1>11, <1>12 DEF ReadingInv

\* The page goes to another folder, closes a message, or a fetch fails or begins.
LEMMA LooksKeep ==
  ASSUME ReadingInv,
         \/ CloseMessage
         \/ \E f \in Shelf : ListFails(f) \/ OpenFolder(f)
  PROVE  ReadingInv'
<1>1. /\ UNCHANGED <<where, stay, marks, elsewhere, bodies, lists, asks, asked, told>>
      /\ folder' \in Shelf /\ (open' = NoMessage \/ UNCHANGED <<open, folder>>)
  BY DEF CloseMessage, ListFails, OpenFolder, mail, onScreen, kept, requests, ReadingInv, ReadingType
<1>2. /\ fetch' \in [Shelf -> FolderFetch]
      /\ \A g \in Shelf : fetch'[g] = fetch[g] \/ (fetch'[g].at # "read" /\ fetch'[g].items = {})
  <2> DEFINE F == FolderFetch
             asking == [NoFetch EXCEPT !.at = "asked"]
  <2>1. /\ NoFetch \in F /\ NoFetch.items = {} /\ NoFetch.at # "read"
        /\ asking \in F /\ asking.items = {} /\ asking.at # "read"
    BY DEF NoFetch
  <2>2. fetch \in [Shelf -> F]
    BY DEF ReadingInv, ReadingType
  <2>3. fetch' = fetch \/ \E f \in Shelf, x \in {NoFetch, asking} : fetch' = [fetch EXCEPT ![f] = x]
    BY DEF CloseMessage, ListFails, OpenFolder, FetchUnlessFresh, kept
  <2> HIDE DEF F, asking
  <2>4. fetch' \in [Shelf -> F]
    BY <2>1, <2>2, <2>3
  <2>5. \A g \in Shelf : fetch'[g] = fetch[g] \/ (fetch'[g].at # "read" /\ fetch'[g].items = {})
    BY <2>1, <2>2, <2>3
  <2> QED
    BY <2>4, <2>5 DEF F
<1>3. ReadingType'
  BY <1>1, <1>2 DEF ReadingInv, ReadingType
<1>4. \A g \in Shelf : ItemsFrom(g)' \subseteq ItemsFrom(g) \union Server(g)
  BY <1>1, <1>2 DEF ItemsFrom
<1>5. HomesKnown'
  BY <1>1, <1>4, HomesOf, HomesQuiet DEF ReadingInv
<1>6. \A g \in Shelf : Pending(g)' = Pending(g)
  BY <1>1 DEF Pending
<1>7. \A g \in Shelf : Older(lists[g], lists'[g], g) /\ (fetch'[g].at = "read" => fetch'[g] = fetch[g] /\ Older(fetch[g], fetch'[g], g))
  BY <1>1, <1>2, <1>6 DEF Older
<1>8. CopiesFollow'
  BY <1>1, <1>7, CopiesQuiet DEF ReadingInv
<1>9. ToldUnread'
  BY <1>1, ToldQuiet DEF ReadingInv
<1> QED
  BY <1>1, <1>3, <1>5, <1>8, <1>9 DEF ReadingInv

\* The connection is back: what is shown is fetched anew, and no message fetched
\* so is still counted as marked unread.
LEMMA ReconnectKeeps == ASSUME ReadingInv, Reconnect PROVE ReadingInv'
<1> DEFINE again == Ask("open", open, folder, folder)
           added == open # NoMessage /\ asks' = asks \union {again} /\ told' = told \ {open}
<1>1. /\ UNCHANGED <<where, stay, marks, folder, open, bodies, lists, asked>>
      /\ elsewhere' \in 0 .. MaxElse
  BY ReadingAssumption DEF Reconnect, onScreen, ReadingInv, ReadingType
<1>2. added \/ UNCHANGED <<asks, told>>
  BY DEF Reconnect
<1>3. /\ asks' \subseteq PageAsk /\ asks \subseteq asks' /\ told' \subseteq told
      /\ \A q \in asks' : q \in asks \/ ( /\ open # NoMessage /\ q.kind = "open" /\ q.of = open
                                        /\ q.folder = folder /\ q.to = folder /\ open \notin told')
  <2>1. CASE added
    <3>1. open \in Stay /\ folder \in Shelf
      BY <2>1, HomesOf DEF ReadingInv, ReadingType
    <3>2. /\ again \in PageAsk /\ again.kind = "open" /\ again.of = open
          /\ again.folder = folder /\ again.to = folder
      BY <3>1 DEF Ask
    <3> HIDE DEF again
    <3> QED
      BY <2>1, <3>2 DEF ReadingInv, ReadingType
  <2>2. CASE UNCHANGED <<asks, told>>
    BY <2>2 DEF ReadingInv, ReadingType
  <2> QED
    BY <1>2, <2>1, <2>2
<1> HIDE DEF added, again
<1>4. /\ fetch' \in [Shelf -> FolderFetch]
      /\ \A g \in Shelf : fetch'[g] = fetch[g] \/ (fetch'[g].at # "read" /\ fetch'[g].items = {})
  <2> DEFINE F == FolderFetch
             asking == [NoFetch EXCEPT !.at = "asked"]
  <2>1. asking \in F /\ asking.items = {} /\ asking.at # "read"
    BY DEF NoFetch
  <2>2. fetch \in [Shelf -> F] /\ folder \in Shelf
    BY DEF ReadingInv, ReadingType
  <2>3. fetch' = fetch \/ fetch' = [fetch EXCEPT ![folder] = asking]
    BY DEF Reconnect, FetchUnlessFresh
  <2> HIDE DEF F, asking
  <2>4. fetch' \in [Shelf -> F]
    BY <2>1, <2>2, <2>3
  <2>5. \A g \in Shelf : fetch'[g] = fetch[g] \/ (fetch'[g].at # "read" /\ fetch'[g].items = {})
    BY <2>1, <2>2, <2>3
  <2> QED
    BY <2>4, <2>5 DEF F
<1>5. ReadingType'
  BY <1>1, <1>3, <1>4 DEF ReadingInv, ReadingType
<1>6. HomesKnown'
  <2>1. \A r \in asks' : <<r.of, r.folder>> \in Homes
    BY <1>3, HomesOf DEF ReadingInv
  <2>2. \A g \in Shelf : ItemsFrom(g)' \subseteq ItemsFrom(g) \union Server(g)
    BY <1>1, <1>4 DEF ItemsFrom
  <2>3. open' = NoMessage \/ <<open', folder'>> \in Homes
    BY <1>1, HomesOf DEF ReadingInv
  <2> QED
    BY <1>1, <2>1, <2>2, <2>3, HomesQuiet DEF ReadingInv
<1>7. CopiesFollow'
  <2>1. \A g \in Shelf : Pending(g) \subseteq Pending(g)'
    BY <1>3, PendingGrows
  <2>2. \A g \in Shelf :
          /\ Older(lists[g], lists'[g], g)
          /\ fetch'[g].at = "read" => fetch'[g] = fetch[g] /\ Older(fetch[g], fetch'[g], g)
    BY <1>1, <1>4, <2>1 DEF Older
  <2> QED
    BY <1>1, <2>2, CopiesQuiet DEF ReadingInv
<1>8. ToldUnread'
  BY <1>1, <1>3, ToldQuiet DEF ReadingInv
<1> QED
  BY <1>3, <1>5, <1>6, <1>7, <1>8 DEF ReadingInv

LEMMA OpenMessageKeeps == ASSUME ReadingInv, NEW k \in Listed, OpenMessage(k) PROVE ReadingInv'
<1> DEFINE asking == Asking(Ask("open", k, folder, folder)) /\ told' = told \ {k}
<1>1. /\ UNCHANGED <<where, stay, marks, elsewhere, folder, bodies>> /\ open' = k
      /\ k \in Stay /\ folder \in Shelf /\ <<k, folder>> \in Homes
  BY HomesOf DEF OpenMessage, mail, ReadingInv, ReadingType
<1>2. \/ UNCHANGED <<lists, fetch>>
      \/ Renew(folder, TRUE)
  BY DEF OpenMessage, Invalidate, kept
<1>3. asking \/ UNCHANGED <<asks, asked, told>>
  BY DEF OpenMessage, requests
<1>4. /\ asks' \subseteq PageAsk
      /\ asked' \in 0 .. MaxAsks /\ asks \subseteq asks' /\ told' \subseteq told
      /\ \A q \in asks' : q \in asks \/ (q.kind = "open" /\ q.of = k /\ q.folder = folder /\ q.to = folder /\ k \notin told')
  <2>1. CASE asking
    BY <1>1, <2>1, AskingFacts DEF ReadingInv
  <2>2. CASE UNCHANGED <<asks, asked, told>>
    BY <2>2 DEF ReadingInv, ReadingType
  <2> QED
    BY <1>3, <2>1, <2>2
<1> HIDE DEF asking
<1>5. /\ lists' \in [Shelf -> ListCopy]
      /\ fetch' \in [Shelf -> FolderFetch]
      /\ \A g \in Shelf : ItemsFrom(g)' \subseteq ItemsFrom(g)
  <2>1. CASE UNCHANGED <<lists, fetch>>
    BY <2>1 DEF ReadingInv, ReadingType, ItemsFrom
  <2>2. CASE Renew(folder, TRUE)
    BY <1>1, <2>2, RenewFacts DEF ReadingInv
  <2> QED
    BY <1>2, <2>1, <2>2
<1>6. ReadingType'
  BY <1>1, <1>4, <1>5 DEF ReadingInv, ReadingType
<1>7. HomesKnown'
  <2>1. \A r \in asks' : <<r.of, r.folder>> \in Homes
    BY <1>1, <1>4, HomesOf DEF ReadingInv
  <2>2. \A g \in Shelf : ItemsFrom(g)' \subseteq ItemsFrom(g) \union Server(g)
    BY <1>5
  <2> QED
    BY <1>1, <2>1, <2>2, HomesQuiet DEF ReadingInv
<1>8. \A g \in Shelf : Pending(g) \subseteq Pending(g)'
  BY <1>4, PendingGrows
<1>9. CopiesFollow'
  <2>1. CASE UNCHANGED <<lists, fetch>>
    BY <1>1, <1>8, <2>1, CopiesStay DEF ReadingInv
  <2>2. CASE Renew(folder, TRUE)
    BY <1>1, <1>8, <2>2, RenewFollows DEF ReadingInv
  <2> QED
    BY <1>2, <2>1, <2>2
<1>10. ToldUnread'
  BY <1>1, <1>4, ToldQuiet DEF ReadingInv
<1> QED
  BY <1>4, <1>6, <1>7, <1>9, <1>10 DEF ReadingInv

LEMMA PressKeeps ==
  ASSUME ReadingInv, NEW kind \in {"unread", "star", "move", "block"}, NEW f \in Shelf, Press(kind, f)
  PROVE  ReadingInv'
<1>1. /\ UNCHANGED <<where, stay, marks, elsewhere, folder, open, bodies, lists, fetch, told>>
      /\ open \in Stay /\ folder \in Shelf /\ <<open, folder>> \in Homes
  <2>1. open \in Stay
    BY DEF Press, ReadingInv, ReadingType
  <2>2. open # NoMessage
    BY <2>1 DEF Stay, NoMessage
  <2> QED
    BY <2>2, HomesOf DEF Press, mail, onScreen, kept, ReadingInv, ReadingType
<1>2. /\ asks' \subseteq PageAsk
      /\ asked' \in 0 .. MaxAsks /\ asks \subseteq asks'
      /\ \A q \in asks' : q \in asks \/ (q.kind = kind /\ q.of = open /\ q.folder = folder /\ q.to = f)
  BY <1>1, AskingFacts DEF Press, ReadingInv
<1>3. ReadingType'
  BY <1>1, <1>2 DEF ReadingInv, ReadingType
<1>4. HomesKnown'
  <2>1. \A r \in asks' : <<r.of, r.folder>> \in Homes
    BY <1>1, <1>2, HomesOf DEF ReadingInv
  <2>2. \A g \in Shelf : ItemsFrom(g)' \subseteq ItemsFrom(g) \union Server(g)
    BY <1>1 DEF ItemsFrom
  <2> QED
    BY <1>1, <2>1, <2>2, HomesOf, HomesQuiet DEF ReadingInv
<1>5. \A g \in Shelf : Pending(g) \subseteq Pending(g)'
  BY <1>2, PendingGrows
<1>6. CopiesFollow'
  BY <1>1, <1>5, CopiesStay DEF ReadingInv
<1>7. ToldUnread'
  BY <1>1, <1>2, ToldQuiet DEF ReadingInv
<1> QED
  BY <1>2, <1>3, <1>4, <1>6, <1>7 DEF ReadingInv

\* An answer to a request: the list of its folder is invalidated, or all miss it.
LEMMA AnswersKeep ==
  ASSUME ReadingInv, NEW r \in asks, asks' = asks \ {r},
         \/ \E seen \in BOOLEAN : Renew(r.folder, seen)
         \/ lists' = Missed(lists, {r.of}) /\ fetch' = Missed(fetch, {r.of}),
         UNCHANGED <<where, stay, marks, elsewhere, folder, asked, told>>,
         open' = open \/ open' = NoMessage, bodies' \subseteq bodies \union {r.of}
  PROVE  ReadingInv'
<1>1. r.of \in Stay /\ r.folder \in Shelf
  BY DEF ReadingInv, ReadingType
<1>2. /\ \A f \in Shelf \ {r.folder} : Pending(f) \subseteq Pending(f)'
      /\ \A f \in Shelf : Pending(f) \subseteq Pending(f)' \union {r.of}
  BY PendingAnswered
<1>3. ASSUME NEW seen \in BOOLEAN, Renew(r.folder, seen)
      PROVE  /\ lists' \in [Shelf -> ListCopy]
             /\ fetch' \in [Shelf -> FolderFetch]
             /\ \A g \in Shelf : ItemsFrom(g)' \subseteq ItemsFrom(g)
             /\ CopiesFollow'
  <2>1. CopiesFollow'
    BY <1>1, <1>2, <1>3, RenewFollows DEF ReadingInv
  <2> QED
    BY <1>1, <1>3, <2>1, RenewFacts DEF ReadingInv
<1>4. ASSUME lists' = Missed(lists, {r.of}), fetch' = Missed(fetch, {r.of})
      PROVE  /\ lists' \in [Shelf -> ListCopy]
             /\ fetch' \in [Shelf -> FolderFetch]
             /\ \A g \in Shelf : ItemsFrom(g)' \subseteq ItemsFrom(g)
             /\ CopiesFollow'
  <2>1. {r.of} \in SUBSET Stay
    BY <1>1
  <2>2. /\ \A f \in Shelf : /\ lists'[f].has = lists[f].has /\ lists'[f].late = lists[f].late
                            /\ lists'[f].old = lists[f].old /\ lists'[f].items = lists[f].items
                            /\ lists'[f].but = lists[f].but \union {r.of}
        /\ \A f \in Shelf : /\ fetch'[f].at = fetch[f].at /\ fetch'[f].late = fetch[f].late
                            /\ fetch'[f].items = fetch[f].items /\ fetch'[f].but = fetch[f].but \union {r.of}
    BY <1>4, <2>1, MissedFacts DEF ReadingInv
  <2>3. \A f \in Shelf : Older(lists[f], lists'[f], f) /\ Older(fetch[f], fetch'[f], f)
    BY <1>2, <2>2 DEF Older
  <2>4. CopiesFollow'
    BY <2>2, <2>3, CopiesQuiet DEF ReadingInv
  <2> QED
    BY <1>4, <2>1, <2>4, MissedFacts DEF ReadingInv
<1>5. /\ lists' \in [Shelf -> ListCopy]
      /\ fetch' \in [Shelf -> FolderFetch]
      /\ \A g \in Shelf : ItemsFrom(g)' \subseteq ItemsFrom(g)
      /\ CopiesFollow'
  BY <1>3, <1>4
<1>6. ReadingType'
  BY <1>1, <1>5 DEF ReadingInv, ReadingType
<1>7. HomesKnown'
  <2>1. \A q \in asks' : <<q.of, q.folder>> \in Homes
    BY HomesOf DEF ReadingInv
  <2>2. \A g \in Shelf : ItemsFrom(g)' \subseteq ItemsFrom(g) \union Server(g)
    BY <1>5
  <2> QED
    BY <2>1, <2>2, HomesOf, HomesQuiet DEF ReadingInv
<1>8. ToldUnread'
  BY ToldQuiet DEF ReadingInv
<1> QED
  BY <1>5, <1>6, <1>7, <1>8 DEF ReadingInv

\* A message that is shown as its answer comes is of the folder that is shown.
LEMMA OpenAnsweredKeeps == ASSUME ReadingInv, NEW r \in asks, OpenAnswered(r) PROVE ReadingInv'
<1>1. CASE r.at = "ok" /\ open = r.of /\ r.of \notin bodies
  <2>1. open # NoMessage
    BY <1>1 DEF ReadingInv, ReadingType, Stay, NoMessage
  <2>2. r.folder = folder
    BY <1>1, <2>1, HomesOf DEF ReadingInv, HomesKnown
  <2>3. \E seen \in BOOLEAN : Renew(r.folder, seen)
    BY <1>1, <2>2 DEF OpenAnswered, Invalidate
  <2> QED
    BY <2>3, AnswersKeep DEF OpenAnswered, mail
<1>2. CASE ~(r.at = "ok" /\ open = r.of /\ r.of \notin bodies)
  <2>1. lists' = Missed(lists, {r.of}) /\ fetch' = Missed(fetch, {r.of})
    BY <1>2 DEF OpenAnswered
  <2> QED
    BY <2>1, AnswersKeep DEF OpenAnswered, mail
<1> QED
  BY <1>1, <1>2

LEMMA PressesAnsweredKeep ==
  ASSUME ReadingInv, NEW r \in asks, MarksAnswered(r) \/ MoveAnswered(r) \/ PressFailed(r)
  PROVE  ReadingInv'
<1>1. CASE MarksAnswered(r) \/ MoveAnswered(r)
  <2>1. \E seen \in BOOLEAN : Renew(r.folder, seen)
    BY <1>1 DEF MarksAnswered, MoveAnswered, RefreshList, Invalidate
  <2> QED
    BY <1>1, <2>1, AnswersKeep DEF MarksAnswered, MoveAnswered, RefreshList, mail, onScreen
<1>2. CASE PressFailed(r)
  <2>1. lists' = Missed(lists, {r.of}) /\ fetch' = Missed(fetch, {r.of})
    BY <1>2 DEF PressFailed
  <2> QED
    BY <1>2, <2>1, AnswersKeep DEF PressFailed, mail, onScreen
<1> QED
  BY <1>1, <1>2

LEMMA CurrentFacts ==
  ASSUME ReadingType, NEW r \in asks, Current(r)
  PROVE  /\ r.of[1] \in Letter /\ r.of = <<r.of[1], stay[r.of[1]]>> /\ r.of[2] \in Nat
         /\ r.folder \in Shelf /\ r.to \in Shelf /\ where[r.of[1]] = r.folder
         /\ r.of \in Pending(r.folder)
BY DEF ReadingType, Current, Stay, Pending

\* Marks change of a message that a request of its folder is about.
LEMMA MarksServed ==
  ASSUME ReadingInv, NEW r \in asks, NEW how \in {"ok", "bad"}, Served(r, how), Current(r),
         NEW set \in SUBSET Mark, marks' = [marks EXCEPT ![r.of[1]] = set],
         UNCHANGED <<where, stay, elsewhere, folder, open, bodies, lists, fetch, asked>>,
         told' \subseteq told \union {r.of}, r.of \in told' => "seen" \notin set,
         r.of \in told' => \A q \in asks : ~(q.kind = "open" /\ q.of = r.of /\ q.at = "asked" /\ q.folder = r.folder)
  PROVE  ReadingInv'
<1> DEFINE m == r.of[1]
<1>1. /\ m \in Letter /\ r.of = <<m, stay[m]>> /\ r.of[2] \in Nat /\ r.folder \in Shelf
      /\ where[m] = r.folder /\ r.of \in Pending(r.folder) /\ r.of \in Stay
  BY CurrentFacts DEF ReadingInv, ReadingType
<1>2. /\ \A f \in Shelf : Pending(f)' = Pending(f)
      /\ asks' \subseteq PageAsk
      /\ \A q \in asks' : \/ q \in asks
                          \/ /\ q.kind = r.kind /\ q.of = r.of /\ q.folder = r.folder
                             /\ q.to = r.to /\ q.at = how
      /\ \A q \in asks' : <<q.of, q.folder>> \in Homes
  BY ServedFacts DEF ReadingInv
<1>3. ReadingType'
  BY <1>1, <1>2 DEF ReadingInv, ReadingType
<1>4. \A q \in asks' : q.kind = "open" => q.to = q.folder
  BY <1>2 DEF ReadingInv
<1>5. \A g \in Shelf : ItemsFrom(g)' \subseteq ItemsFrom(g) \union Server(g)
  BY DEF ItemsFrom
<1>6. HomesKnown'
  BY <1>2, <1>5, HomesOf, HomesQuiet DEF ReadingInv
<1>7. \A n \in Letter \ {m} : marks'[n] = marks[n]
  BY DEF ReadingInv, ReadingType
<1>8. \A f \in Shelf, n \in Letter :
        \/ where'[n] = where[n] /\ stay'[n] = stay[n] /\ marks'[n] = marks[n]
        \/ /\ where[n] = f => <<n, stay[n]>> \in Pending(f)
           /\ where'[n] = f => <<n, stay'[n]>> \in Pending(f)
  <2> SUFFICES ASSUME NEW f \in Shelf, NEW n \in Letter, n = m, where[n] = f PROVE <<n, stay[n]>> \in Pending(f)
    BY <1>7
  <2> QED
    BY <1>1
<1>9. CopiesFollow'
  BY <1>2, <1>8, CopiesServed DEF ReadingInv
<1>10. ASSUME NEW k \in told'
       PROVE  /\ k[2] <= stay[k[1]]
              /\ k[2] = stay[k[1]] => /\ "seen" \notin marks'[k[1]]
                                      /\ \A q \in asks' : ~(q.kind = "open" /\ q.of = k /\ q.at = "asked" /\ q.folder = where[k[1]])
  <2>1. CASE k = r.of
    <3>1. k[1] = m /\ k[2] = stay[m]
      BY <1>1, <2>1
    <3>2. stay[m] \in Nat /\ marks'[m] = set
      BY <1>1 DEF ReadingInv, ReadingType
    <3>3. "seen" \notin marks'[m]
      BY <2>1, <3>2, <1>10
    <3>4. ASSUME NEW q \in asks', q.kind = "open", q.of = k, q.at = "asked", q.folder = where[m] PROVE FALSE
      <4>1. q \in asks
        BY <1>2, <3>4
      <4> QED
        BY <1>1, <1>10, <2>1, <3>4, <4>1
    <3>5. k[2] <= stay[k[1]]
      BY <3>1, <3>2
    <3> QED
      BY <3>1, <3>3, <3>4, <3>5
  <2>2. CASE k # r.of
    <3>1. k \in told /\ k \in Stay
      BY <2>2, <1>10 DEF ReadingInv, ReadingType
    <3>2. k[1] \in Letter /\ k = <<k[1], k[2]>>
      BY <3>1 DEF Stay
    <3>3. /\ k[2] <= stay[k[1]]
          /\ k[2] = stay[k[1]] => "seen" \notin marks[k[1]]
          /\ k[2] = stay[k[1]] =>
               \A q \in asks : ~(q.kind = "open" /\ q.of = k /\ q.at = "asked" /\ q.folder = where[k[1]])
      BY <3>1 DEF ReadingInv, ToldUnread
    <3>4. k[2] = stay[k[1]] => k[1] # m
      BY <1>1, <2>2, <3>2
    <3>5. k[2] = stay[k[1]] => "seen" \notin marks'[k[1]]
      BY <1>7, <3>2, <3>3, <3>4
    <3>6. ASSUME k[2] = stay[k[1]], NEW q \in asks', q.kind = "open", q.of = k, q.at = "asked", q.folder = where[k[1]]
          PROVE  FALSE
      BY <1>2, <2>2, <3>3, <3>6
    <3> QED
      BY <3>3, <3>5, <3>6
  <2> QED
    BY <2>1, <2>2
<1>11. ToldUnread'
  <2>1. \A k \in told' :
          /\ k[2] <= stay'[k[1]]
          /\ k[2] = stay'[k[1]] => /\ "seen" \notin marks'[k[1]]
                                   /\ \A q \in asks' : ~(q.kind = "open" /\ q.of = k /\ q.at = "asked" /\ q.folder = where'[k[1]])
    BY <1>10
  <2> QED
    BY <2>1 DEF ToldUnread
<1> QED
  BY <1>3, <1>4, <1>6, <1>9, <1>11 DEF ReadingInv

\* A request that is refused, or answers without a change.
LEMMA ServedQuiet ==
  ASSUME ReadingInv, NEW r \in asks, NEW how \in {"ok", "bad"}, Served(r, how),
         UNCHANGED <<where, stay, marks, elsewhere, folder, open, bodies, lists, fetch, asked, told>>
  PROVE  ReadingInv'
<1>1. /\ \A f \in Shelf : Pending(f)' = Pending(f)
      /\ asks' \subseteq PageAsk
      /\ \A q \in asks' : \/ q \in asks
                          \/ /\ q.kind = r.kind /\ q.of = r.of /\ q.folder = r.folder
                             /\ q.to = r.to /\ q.at = how
      /\ \A q \in asks' : <<q.of, q.folder>> \in Homes
  BY ServedFacts DEF ReadingInv
<1>2. ReadingType'
  BY <1>1 DEF ReadingInv, ReadingType
<1>3. \A q \in asks' : q.kind = "open" => q.to = q.folder
  BY <1>1 DEF ReadingInv
<1>4. \A g \in Shelf : ItemsFrom(g)' \subseteq ItemsFrom(g) \union Server(g)
  BY DEF ItemsFrom
<1>5. HomesKnown'
  BY <1>1, <1>4, HomesOf, HomesQuiet DEF ReadingInv
<1>6. CopiesFollow'
  BY <1>1, CopiesStay DEF ReadingInv
<1>7. ToldUnread'
  BY <1>1, ToldQuiet DEF ReadingInv
<1> QED
  BY <1>2, <1>3, <1>5, <1>6, <1>7 DEF ReadingInv

LEMMA ServeOpenKeeps == ASSUME ReadingInv, NEW r \in asks, ServeOpen(r) PROVE ReadingInv'
<1>1. UNCHANGED <<where, stay, elsewhere, folder, open, bodies, lists, fetch, asked, told>>
  BY DEF ServeOpen, onScreen, kept
<1>2. PICK how \in {"ok", "bad"} : Served(r, how)
  BY DEF ServeOpen
<1>3. CASE marks' = marks
  BY <1>1, <1>2, <1>3, ServedQuiet
<1>4. CASE marks' # marks
  <2>1. Current(r) /\ marks' = [marks EXCEPT ![r.of[1]] = marks[r.of[1]] \union {"seen"}]
    BY <1>4 DEF ServeOpen
  <2>2. r.of[1] \in Letter /\ r.of = <<r.of[1], stay[r.of[1]]>> /\ where[r.of[1]] = r.folder
    BY <2>1, CurrentFacts DEF ReadingInv
  <2> DEFINE set == marks[r.of[1]] \union {"seen"}
  <2>3. set \in SUBSET Mark
    BY <2>2 DEF Mark, ReadingInv, ReadingType
  <2>4. r.of \notin told
    <3> SUFFICES ASSUME r.of \in told PROVE FALSE
      OBVIOUS
    <3>1. r.of[2] = stay[r.of[1]]
      BY <2>2
    <3> QED
      BY <2>2, <3>1 DEF ServeOpen, ReadingInv, ToldUnread
  <2>5. told' = told /\ r.of \notin told'
    BY <1>1, <2>4
  <2> QED
    BY <1>1, <1>2, <2>1, <2>3, <2>5, MarksServed
<1> QED
  BY <1>3, <1>4

LEMMA ServeMarksKeeps == ASSUME ReadingInv, NEW r \in asks, ServeMarks(r) PROVE ReadingInv'
<1>1. UNCHANGED <<where, stay, elsewhere, folder, open, bodies, lists, fetch, asked>>
  BY DEF ServeMarks, onScreen, kept
<1>2. PICK how \in {"ok", "bad"} : Served(r, how)
  BY DEF ServeMarks
<1>3. CASE UNCHANGED <<marks, told>>
  BY <1>1, <1>2, <1>3, ServedQuiet
<1>4. CASE ~UNCHANGED <<marks, told>>
  <2> DEFINE set == IF r.kind = "unread" THEN marks[r.of[1]] \ {"seen"} ELSE marks[r.of[1]] \union {"flagged"}
             fetched == Ask("open", r.of, r.folder, r.folder)
  <2>1. /\ Current(r) /\ marks' = [marks EXCEPT ![r.of[1]] = set]
        /\ told' = IF r.kind = "unread" /\ fetched \notin asks THEN told \union {r.of} ELSE told
    BY <1>4 DEF ServeMarks
  <2>2. r.of[1] \in Letter /\ r.of = <<r.of[1], stay[r.of[1]]>> /\ where[r.of[1]] = r.folder
    BY <2>1, CurrentFacts DEF ReadingInv
  <2>3. set \in SUBSET Mark
    BY <2>2 DEF Mark, ReadingInv, ReadingType
  <2>4. told' \subseteq told \union {r.of}
    BY <2>1
  <2>5. r.of \in told => /\ "seen" \notin marks[r.of[1]]
                         /\ \A q \in asks : ~(q.kind = "open" /\ q.of = r.of /\ q.at = "asked" /\ q.folder = r.folder)
    <3>1. r.of[2] = stay[r.of[1]]
      BY <2>2
    <3> QED
      BY <2>2, <3>1 DEF ReadingInv, ToldUnread
  <2>6. r.of \in told' => "seen" \notin set
    BY <2>1, <2>5
  <2>7. \A q \in asks : q.kind = "open" /\ q.of = r.of /\ q.at = "asked" /\ q.folder = r.folder => q = fetched
    BY DEF ReadingInv, ReadingType, Ask
  <2>8. r.of \in told' => \A q \in asks : ~(q.kind = "open" /\ q.of = r.of /\ q.at = "asked" /\ q.folder = r.folder)
    BY <2>1, <2>5, <2>7
  <2> HIDE DEF set, fetched
  <2> QED
    BY <1>1, <1>2, <2>1, <2>3, <2>4, <2>6, <2>8, MarksServed
<1> QED
  BY <1>3, <1>4

\* Nothing knows of a stay that is later than the one the message is at.
LEMMA LaterUnknown ==
  ASSUME ReadingType, HomesKnown, NEW m \in Letter, NEW n \in Nat, n > stay[m]
  PROVE  \A h \in Homes : h[1] # <<m, n>>
<1> SUFFICES ASSUME NEW h \in Homes, h[1] = <<m, n>> PROVE FALSE
  OBVIOUS
<1>1. h[1][1] = m /\ h[1][2] = n /\ stay[m] \in Nat
  BY DEF ReadingType
<1>2. h[1][2] <= stay[h[1][1]]
  BY DEF HomesKnown
<1> QED
  BY <1>1, <1>2

\* A message goes to another folder.
LEMMA MovedKeeps ==
  ASSUME ReadingInv, NEW m \in Letter, NEW f \in Shelf, Refiled(m, f), NEW hit \in SUBSET Stay,
         lists' = Missed(lists, hit), fetch' = Missed(fetch, hit),
         <<m, stay'[m]>> \in hit, <<m, stay[m]>> \in hit \union Pending(where[m]),
         \A g \in Shelf : Pending(g)' = Pending(g),
         asks' \subseteq PageAsk,
         \A q \in asks' : /\ q.kind = "open" => q.to = q.folder
                          /\ <<q.of, q.folder>> \in Homes
                          /\ q.at = "asked" => q \in asks,
         asked' \in 0 .. MaxAsks, elsewhere' \in 0 .. MaxElse, told' \subseteq told,
         UNCHANGED <<folder, open, bodies>>
  PROVE  ReadingInv'
<1>1. /\ stay[m] < MaxStay /\ where' = [where EXCEPT ![m] = f] /\ stay' = [stay EXCEPT ![m] = stay[m] + 1]
      /\ marks' = marks
  BY DEF Refiled
<1>2. /\ where'[m] = f /\ stay'[m] = stay[m] + 1 /\ stay[m] \in Nat
      /\ \A n \in Letter \ {m} : where'[n] = where[n] /\ stay'[n] = stay[n]
  BY <1>1 DEF ReadingInv, ReadingType
<1>3. /\ lists' \in [Shelf -> ListCopy]
      /\ fetch' \in [Shelf -> FolderFetch]
      /\ \A g \in Shelf : /\ lists'[g].has = lists[g].has /\ lists'[g].late = lists[g].late
                          /\ lists'[g].old = lists[g].old /\ lists'[g].items = lists[g].items
                          /\ lists'[g].but = lists[g].but \union hit
      /\ \A g \in Shelf : /\ fetch'[g].at = fetch[g].at /\ fetch'[g].late = fetch[g].late
                          /\ fetch'[g].items = fetch[g].items /\ fetch'[g].but = fetch[g].but \union hit
      /\ \A g \in Shelf : ItemsFrom(g)' \subseteq ItemsFrom(g)
  BY MissedFacts DEF ReadingInv
<1>4. where' \in [Letter -> Shelf \union {"away"}] /\ stay' \in [Letter -> 1 .. MaxStay]
  BY <1>1, ReadingAssumption DEF ReadingInv, ReadingType
<1>5. ReadingType'
  BY <1>1, <1>3, <1>4 DEF ReadingInv, ReadingType
<1>6. HomesKnown'
  <2> DEFINE n == stay[m] + 1
  <2>1. n \in Nat /\ stay[m] <= n /\ n > stay[m] /\ stay' = [stay EXCEPT ![m] = n]
    BY <1>1, <1>2
  <2> HIDE DEF n
  <2>2. \A h \in Homes : h[1] # <<m, n>>
    BY <2>1, LaterUnknown DEF ReadingInv
  <2>3. ReadingType /\ HomesKnown
    BY DEF ReadingInv
  <2>4. \A g \in Shelf : ItemsFrom(g)' \subseteq ItemsFrom(g)
    BY <1>3
  <2> QED
    BY <1>1, <2>1, <2>2, <2>3, <2>4, HomesMoved
<1>7. \A g \in Shelf : \A but \in {lists'[g].but, fetch'[g].but} : \A n \in Letter :
           \/ where'[n] = where[n] /\ stay'[n] = stay[n] /\ marks'[n] = marks[n]
           \/ /\ where[n] = g => <<n, stay[n]>> \in but \union Pending(g)
              /\ where'[n] = g => <<n, stay'[n]>> \in but \union Pending(g)
  <2> SUFFICES ASSUME NEW g \in Shelf, NEW but \in {lists'[g].but, fetch'[g].but}
               PROVE  /\ where[m] = g => <<m, stay[m]>> \in but \union Pending(g)
                      /\ where'[m] = g => <<m, stay'[m]>> \in but \union Pending(g)
    BY <1>1, <1>2
  <2>1. hit \subseteq but
    BY <1>3
  <2> QED
    BY <2>1
<1>8. CopiesFollow'
  BY <1>3, <1>7, CopiesServed DEF ReadingInv
<1>9. ASSUME NEW k \in told'
      PROVE  /\ k[2] <= stay'[k[1]]
             /\ k[2] = stay'[k[1]] => /\ "seen" \notin marks'[k[1]]
                                      /\ \A q \in asks' : ~(q.kind = "open" /\ q.of = k /\ q.at = "asked" /\ q.folder = where'[k[1]])
  <2>1. k \in told /\ k[1] \in Letter /\ k[2] \in Nat
    BY <1>9 DEF ReadingInv, ReadingType, Stay
  <2>2. /\ k[2] <= stay[k[1]]
        /\ k[2] = stay[k[1]] => "seen" \notin marks[k[1]]
        /\ k[2] = stay[k[1]] =>
             \A q \in asks : ~(q.kind = "open" /\ q.of = k /\ q.at = "asked" /\ q.folder = where[k[1]])
    BY <2>1 DEF ReadingInv, ToldUnread
  <2>3. CASE k[1] = m
    <3>1. k[2] < stay'[k[1]]
      BY <1>2, <2>1, <2>2, <2>3
    <3> QED
      BY <1>2, <2>1, <2>3, <3>1
  <2>4. CASE k[1] # m
    BY <1>1, <1>2, <2>1, <2>2, <2>4
  <2> QED
    BY <2>3, <2>4
<1>10. ToldUnread'
  BY <1>9 DEF ToldUnread
<1> QED
  BY <1>5, <1>6, <1>8, <1>10 DEF ReadingInv

LEMMA ServeMoveKeeps == ASSUME ReadingInv, NEW r \in asks, ServeMove(r) PROVE ReadingInv'
<1>1. PICK how \in {"ok", "bad"} : Served(r, how)
  BY DEF ServeMove
<1>2. UNCHANGED <<folder, open, bodies, asked, told>>
  BY DEF ServeMove, onScreen
<1>3. CASE UNCHANGED <<where, stay, marks, elsewhere, lists, fetch>>
  BY <1>1, <1>2, <1>3, ServedQuiet
<1>4. CASE ~UNCHANGED <<where, stay, marks, elsewhere, lists, fetch>>
  <2> DEFINE hit == {<<r.of[1], r.of[2] + 1>>}
             m == r.of[1]
  <2>1. Current(r) /\ Refiled(m, r.to) /\ UNCHANGED elsewhere /\ lists' = Missed(lists, hit) /\ fetch' = Missed(fetch, hit)
    BY <1>4 DEF ServeMove, mail
  <2>2. /\ m \in Letter /\ r.of = <<m, stay[m]>> /\ r.of[2] \in Nat
        /\ r.folder \in Shelf /\ r.to \in Shelf /\ where[m] = r.folder /\ r.of \in Pending(r.folder)
    BY <2>1, CurrentFacts DEF ReadingInv
  <2>3. stay[m] < MaxStay /\ stay'[m] = stay[m] + 1 /\ r.of[2] = stay[m] /\ stay[m] \in 1 .. MaxStay
    BY <2>1, <2>2 DEF Refiled, ReadingInv, ReadingType
  <2>4. hit \in SUBSET Stay /\ <<m, stay'[m]>> \in hit
    BY <2>2, <2>3, ReadingAssumption DEF Stay
  <2>5. <<m, stay[m]>> \in hit \union Pending(where[m])
    BY <2>2
  <2>6. /\ \A f \in Shelf : Pending(f)' = Pending(f)
        /\ asks' \subseteq PageAsk
        /\ \A q \in asks' : \/ q \in asks
                            \/ /\ q.kind = r.kind /\ q.of = r.of /\ q.folder = r.folder
                               /\ q.to = r.to /\ q.at = how
        /\ \A q \in asks' : <<q.of, q.folder>> \in Homes
    BY <1>1, ServedFacts DEF ReadingInv
  <2>7. \A q \in asks' : /\ q.kind = "open" => q.to = q.folder
                         /\ <<q.of, q.folder>> \in Homes
                         /\ q.at = "asked" => q \in asks
    BY <2>6 DEF ReadingInv
  <2>8. asked' \in 0 .. MaxAsks /\ elsewhere' \in 0 .. MaxElse
    BY <1>2, <2>1 DEF ReadingInv, ReadingType
  <2> HIDE DEF hit, m
  <2> QED
    BY <1>2, <2>1, <2>2, <2>4, <2>5, <2>6, <2>7, <2>8, MovedKeeps
<1> QED
  BY <1>3, <1>4

LEMMA ElsewhereKeeps == ASSUME ReadingInv, NEW m \in Letter, Elsewhere(m) PROVE ReadingInv'
<1> DEFINE hit == {<<m, stay[m]>>, <<m, stay'[m]>>}
<1>1. /\ lists' = Missed(lists, hit) /\ fetch' = Missed(fetch, hit) /\ told' = told \ hit
      /\ elsewhere < MaxElse /\ elsewhere' = elsewhere + 1
      /\ UNCHANGED <<folder, open, bodies, asks, asked>>
  BY DEF Elsewhere, onScreen, requests
<1>2. elsewhere' \in 0 .. MaxElse /\ asked' \in 0 .. MaxAsks /\ told' \subseteq told
  BY <1>1, ReadingAssumption DEF ReadingInv, ReadingType
<1>3. \A g \in Shelf : Pending(g)' = Pending(g)
  BY <1>1 DEF Pending
<1>4. \A q \in asks' : /\ q.kind = "open" => q.to = q.folder
                       /\ <<q.of, q.folder>> \in Homes
                       /\ q.at = "asked" => q \in asks
  BY <1>1, HomesOf DEF ReadingInv
<1>5. /\ stay[m] \in 1 .. MaxStay /\ <<m, stay[m]>> \in Stay
      /\ asks' \subseteq PageAsk
  BY <1>1 DEF ReadingInv, ReadingType, Stay
<1>6. CASE \E f \in Shelf : Refiled(m, f)
  <2>1. PICK f \in Shelf : Refiled(m, f)
    BY <1>6
  <2>2. stay'[m] \in 1 .. MaxStay
    BY <1>5, <2>1, ReadingAssumption DEF Refiled, ReadingInv, ReadingType
  <2>3. hit \in SUBSET Stay /\ <<m, stay'[m]>> \in hit /\ <<m, stay[m]>> \in hit \union Pending(where[m])
    BY <1>5, <2>2 DEF Stay
  <2> HIDE DEF hit
  <2> QED
    BY <1>1, <1>2, <1>3, <1>4, <1>5, <2>1, <2>3, MovedKeeps
<1>7. CASE stay' = stay
  <2>1. hit = {<<m, stay[m]>>} /\ hit \in SUBSET Stay
    BY <1>5, <1>7
  <2>2. \/ where[m] = "away" /\ where' = [where EXCEPT ![m] = Opening] /\ UNCHANGED marks
        \/ UNCHANGED where /\ \E s \in SUBSET Mark : marks' = [marks EXCEPT ![m] = s]
    <3>1. ASSUME NEW f \in Shelf, Refiled(m, f) PROVE FALSE
      BY <1>5, <1>7, <3>1 DEF Refiled, ReadingInv, ReadingType
    <3> QED
      BY <3>1 DEF Elsewhere
  <2> HIDE DEF hit
  <2>3. /\ lists' \in [Shelf -> ListCopy]
        /\ fetch' \in [Shelf -> FolderFetch]
        /\ \A g \in Shelf : /\ lists'[g].has = lists[g].has /\ lists'[g].late = lists[g].late
                            /\ lists'[g].old = lists[g].old /\ lists'[g].items = lists[g].items
                            /\ lists'[g].but = lists[g].but \union hit
        /\ \A g \in Shelf : /\ fetch'[g].at = fetch[g].at /\ fetch'[g].late = fetch[g].late
                            /\ fetch'[g].items = fetch[g].items /\ fetch'[g].but = fetch[g].but \union hit
        /\ \A g \in Shelf : ItemsFrom(g)' \subseteq ItemsFrom(g)
    BY <1>1, <2>1, MissedFacts DEF ReadingInv
  <2>4. where' \in [Letter -> Shelf \union {"away"}] /\ marks' \in [Letter -> SUBSET Mark]
    <3>1. where \in [Letter -> Shelf \union {"away"}] /\ marks \in [Letter -> SUBSET Mark]
      BY DEF ReadingInv, ReadingType
    <3>2. Opening \in Shelf
      BY ReadingAssumption
    <3> QED
      BY <2>2, <3>1, <3>2
  <2>5. ReadingType'
    BY <1>1, <1>2, <1>7, <2>3, <2>4 DEF ReadingInv, ReadingType
  <2>6. \A n \in Letter \ {m} : where'[n] = where[n] /\ stay'[n] = stay[n] /\ marks'[n] = marks[n]
    BY <1>7, <2>2 DEF ReadingInv, ReadingType
  <2>7. HomesKnown'
    <3>1. CASE UNCHANGED where
      <4>1. \A g \in Shelf : ItemsFrom(g)' \subseteq ItemsFrom(g) \union Server(g)
        BY <2>3
      <4> QED
        BY <1>1, <1>4, <1>7, <3>1, <4>1, HomesOf, HomesQuiet DEF ReadingInv
    <3>2. CASE where[m] = "away" /\ where' = [where EXCEPT ![m] = Opening]
      <4> DEFINE n == stay[m]
      <4>1. n \in Nat /\ stay[m] <= n /\ stay' = [stay EXCEPT ![m] = n]
        BY <1>5, <1>7 DEF ReadingInv, ReadingType
      <4>2. \A h \in Homes : h[1] # <<m, n>>
        <5> SUFFICES ASSUME NEW h \in Homes, h[1] = <<m, n>> PROVE FALSE
          OBVIOUS
        <5>1. h[1][1] = m /\ h[1][2] = stay[m] /\ h[2] \in Shelf
          BY DEF Homes
        <5>2. where[m] = h[2]
          BY <5>1 DEF ReadingInv, HomesKnown
        <5> QED
          BY <3>2, <5>1, <5>2, ReadingAssumption
      <4> HIDE DEF n
      <4> QED
        BY <1>1, <1>4, <2>3, <3>2, <4>1, <4>2, HomesMoved, ReadingAssumption DEF ReadingInv
    <3> QED
      BY <2>2, <3>1, <3>2
  <2>8. \A g \in Shelf : \A but \in {lists'[g].but, fetch'[g].but} : \A n \in Letter :
           \/ where'[n] = where[n] /\ stay'[n] = stay[n] /\ marks'[n] = marks[n]
           \/ /\ where[n] = g => <<n, stay[n]>> \in but \union Pending(g)
              /\ where'[n] = g => <<n, stay'[n]>> \in but \union Pending(g)
    <3> SUFFICES ASSUME NEW g \in Shelf, NEW but \in {lists'[g].but, fetch'[g].but}
                 PROVE  <<m, stay[m]>> \in but
      BY <1>7, <2>6
    <3> QED
      BY <2>1, <2>3
  <2>9. CopiesFollow'
    BY <1>3, <2>3, <2>8, CopiesServed DEF ReadingInv
  <2>10. ASSUME NEW k \in told'
         PROVE  /\ k[2] <= stay'[k[1]]
                /\ k[2] = stay'[k[1]] => /\ "seen" \notin marks'[k[1]]
                                         /\ \A q \in asks' : ~(q.kind = "open" /\ q.of = k /\ q.at = "asked" /\ q.folder = where'[k[1]])
    <3>1. k \in told /\ k[1] \in Letter /\ k[2] \in Nat /\ k = <<k[1], k[2]>> /\ k # <<m, stay[m]>>
      BY <1>1, <2>1, <2>10 DEF ReadingInv, ReadingType, Stay
    <3>2. /\ k[2] <= stay[k[1]]
          /\ k[2] = stay[k[1]] => "seen" \notin marks[k[1]]
          /\ k[2] = stay[k[1]] =>
               \A q \in asks : ~(q.kind = "open" /\ q.of = k /\ q.at = "asked" /\ q.folder = where[k[1]])
      BY <3>1 DEF ReadingInv, ToldUnread
    <3> QED
      BY <1>1, <1>7, <2>6, <3>1, <3>2
  <2>11. ToldUnread'
    BY <2>10 DEF ToldUnread
  <2> QED
    BY <1>4, <2>5, <2>7, <2>9, <2>11 DEF ReadingInv
<1> QED
  BY <1>6, <1>7 DEF Elsewhere

LEMMA ReadingNextInv == ReadingInv /\ [ReadingNext]_readingVars => ReadingInv'
<1> SUFFICES ASSUME ReadingInv, [ReadingNext]_readingVars PROVE ReadingInv'
  OBVIOUS
<1>1. ASSUME NEW f \in Shelf, ReadList(f) \/ ListArrives(f) \/ ListFails(f) \/ OpenFolder(f) PROVE ReadingInv'
  BY <1>1, ReadListKeeps, ListArrivesKeeps, LooksKeep
<1>2. ASSUME NEW k \in Listed, OpenMessage(k) PROVE ReadingInv'
  BY <1>2, OpenMessageKeeps
<1>3. CASE CloseMessage \/ Reconnect
  BY <1>3, LooksKeep, ReconnectKeeps
<1>4. ASSUME NEW kind \in {"unread", "star"}, Press(kind, folder) PROVE ReadingInv'
  BY <1>4, PressKeeps DEF ReadingInv, ReadingType
<1>5. ASSUME NEW kind \in {"move", "block"}, NEW f \in Shelf \ {folder}, Press(kind, f) PROVE ReadingInv'
  BY <1>5, PressKeeps
<1>6. ASSUME NEW r \in asks, ServeOpen(r) \/ ServeMarks(r) \/ ServeMove(r) PROVE ReadingInv'
  BY <1>6, ServeOpenKeeps, ServeMarksKeeps, ServeMoveKeeps
<1>7. ASSUME NEW r \in asks, OpenAnswered(r) \/ MarksAnswered(r) \/ MoveAnswered(r) \/ PressFailed(r)
      PROVE  ReadingInv'
  BY <1>7, OpenAnsweredKeeps, PressesAnsweredKeep
<1>8. ASSUME NEW m \in Letter, Elsewhere(m) PROVE ReadingInv'
  BY <1>8, ElsewhereKeeps
<1>9. CASE UNCHANGED readingVars
  <2>1. UNCHANGED <<where, stay, marks, elsewhere, folder, open, bodies, lists, fetch, asks, asked, told>>
    BY <1>9 DEF readingVars, mail, onScreen, kept, requests
  <2>2. ReadingType'
    BY <2>1 DEF ReadingInv, ReadingType
  <2>3. \A g \in Shelf : Pending(g)' = Pending(g) /\ ItemsFrom(g)' \subseteq ItemsFrom(g) \union Server(g)
    BY <2>1 DEF Pending, ItemsFrom
  <2>4. HomesKnown'
    BY <2>1, <2>3, HomesOf, HomesQuiet DEF ReadingInv
  <2>5. CopiesFollow'
    BY <2>1, <2>3, CopiesStay DEF ReadingInv
  <2>6. ToldUnread'
    BY <2>1, ToldQuiet DEF ReadingInv
  <2> QED
    BY <2>1, <2>2, <2>4, <2>5, <2>6 DEF ReadingInv
<1> QED
  BY <1>1, <1>2, <1>3, <1>4, <1>5, <1>6, <1>7, <1>8, <1>9 DEF ReadingNext

\* The invariant of reading: every list the page keeps or fetches has what the
\* folder had, but for what it was not told of and what is to be answered.
THEOREM ReadingInvariant == ReadingSpec => []ReadingInv
BY ReadingInitInv, ReadingNextInv, PTL DEF ReadingSpec

\* A list that is used as it is has the messages of its folder.
THEOREM ListsFollow == ReadingSpec => []ListFollows
<1>1. ReadingInv => ListFollows
  <2> SUFFICES ASSUME ReadingInv, NEW f \in Shelf, lists[f].has, ~lists[f].late, ~lists[f].old,
                      \A r \in asks : r.folder # f
               PROVE  Beside(lists[f].items, lists[f].but) = Beside(Server(f), lists[f].but)
    BY DEF ListFollows
  <2>1. lists[f].but \union Pending(f) = lists[f].but
    BY DEF Pending
  <2> QED
    BY <2>1 DEF ReadingInv, CopiesFollow, Follows
<1> QED
  BY <1>1, ReadingInvariant, PTL

\* A message marked unread stays so until the page fetches it, be it that it is
\* opened or that a connection comes back while it is shown.
THEOREM UnreadStays == ReadingSpec => []UnreadKept
<1>1. ReadingInv => UnreadKept
  <2> SUFFICES ASSUME ReadingInv, NEW m \in Letter, <<m, stay[m]>> \in told PROVE "seen" \notin marks[m]
    BY DEF UnreadKept
  <2> QED
    BY DEF ReadingInv, ToldUnread
<1> QED
  BY <1>1, ReadingInvariant, PTL

=============================================================================
