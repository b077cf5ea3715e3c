------------------------------ MODULE Booking -------------------------------
(***************************************************************************)
(* One public booking link of the webmail: booking.service.ts.             *)
(*                                                                         *)
(* A visitor asks for a start time.  createBooking() reads the link, then  *)
(* runs a Serializable transaction that recomputes the free slots and      *)
(* inserts the booking.  The owner of the link meanwhile cancels bookings, *)
(* changes the link or deletes it, outside any such transaction.           *)
(*                                                                         *)
(* Abstractions: one day with its availability windows is modelled, in     *)
(* units of time; a change of the weekly hours or of the time zone gives   *)
(* it other windows.  A time two windows offer is offered twice by the     *)
(* code, and once here.  isActive is left out: no route changes it.        *)
(* PostgreSQL is modelled by what Serializable guarantees here: two such   *)
(* transactions that overlap both read the link's bookings and both insert *)
(* into them, so only the one that commits first survives.                 *)
(***************************************************************************)
EXTENDS Naturals

CONSTANTS Req,          \* visitors' requests in flight
          Id,           \* primary keys
          Close,        \* end of the day
          Hours,        \* availabilities the owner chooses from: sets of windows
          Durations,    \* durations the owner chooses from
          MaxTime       \* bound of the clock

Time == 0 .. Close
Window == [opens : Time, closes : Time]

ASSUME DurationAssumption ==
  /\ Durations \subseteq Nat \ {0} /\ Durations # {}
  /\ Close \in Nat /\ MaxTime \in Nat
  /\ Hours \subseteq SUBSET Window

VARIABLES link,      \* the BookingLink row
          rows,      \* the Booking rows
          spent,     \* keys already used
          now,       \* Date.now()
          req,       \* the requests in flight: local variables
          regrid     \* history: the owner changed the duration or the hours

vars == <<link, rows, spent, now, req, regrid>>

Link == [exists : BOOLEAN, availability : Hours, durationMins : Durations]

Row == [id : Id, start : Time, finish : Nat, cancelled : BOOLEAN]

Local == [pc    : {"idle", "begin", "insert"},
          start : Time,        \* the time the visitor asks for
          mins  : Nat,         \* durationMins as read before the transaction
          raced : BOOLEAN]     \* another one committed since the snapshot

Idle == [pc |-> "idle", start |-> 0, mins |-> 0, raced |-> FALSE]

Init ==
  /\ link \in [exists : {TRUE}, availability : Hours, durationMins : Durations]
  /\ rows = {}
  /\ spent = {}
  /\ now = 0
  /\ req = [r \in Req |-> Idle]
  /\ regrid = FALSE

Live == {b \in rows : ~b.cancelled}

\* The times a window is cut into: a slot begins where the last one ended.
Cut(w, d) ==
  {t \in Time : t >= w.opens /\ (t - w.opens) % d = 0 /\ t + d <= w.closes}

Slots(l) == UNION {Cut(w, l.durationMins) : w \in l.availability}

\* Mistake: the cancelled bookings take their time, the others do not.
Taken_Cancelled == {b.start : b \in {c \in rows : c.cancelled /\ c.start >= now}}

Taken == {b.start : b \in {c \in Live : c.start >= now}}

Available == {t \in Slots(link) : t > now /\ t \notin Taken}

-----------------------------------------------------------------------------
(* Visitors.                                                               *)

\* POST /public/bookings/:slug: the link is read and the time is compared
\* with the clock before the transaction begins.
Submit(r, t) ==
  /\ req[r].pc = "idle"
  /\ link.exists
  /\ t >= now
  /\ req' = [req EXCEPT ![r] = [pc |-> "begin", start |-> t,
                               mins |-> link.durationMins, raced |-> FALSE]]
  /\ UNCHANGED <<link, rows, spent, now, regrid>>

\* The transaction's reads see one snapshot.
TxRead(r) ==
  /\ req[r].pc = "begin"
  /\ req' = [req EXCEPT ![r] = IF link.exists /\ req[r].start \in Available
                              THEN [@ EXCEPT !.pc = "insert", !.raced = FALSE]
                              ELSE Idle]
  /\ UNCHANGED <<link, rows, spent, now, regrid>>

\* Mistake: the transaction runs at the default isolation level.
TxCommit_ReadCommitted(r, i) ==
  /\ req[r].pc = "insert"
  /\ link.exists
  /\ i \notin spent
  /\ rows' = rows \union {[id |-> i, start |-> req[r].start,
                           finish |-> req[r].start + req[r].mins, cancelled |-> FALSE]}
  /\ spent' = spent \union {i}
  /\ req' = [q \in Req |-> IF q = r THEN Idle ELSE [req[q] EXCEPT !.raced = TRUE]]
  /\ UNCHANGED <<link, now, regrid>>

\* The insert is committed.  Transactions that are still open will not be.
TxCommit(r, i) ==
  /\ req[r].pc = "insert"
  /\ ~req[r].raced
  /\ link.exists
  /\ i \notin spent
  /\ rows' = rows \union {[id |-> i, start |-> req[r].start,
                           finish |-> req[r].start + req[r].mins, cancelled |-> FALSE]}
  /\ spent' = spent \union {i}
  /\ req' = [q \in Req |-> IF q = r THEN Idle ELSE [req[q] EXCEPT !.raced = TRUE]]
  /\ UNCHANGED <<link, now, regrid>>

\* The transaction is rolled back: a serialization failure (P2034), which the
\* visitor sees as SLOT_TAKEN, or the link is gone, or the connection is.
TxAbort(r) ==
  /\ req[r].pc = "insert"
  /\ req' = [req EXCEPT ![r] = Idle]
  /\ UNCHANGED <<link, rows, spent, now, regrid>>

-----------------------------------------------------------------------------
(* The owner.                                                              *)

CancelBooking(b) ==
  /\ b \in rows
  /\ rows' = (rows \ {b}) \union {[b EXCEPT !.cancelled = TRUE]}
  /\ UNCHANGED <<link, spent, now, req, regrid>>

\* PATCH /booking-links/:id with another duration or other hours.
UpdateLink(d, h) ==
  /\ link.exists
  /\ link' = [link EXCEPT !.durationMins = d, !.availability = h]
  /\ regrid' = (regrid \/ link' # link)
  /\ UNCHANGED <<rows, spent, now, req>>

\* Deleting the link deletes its bookings (onDelete: Cascade).
DeleteLink ==
  /\ link.exists
  /\ link' = [link EXCEPT !.exists = FALSE]
  /\ rows' = {}
  /\ UNCHANGED <<spent, now, req, regrid>>

Tick ==
  /\ now < MaxTime
  /\ now' = now + 1
  /\ UNCHANGED <<link, rows, spent, req, regrid>>

Next ==
  \/ \E r \in Req :
       \/ \E t \in Time : Submit(r, t)
       \/ TxRead(r)
       \/ \E i \in Id : TxCommit(r, i)
       \/ TxAbort(r)
  \/ \E b \in rows : CancelBooking(b)
  \/ \E d \in Durations, h \in Hours : UpdateLink(d, h)
  \/ DeleteLink
  \/ Tick

Spec == Init /\ [][Next]_vars

-----------------------------------------------------------------------------
(* Properties.                                                             *)

TypeOK ==
  /\ link \in Link
  /\ rows \subseteq Row
  /\ spent \subseteq Id
  /\ now \in Nat
  /\ req \in [Req -> Local]
  /\ regrid \in BOOLEAN

\* No two bookings that stand begin at the same time, however many visitors
\* ask for it at once and whatever the owner does meanwhile.
NoDoubleBooking ==
  \A b, c \in Live : b.start = c.start => b = c

Overlap(b, c) == b.start < c.finish /\ c.start < b.finish

\* "excluding booked times": no two bookings that stand overlap.
NoOverlap == \A b, c \in Live : Overlap(b, c) => b = c

\* While the owner leaves the duration and the hours alone, bookings end before
\* their window does, and do not overlap at all unless the windows do.
WindowsApart ==
  \A v, w \in link.availability : v = w \/ v.closes <= w.opens \/ w.closes <= v.opens

GridKept ==
  ~regrid =>
    /\ \A b \in Live : \E w \in link.availability : w.opens <= b.start /\ b.finish <= w.closes
    /\ WindowsApart => NoOverlap

\* The appointments that stand, as a visitor sees them.
Held == {[id |-> b.id, start |-> b.start] : b \in Live}

\* The page keeps the promise of Appointments.
Page == INSTANCE Appointments WITH held <- Held
PageSpec == Page!ASpec

=============================================================================
