---------------------------- MODULE Appointments ----------------------------
(***************************************************************************)
(* What a public booking page promises its visitors: an appointment is     *)
(* made in one indivisible step, only for a time nobody else holds, and    *)
(* leaves only by being cancelled.                                         *)
(***************************************************************************)
CONSTANTS Id, Time

VARIABLE held     \* the appointments that stand: [id, start] records

AInit == held = {}

Make(i, t) ==
  /\ \A a \in held : a.start # t /\ a.id # i
  /\ held' = held \union {[id |-> i, start |-> t]}

Drop(S) ==
  /\ S \subseteq held
  /\ held' = held \ S

ANext ==
  \/ \E i \in Id, t \in Time : Make(i, t)
  \/ \E S \in SUBSET held : Drop(S)

ASpec == AInit /\ [][ANext]_held

=============================================================================
