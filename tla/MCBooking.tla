----------------------------- MODULE MCBooking ------------------------------
(***************************************************************************)
(* Small instances of Booking.                                             *)
(***************************************************************************)
EXTENDS Booking, TLC

CONSTANTS r1, r2, r3, i1, i2, i3

\* The whole day, or all but its beginning.
MCHours == {{[opens |-> o, closes |-> Close]} : o \in {0, 1}}

\* Requests are interchangeable, and so are keys.
Symmetry == Permutations(Req) \union Permutations(Id)

=============================================================================
