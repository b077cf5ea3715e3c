-------------------------- MODULE MCAccountAccess --------------------------
(***************************************************************************)
(* A small instance of AccountAccess.  Requests are interchangeable.       *)
(***************************************************************************)
EXTENDS AccountAccess, TLC

CONSTANTS r1, r2, t1, c1, l1

Symmetry == Permutations(Req)

=============================================================================
