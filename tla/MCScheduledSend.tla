-------------------------- MODULE MCScheduledSend --------------------------
(***************************************************************************)
(* Small instances of ScheduledSend.                                       *)
(***************************************************************************)
EXTENDS ScheduledSend, TLC

CONSTANTS m1, m2, r1, r2,
          MaxSent        \* copies of one message after which a run looks no further

VARIABLE beside     \* who writes the row beside the queue and the second factor

\* Either the browser saves or auto-clean runs, each with everything else.
BesideInit == Init /\ beside \in {"put", "clean"}
BrowserBeside == beside = "put" /\ Next /\ (\A r \in Req : req'[r].pc # "clean") /\ UNCHANGED beside
CleanBeside == beside = "clean" /\ Next /\ UNCHANGED <<browser, beside>>
BesideSpec == BesideInit /\ [][BrowserBeside \/ CleanBeside]_<<vars, beside>>

SentBound == \A m \in Mail : sent[m] <= MaxSent

\* m1 becomes due before m2, and both after the clock's first tick.
MCDueAt == (m1 :> 2) @@ (m2 :> 3)

\* A single message, due at the first tick.
MCDueSoon == m1 :> 2

\* Handlers are interchangeable.
Symmetry == Permutations(Req)

=============================================================================
