------------------------------ MODULE MCTimers ------------------------------
(***************************************************************************)
(* What comes right with time, in small instances of LoginLockout,         *)
(* DomainRecords and ScheduledSend: a lock that ends with the life of its  *)
(* counter, verdicts on DNS records that the sweep brings up to date, and  *)
(* letters that leave when they are due, their handlers not overlapping.   *)
(*                                                                         *)
(* They share no variable, so a step of one does the same whatever the     *)
(* others do: a behaviour moves one of them, picked at the start, and the  *)
(* others stay as they began.                                              *)
(***************************************************************************)
EXTENDS LoginLockout, DomainRecords, TLC

CONSTANTS d1, c1, m1, m2, r1,
          Mail, Req, Throttle, MaxTime, Ops, SmtpFails, MaxRestarts

VARIABLES part,
          prefs, req, browser, now, restarts, accepted, cancelled, sent,
          refused, otp, created, stale

\* m1 becomes due before m2, and both after the clock's first tick.
Letters == INSTANCE ScheduledSend
             WITH crashes <- restarts, MaxCrashes <- MaxRestarts,
                  DueAt <- (m1 :> 2) @@ (m2 :> 3)

lettersVars == <<prefs, req, browser, now, restarts, accepted, cancelled, sent,
                 refused, otp, created, stale>>

TimersVars == <<vars, domainVars, lettersVars, part>>

\* One zone is enough while the records wait.
TimersInit ==
  /\ part \in {"lockout", "records", "letters"}
  /\ Init /\ DomainInit /\ Letters!Init
  /\ part # "records" => zone = {}

LockoutMoves == part = "lockout" /\ Next /\ UNCHANGED <<domainVars, lettersVars, part>>
RecordsMove == part = "records" /\ DomainNext /\ UNCHANGED <<vars, lettersVars, part>>
LettersMove == part = "letters" /\ Letters!Next /\ UNCHANGED <<vars, domainVars, part>>

\* The fairness of each part.  No login and no check is under way as they
\* begin, so that theirs asks nothing of the behaviours in which they wait.
TimersSpec ==
  /\ TimersInit /\ [][LockoutMoves \/ RecordsMove \/ LettersMove]_TimersVars
  /\ Fairness /\ DomainFairness
  /\ WF_TimersVars(LettersMove /\ Letters!Tick)
  /\ \A r \in Req : /\ WF_TimersVars(LettersMove /\ Letters!Continue(r))
                   /\ SF_TimersVars(LettersMove /\ Letters!FlushRead(r))

\* What ScheduledSend says of its letters.
OutboxSpec == Letters!OutboxSpec
EventuallyHandled == Letters!EventuallyHandled

=============================================================================
