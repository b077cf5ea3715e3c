---------------------------- MODULE LoginLockout ----------------------------
(***************************************************************************)
(* verifyCredentials() of the admin API and the Redis counter behind it,   *)
(* for one account.                                                        *)
(*                                                                         *)
(* The counter is one Redis key with an optional time to live.  A login    *)
(* reads it (GET), compares the password, and then either increments it    *)
(* (INCR, followed by a separate EXPIRE when the result is 1) or deletes   *)
(* it (DEL).  Logins of the same account overlap at each of these calls.   *)
(* Time is counted in ticks of the key's remaining life.                   *)
(* The webmail's login keeps its counter (lib/ratelimit.ts) by the same    *)
(* calls, with a limit of 6.                                               *)
(***************************************************************************)
EXTENDS Integers, FiniteSets

CONSTANTS Proc,          \* logins of this account that may be in flight
          MaxAttempts,   \* MAX_LOGIN_ATTEMPTS
          Window,        \* LOCKOUT_WINDOW_SEC, in ticks
          MaxCrashes     \* how often the server may restart

ASSUME ProcAssumption == IsFiniteSet(Proc)
ASSUME LimitAssumption ==
  /\ MaxAttempts \in Nat \ {0} /\ Window \in Nat \ {0} /\ MaxCrashes \in Nat

VARIABLES attempts,    \* value of the key, 0 when there is none
          ttl,         \* remaining life of the key, NoTtl when it has none
          pc,          \* where each login waits
          crashes,     \* restarts so far
          guesses      \* history: passwords admitted to comparison since the
                       \* key last vanished

vars == <<attempts, ttl, pc, crashes, guesses>>

NoTtl == -1

Init ==
  /\ attempts = 0
  /\ ttl = NoTtl
  /\ pc = [p \in Proc |-> "idle"]
  /\ crashes = 0
  /\ guesses = 0

Locked == attempts >= MaxAttempts

\* Mistake: the limit is compared with > instead of >=.
Gate_OffByOne(p) ==
  /\ pc[p] = "idle"
  /\ attempts <= MaxAttempts
  /\ pc' = [pc EXCEPT ![p] = "compare"]
  /\ guesses' = guesses + 1
  /\ UNCHANGED <<attempts, ttl, crashes>>

\* redis.get: a login of a locked account is answered at once; any other goes
\* on to look the user up and to compare the password.
Gate(p) ==
  /\ pc[p] = "idle"
  /\ ~Locked
  /\ pc' = [pc EXCEPT ![p] = "compare"]
  /\ guesses' = guesses + 1
  /\ UNCHANGED <<attempts, ttl, crashes>>

\* Mistake: the key never gets a life.
Fail_NoExpire(p) ==
  /\ pc[p] = "compare"
  /\ attempts' = attempts + 1
  /\ pc' = [pc EXCEPT ![p] = "idle"]
  /\ UNCHANGED <<ttl, crashes, guesses>>

\* Unknown user, wrong password or suspended user: redis.incr.
Fail(p) ==
  /\ pc[p] = "compare"
  /\ attempts' = attempts + 1
  /\ pc' = [pc EXCEPT ![p] = IF attempts' = 1 THEN "expire" ELSE "idle"]
  /\ UNCHANGED <<ttl, crashes, guesses>>

\* redis.expire after the first hit; it does nothing when the key is gone.
Expire(p) ==
  /\ pc[p] = "expire"
  /\ ttl' = IF attempts > 0 THEN Window ELSE ttl
  /\ pc' = [pc EXCEPT ![p] = "idle"]
  /\ UNCHANGED <<attempts, crashes, guesses>>

\* The right password: redis.del.
Succeed(p) ==
  /\ pc[p] = "compare"
  /\ attempts' = 0
  /\ ttl' = NoTtl
  /\ guesses' = 0
  /\ pc' = [pc EXCEPT ![p] = "idle"]
  /\ UNCHANGED crashes

\* Redis drops the key when its life is over.
Tick ==
  /\ ttl # NoTtl
  /\ IF ttl = 1
     THEN attempts' = 0 /\ ttl' = NoTtl /\ guesses' = 0
     ELSE ttl' = ttl - 1 /\ UNCHANGED <<attempts, guesses>>
  /\ UNCHANGED <<pc, crashes>>

\* The API process dies; Redis keeps the key.
Crash ==
  /\ crashes < MaxCrashes
  /\ \E p \in Proc : pc[p] # "idle"
  /\ crashes' = crashes + 1
  /\ pc' = [p \in Proc |-> "idle"]
  /\ UNCHANGED <<attempts, ttl, guesses>>

Next ==
  \/ \E p \in Proc : Gate(p) \/ Fail(p) \/ Expire(p) \/ Succeed(p)
  \/ Tick
  \/ Crash

Spec == Init /\ [][Next]_vars

\* Time passes and a login in flight runs to its end.  Nobody has to log in.
Fairness ==
  /\ WF_vars(Tick)
  /\ \A p \in Proc : WF_vars(Fail(p) \/ Succeed(p)) /\ WF_vars(Expire(p))

FairSpec == Spec /\ Fairness

-----------------------------------------------------------------------------
(* Properties.                                                             *)

TypeOK ==
  /\ attempts \in Nat
  /\ ttl \in (Nat \ {0}) \union {NoTtl}
  /\ pc \in [Proc -> {"idle", "compare", "expire"}]
  /\ crashes \in Nat
  /\ guesses \in Nat
  /\ attempts = 0 => ttl = NoTtl

InFlight == {p \in Proc : pc[p] = "compare"}

\* Between two disappearances of the counter at most MaxAttempts - 1 passwords
\* plus one per login in flight are compared: the check of the counter and its
\* increment are apart, so every overlapping login may slip through once, and
\* a restart forgets the ones that were in flight.
GuessBound ==
  guesses <= MaxAttempts - 1 + Cardinality(Proc) * (crashes + 1)

\* A counter that will never expire by itself is about to get its life from
\* the login that created it, unless the server died in between.
LifeIsComing ==
  attempts > 0 /\ ttl = NoTtl /\ crashes = 0 => \E p \in Proc : pc[p] = "expire"

\* A restart came between INCR and EXPIRE: nothing will end the counter.
Orphaned ==
  /\ attempts > 0 /\ ttl = NoTtl /\ crashes > 0
  /\ \A p \in Proc : pc[p] # "expire"

\* A locked account is unlocked again, unless a restart orphaned its counter.
LockEnds == Locked ~> (~Locked \/ Orphaned)

\* "5 failed attempts -> 15-minute lockout": every lock ends.
LockAlwaysEnds == Locked ~> ~Locked

=============================================================================
