--------------------------- MODULE AccountAccess ---------------------------
(***************************************************************************)
(* One account of the admin panel: how it is entered and closed.           *)
(*                                                                         *)
(* Login, second factor, refresh sessions, enrolment of the second factor  *)
(* and password reset (auth.routes.ts, auth.service.ts, session.service.ts,*)
(* totp.service.ts).  The account's row, its sessions and its recovery     *)
(* codes are in PostgreSQL, login challenges and reset links in Redis.     *)
(* Each statement is a step; handlers overlap between their statements.    *)
(*                                                                         *)
(* Passwords are counted: each reset sets one nobody used before.  Secrets *)
(* are counted too, and stand for the ten recovery codes made with them,   *)
(* of which one is followed.  An attempt that is refused (wrong password,  *)
(* suspended account, wrong code, missing challenge or link) changes       *)
(* nothing here and is left out; LoginLockout counts the wrong passwords.  *)
(* The account itself is not deleted.                                      *)
(***************************************************************************)
EXTENDS Integers, FiniteSets

CONSTANTS Req,         \* requests in flight
          Tok,         \* refresh sessions that can exist at a time
          Chal,        \* login challenges that can exist at a time
          Link,        \* reset links that can exist at a time
          MaxSetups,   \* bound: enrolments of the second factor
          MaxPw,       \* bound: no reset link is asked for beyond it
          MaxCrashes,  \* bound: restarts of the server
          None         \* no challenge, no link

ASSUME SetAssumption == IsFiniteSet(Req) /\ None \notin Chal \union Link
ASSUME BoundAssumption == MaxSetups \in Nat /\ MaxPw \in Nat /\ MaxCrashes \in Nat

VARIABLES user,      \* the account's row: password, second factor
          code,      \* state of the recovery code of each enrolment
          sess,      \* refresh sessions
          chal,      \* pending login challenges
          link,      \* pending reset links
          req,       \* where each request waits, and what it holds
          crashes,   \* restarts so far
          shown,     \* enrolments whose secret and codes reached the user
          \* history
          closed,    \* newest password whose reset was acknowledged
          uses,      \* how often the recovery code of each enrolment passed
          verified,  \* secrets for which a code was verified
          crossed,   \* secrets enabled by a verification of another one
          mixed      \* enrolments overlapped, or one was cut off

history == <<closed, uses, verified, crossed, mixed>>
store == <<user, code, sess, chal, link>>
vars == <<store, req, crashes, shown, history>>

Setup == 1..MaxSetups

User == [pw : Nat, secret : 0..MaxSetups, enabled : BOOLEAN]
\* pw and late are history: the password the login proved, and whether the
\* session was created after a newer one had closed the account's sessions.
Session == [st : {"none", "live", "over"}, pw : Nat, late : BOOLEAN]
Challenge == [pending : BOOLEAN, pw : Nat]
Pc == {"idle", "challenge", "issue", "take", "check", "find", "use",
       "purge", "create", "enable", "unlink", "write", "close"}
Local == [pc : Pc, pw : Nat, chal : Chal \union {None},
          link : Link \union {None}, set : 0..MaxSetups]

NoSession == [st |-> "none", pw |-> 0, late |-> FALSE]
NoChallenge == [pending |-> FALSE, pw |-> 0]
Place(pc, pw, set) == [pc |-> pc, pw |-> pw, chal |-> None, link |-> None, set |-> set]
Idle == Place("idle", 0, 0)

At(r, pc) == req[r].pc = pc
Done(r) == req' = [req EXCEPT ![r] = Idle]
Goto(r, pc) == req' = [req EXCEPT ![r].pc = pc]
Enrolling(r) == req[r].pc \in {"purge", "create"}

Init ==
  /\ user = [pw |-> 0, secret |-> 0, enabled |-> FALSE]
  /\ code = [i \in Setup |-> "none"]
  /\ sess = [t \in Tok |-> NoSession]
  /\ chal = [c \in Chal |-> NoChallenge]
  /\ link = [l \in Link |-> FALSE]
  /\ req = [r \in Req |-> Idle]
  /\ crashes = 0
  /\ shown = {}
  /\ closed = 0
  /\ uses = [i \in Setup |-> 0]
  /\ verified = {} /\ crossed = {}
  /\ mixed = FALSE

-----------------------------------------------------------------------------
(* Login.                                                                  *)

\* verifyCredentials() read the row and the password was right.  The row it
\* read also decides, later on, whether a second factor is asked for.
Login(r) ==
  /\ At(r, "idle")
  /\ req' = [req EXCEPT ![r] =
       Place(IF user.enabled THEN "challenge" ELSE "issue", user.pw, 0)]
  /\ UNCHANGED <<store, crashes, shown, history>>

\* startMfaChallenge(): SET with a time to live, under a new random key.
StartMfaChallenge(r, c) ==
  /\ At(r, "challenge")
  /\ ~chal[c].pending /\ \A q \in Req : req[q].chal # c
  /\ chal' = [chal EXCEPT ![c] = [pending |-> TRUE, pw |-> req[r].pw]]
  /\ Done(r)
  /\ UNCHANGED <<user, code, sess, link, crashes, shown, history>>

\* createSession(), the last statement of issueTokens().
CreateSession(r, t) ==
  /\ At(r, "issue")
  /\ sess[t].st = "none"
  /\ sess' = [sess EXCEPT ![t] =
       [st |-> "live", pw |-> req[r].pw, late |-> req[r].pw < closed]]
  /\ Done(r)
  /\ UNCHANGED <<user, code, chal, link, crashes, shown, history>>

-----------------------------------------------------------------------------
(* POST /mfa/verify.                                                       *)

\* consumeMfaChallenge(): GET ...
MfaGet(r, c) ==
  /\ At(r, "idle") /\ chal[c].pending
  /\ req' = [req EXCEPT ![r] =
       [Place("take", chal[c].pw, 0) EXCEPT !.chal = c]]
  /\ UNCHANGED <<store, crashes, shown, history>>

\* ... and DEL.
MfaDel(r) ==
  /\ At(r, "take")
  /\ chal' = [chal EXCEPT ![req[r].chal] = NoChallenge]
  /\ req' = [req EXCEPT ![r] = Place("check", req[r].pw, 0)]
  /\ UNCHANGED <<user, code, sess, link, crashes, shown, history>>

\* The row is read.  A code of its secret passes; anything else is tried as a
\* recovery code, of any enrolment the user has seen; or the attempt fails.
MfaCheck(r) ==
  /\ At(r, "check")
  /\ \/ /\ user.secret \in shown
        /\ Goto(r, "issue")
     \/ /\ user.secret # 0
        /\ \E i \in shown :
             req' = [req EXCEPT ![r] = Place("find", req[r].pw, i)]
     \/ Done(r)
  /\ UNCHANGED <<store, crashes, shown, history>>

\* Mistake: codes that were used are found again.
RecoveryFind_Any(r) ==
  /\ At(r, "find")
  /\ IF code[req[r].set] # "none" THEN Goto(r, "use") ELSE Done(r)
  /\ UNCHANGED <<store, crashes, shown, history>>

\* consumeRecoveryCode(): the row of an unused code ...
RecoveryFind(r) ==
  /\ At(r, "find")
  /\ IF code[req[r].set] = "unused" THEN Goto(r, "use") ELSE Done(r)
  /\ UNCHANGED <<store, crashes, shown, history>>

\* ... is marked used; the update of a row deleted meanwhile throws.
RecoveryUse(r) ==
  LET i == req[r].set IN
  /\ At(r, "use")
  /\ IF code[i] = "none"
     THEN Done(r) /\ UNCHANGED <<code, uses>>
     ELSE /\ code' = [code EXCEPT ![i] = "used"]
          /\ uses' = [uses EXCEPT ![i] = @ + 1]
          /\ Goto(r, "issue")
  /\ UNCHANGED <<user, sess, chal, link, crashes, shown,
                 closed, verified, crossed, mixed>>

-----------------------------------------------------------------------------
(* Sessions: single statements.                                            *)

\* revokeSession(), and the delete of an expired row by resolveSession().
Revoke(t) ==
  /\ sess[t].st # "none"
  /\ sess' = [sess EXCEPT ![t] = NoSession]
  /\ UNCHANGED <<user, code, chal, link, req, crashes, shown, history>>

\* revokeAllSessions(), by a super admin.
ForceLogout ==
  /\ sess' = [t \in Tok |-> NoSession]
  /\ UNCHANGED <<user, code, chal, link, req, crashes, shown, history>>

-----------------------------------------------------------------------------
(* POST /totp/setup and /totp/verify.  The bearer token they ask for is     *)
(* signed, not stored: it outlives the session it was issued for, and one   *)
(* of an earlier login is always around.                                    *)

\* Mistake: the old second factor stays enabled.
SetupTotp_StillEnabled(r) ==
  /\ At(r, "idle") /\ user.secret < MaxSetups
  /\ user' = [user EXCEPT !.secret = @ + 1]
  /\ mixed' = \E q \in Req \ {r} : Enrolling(q)
  /\ req' = [req EXCEPT ![r] = Place("purge", 0, user'.secret)]
  /\ UNCHANGED <<code, sess, chal, link, crashes, shown,
                 closed, uses, verified, crossed>>

\* setupTotp(): the new secret, not enabled, replaces the old one ...
SetupTotp(r) ==
  /\ At(r, "idle") /\ user.secret < MaxSetups
  /\ user' = [pw |-> user.pw, secret |-> user.secret + 1, enabled |-> FALSE]
  /\ mixed' = \E q \in Req \ {r} : Enrolling(q)
  /\ req' = [req EXCEPT ![r] = Place("purge", 0, user.secret + 1)]
  /\ UNCHANGED <<code, sess, chal, link, crashes, shown,
                 closed, uses, verified, crossed>>

\* Mistake: only the codes that were used are deleted.
SetupPurge_Used(r) ==
  /\ At(r, "purge")
  /\ code' = [i \in Setup |-> IF code[i] = "used" THEN "none" ELSE code[i]]
  /\ Goto(r, "create")
  /\ UNCHANGED <<user, sess, chal, link, crashes, shown, history>>

\* ... all recovery codes are deleted ...
SetupPurge(r) ==
  /\ At(r, "purge")
  /\ code' = [i \in Setup |-> "none"]
  /\ Goto(r, "create")
  /\ UNCHANGED <<user, sess, chal, link, crashes, shown, history>>

\* ... and the new ones created; the answer shows secret and codes.
SetupCreate(r) ==
  /\ At(r, "create")
  /\ code' = [code EXCEPT ![req[r].set] = "unused"]
  /\ shown' = shown \union {req[r].set}
  /\ Done(r)
  /\ UNCHANGED <<user, sess, chal, link, crashes, history>>

\* The first code is checked against the secret in the row read here ...
VerifyTotp(r) ==
  /\ At(r, "idle") /\ user.secret \in shown
  /\ req' = [req EXCEPT ![r] = Place("enable", 0, user.secret)]
  /\ verified' = verified \union {user.secret}
  /\ UNCHANGED <<store, crashes, shown, closed, uses, crossed, mixed>>

\* ... and enableTotp() turns the second factor on, whatever its secret is now.
EnableTotp(r) ==
  /\ At(r, "enable")
  /\ user' = [user EXCEPT !.enabled = TRUE]
  /\ crossed' = crossed \union ({user.secret} \ {req[r].set})
  /\ Done(r)
  /\ UNCHANGED <<code, sess, chal, link, crashes, shown,
                 closed, uses, verified, mixed>>

-----------------------------------------------------------------------------
(* Password reset.                                                         *)

\* requestPasswordReset(): SET with a time to live, under a new random key.
ResetRequest(l) ==
  /\ user.pw < MaxPw
  /\ ~link[l] /\ \A q \in Req : req[q].link # l
  /\ link' = [link EXCEPT ![l] = TRUE]
  /\ UNCHANGED <<user, code, sess, chal, req, crashes, shown, history>>

\* resetPassword(): GET, DEL, ...
ResetGet(r, l) ==
  /\ At(r, "idle") /\ link[l]
  /\ req' = [req EXCEPT ![r] = [Place("unlink", 0, 0) EXCEPT !.link = l]]
  /\ UNCHANGED <<store, crashes, shown, history>>

ResetDel(r) ==
  /\ At(r, "unlink")
  /\ link' = [link EXCEPT ![req[r].link] = FALSE]
  /\ req' = [req EXCEPT ![r] = Place("write", 0, 0)]
  /\ UNCHANGED <<user, code, sess, chal, crashes, shown, history>>

\* Mistake: the handler ends with the new password and keeps the sessions.
ResetUpdate_KeepSessions(r) ==
  /\ At(r, "write")
  /\ user' = [user EXCEPT !.pw = @ + 1]
  /\ closed' = user'.pw
  /\ Done(r)
  /\ UNCHANGED <<code, sess, chal, link, crashes, shown,
                 uses, verified, crossed, mixed>>

\* ... the new password, ...
ResetUpdate(r) ==
  /\ At(r, "write")
  /\ user' = [user EXCEPT !.pw = @ + 1]
  /\ req' = [req EXCEPT ![r] = Place("close", user.pw + 1, 0)]
  /\ UNCHANGED <<code, sess, chal, link, crashes, shown, history>>

\* ... and every session of the account.
ResetSessions(r) ==
  /\ At(r, "close")
  /\ sess' = [t \in Tok |-> NoSession]
  /\ closed' = IF closed < req[r].pw THEN req[r].pw ELSE closed
  /\ Done(r)
  /\ UNCHANGED <<user, code, chal, link, crashes, shown,
                 uses, verified, crossed, mixed>>

-----------------------------------------------------------------------------
(* Time and restarts.                                                      *)

ChallengeExpires(c) ==
  /\ chal[c].pending
  /\ chal' = [chal EXCEPT ![c] = NoChallenge]
  /\ UNCHANGED <<user, code, sess, link, req, crashes, shown, history>>

LinkExpires(l) ==
  /\ link[l]
  /\ link' = [link EXCEPT ![l] = FALSE]
  /\ UNCHANGED <<user, code, sess, chal, req, crashes, shown, history>>

SessionExpires(t) ==
  /\ sess[t].st = "live"
  /\ sess' = [sess EXCEPT ![t].st = "over"]
  /\ UNCHANGED <<user, code, chal, link, req, crashes, shown, history>>

\* The process dies; the database and Redis keep what was written.
Crash ==
  /\ crashes < MaxCrashes
  /\ crashes' = crashes + 1
  /\ mixed' = (mixed \/ \E r \in Req : Enrolling(r))
  /\ req' = [r \in Req |-> Idle]
  /\ UNCHANGED <<store, shown, closed, uses, verified, crossed>>

Handle(r) ==
  \/ Login(r) \/ \E c \in Chal : StartMfaChallenge(r, c)
  \/ \E t \in Tok : CreateSession(r, t)
  \/ \E c \in Chal : MfaGet(r, c)
  \/ MfaDel(r) \/ MfaCheck(r) \/ RecoveryFind(r) \/ RecoveryUse(r)
  \/ SetupTotp(r) \/ SetupPurge(r) \/ SetupCreate(r)
  \/ VerifyTotp(r) \/ EnableTotp(r)
  \/ \E l \in Link : ResetGet(r, l)
  \/ ResetDel(r) \/ ResetUpdate(r) \/ ResetSessions(r)

Next ==
  \/ \E r \in Req : Handle(r)
  \/ \E t \in Tok : Revoke(t) \/ SessionExpires(t)
  \/ ForceLogout
  \/ \E c \in Chal : ChallengeExpires(c)
  \/ \E l \in Link : ResetRequest(l) \/ LinkExpires(l)
  \/ Crash

Spec == Init /\ [][Next]_vars

-----------------------------------------------------------------------------
(* Properties.                                                             *)

TypeOK ==
  /\ user \in User
  /\ code \in [Setup -> {"none", "unused", "used"}]
  /\ sess \in [Tok -> Session]
  /\ chal \in [Chal -> Challenge]
  /\ link \in [Link -> BOOLEAN]
  /\ req \in [Req -> Local]
  /\ crashes \in Nat
  /\ shown \subseteq Setup /\ verified \subseteq Setup /\ crossed \subseteq Setup
  /\ closed \in Nat /\ closed <= user.pw
  /\ uses \in [Setup -> Nat]
  /\ mixed \in BOOLEAN

\* "Complete a password reset; invalidates all existing sessions": once a
\* reset was acknowledged, a session of an older password can only be one
\* that a login already past its password check created afterwards.
OldPasswordOut ==
  \A t \in Tok : sess[t].st # "none" /\ sess[t].pw < closed => sess[t].late

\* "Consume a backup recovery code (single use)": the look-up and the mark are
\* apart, so a code passes at most once per request in flight when it was first
\* marked; restarts and further enrolments add nothing to that.
CodeUses == \A i \in Setup : uses[i] <= Cardinality(Req)

\* "The secret is not marked enabled until the user verifies a code", unless a
\* new enrolment replaced the secret between the check and the mark.
EnabledIsVerified == user.enabled => user.secret \in verified \union crossed

\* The recovery codes of the account are those of its secret, unless two
\* enrolments overlapped or a restart cut one off; the next enrolment that runs
\* alone repairs that.
CodesMatch ==
  ~mixed /\ (\A r \in Req : ~Enrolling(r)) =>
    {i \in Setup : code[i] # "none"} = {user.secret} \ {0}

=============================================================================
