---------------------------- MODULE WebmailLogin ----------------------------
(***************************************************************************)
(* Signing in to the webmail of one mailbox with a second factor, and      *)
(* changing the factors meanwhile.  The challenge between the two steps    *)
(* is a Redis key that is read, checked and deleted by separate commands,  *)
(* and written back whole when an email code is asked for; the recovery    *)
(* codes are a list that is read, filtered and written back.               *)
(*                                                                         *)
(* A login begins here once the password was found right.  Secrets are     *)
(* numbered, and a recovery code is a pair of its secret and a number.     *)
(* Passkeys and email codes are right or wrong; these factors are switched *)
(* on and off at any time, so a login may find them or not.  The limits    *)
(* per address, the lock of the password step (as in LoginLockout) and the *)
(* session itself (WebmailSession) are left out.                           *)
(***************************************************************************)
EXTENDS Integers, FiniteSets

CONSTANTS Handler,    \* requests in flight
          Challenge,  \* tokens of challenges
          MaxWrong,   \* wrong answers a challenge takes
          MaxSecrets, \* bound on enrolments
          MaxResends  \* bound on the email codes asked for

ASSUME WebmailLoginAssumption ==
  /\ MaxWrong \in Nat \ {0} /\ MaxSecrets \in Nat /\ MaxResends \in Nat
  /\ IsFiniteSet(Handler)

VARIABLES last,      \* enrolments so far
          secret,    \* the authenticator's secret, 0 for none
          totpOn,    \* totpEnabled
          codes,     \* the recovery codes
          chal,      \* the challenges in Redis
          known,     \* tokens given out
          wrong,     \* wrong answers counted for a challenge
          handler,   \* local variables of the requests
          uses,      \* history: logins a recovery code was good for
          overlap,   \* history: codes whose list was read by two requests, or
                     \* by one while a new list was made
          logins,    \* history: sessions a challenge was good for
          reopened,  \* history: challenges read twice, or written back late
          answers,   \* history: wrong answers given to a challenge
          resends,   \* history: email codes asked for
          extended,  \* history: challenges that may outlive their counter
          checked,   \* history: secrets a code of which was seen
          swapped    \* history: the secret changed between check and enabling

factors == <<last, secret, totpOn, codes>>
challenges == <<chal, known, wrong>>
codeFate == <<uses, overlap>>
chalFate == <<logins, reopened, answers, resends, extended>>
loginHistory == <<codeFate, chalFate, checked, swapped>>
loginVars == <<factors, challenges, handler, loginHistory>>

Code == (1 .. MaxSecrets) \X {1, 2}
NewCodes(s) == {s} \X {1, 2}
Issued(s) == (1 .. s) \X {1, 2}

\* A challenge in Redis: an email code may be asked for, or not.
Payload == {"void", "email", "other"}

\* A request: how far it is, its challenge and what it read of it, and the
\* recovery code it was given with the list it read.
Request == [at : {"free", "resend", "answer", "code", "wrong", "passed", "session", "enable"},
            token : Challenge \union {"none"}, read : Payload,
            code : Code \union {<<0, 0>>}, list : SUBSET Code]
Free == [at |-> "free", token |-> "none", read |-> "void", code |-> <<0, 0>>, list |-> {}]

LoginInit ==
  /\ last = 0 /\ secret = 0 /\ totpOn = FALSE /\ codes = {}
  /\ chal = [t \in Challenge |-> "void"] /\ known = {}
  /\ wrong = [t \in Challenge |-> 0]
  /\ handler = [h \in Handler |-> Free]
  /\ uses = [c \in Code |-> 0] /\ overlap = {}
  /\ logins = [t \in Challenge |-> 0] /\ reopened = {}
  /\ answers = [t \in Challenge |-> 0] /\ resends = [t \in Challenge |-> 0]
  /\ extended = {} /\ checked = {} /\ swapped = FALSE

Is(h, at) == handler[h].at = at
Now(h, at) == handler' = [handler EXCEPT ![h].at = at]
Finish(h) == handler' = [handler EXCEPT ![h] = Free]
Open(t) == chal[t] # "void"

\* Others that hold what they read of the challenge, or of the codes.
Holds(h, t) ==
  handler[h].token = t /\ handler[h].at \in {"resend", "answer", "code", "passed"}
Reads(h) == Is(h, "code")

-----------------------------------------------------------------------------
(* POST /auth/login, after the password.                                   *)

\* Some factor was found: a challenge is stored.  (Without one, or when the
\* look-ups fail, the session is created at once.)
Login(t) ==
  /\ t \notin known
  /\ \E m \in {"email", "other"} : chal' = [chal EXCEPT ![t] = m]
  /\ known' = known \union {t}
  /\ UNCHANGED <<factors, wrong, handler, loginHistory>>

-----------------------------------------------------------------------------
(* POST /auth/mfa/send-email-code: GET, and SET with a new code and life.  *)

Take(h, t, at) ==
  /\ Is(h, "free") /\ Open(t)
  /\ handler' = [handler EXCEPT ![h] = [at |-> at, token |-> t, read |-> chal[t],
                                        code |-> <<0, 0>>, list |-> {}]]
  /\ reopened' = IF \E g \in Handler \ {h} : Holds(g, t)
                 THEN reopened \union {t} ELSE reopened

ResendGet(h, t) ==
  /\ chal[t] = "email" /\ resends[t] < MaxResends
  /\ Take(h, t, "resend")
  /\ resends' = [resends EXCEPT ![t] = @ + 1]
  /\ UNCHANGED <<factors, challenges, codeFate, logins, answers, extended, checked, swapped>>

ResendSet(h) ==
  LET t == handler[h].token IN
  /\ Is(h, "resend")
  /\ chal' = [chal EXCEPT ![t] = handler[h].read]
  /\ extended' = extended \union {t}
  /\ Finish(h)
  /\ UNCHANGED <<factors, known, wrong, codeFate, logins, reopened, answers, resends,
                 checked, swapped>>

-----------------------------------------------------------------------------
(* POST /auth/mfa.                                                         *)

AnswerGet(h, t) ==
  /\ Take(h, t, "answer")
  /\ UNCHANGED <<factors, challenges, codeFate, logins, answers, resends, extended,
                 checked, swapped>>

\* A passkey, the emailed code, or one of the authenticator
\* (whether or not that is enabled).
AnswerRight(h) ==
  /\ Is(h, "answer")
  /\ Now(h, "passed")
  /\ UNCHANGED <<factors, challenges, loginHistory>>

\* Mistake: the code is not looked up in the list.
CodeRead_Any(h, c) ==
  /\ Is(h, "answer") /\ secret # 0 /\ c[1] = secret
  /\ handler' = [handler EXCEPT ![h] = [at |-> "code", token |-> handler[h].token,
                                        read |-> handler[h].read, code |-> c, list |-> codes]]
  /\ overlap' = IF \E g \in Handler \ {h} : Reads(g) THEN Issued(last) ELSE overlap
  /\ UNCHANGED <<factors, challenges, uses, chalFate, checked, swapped>>

\* verifyLoginCode(), a recovery code: the row is read ...
CodeRead(h, c) ==
  /\ Is(h, "answer") /\ secret # 0 /\ c \in codes
  /\ handler' = [handler EXCEPT ![h] = [at |-> "code", token |-> handler[h].token,
                                        read |-> handler[h].read, code |-> c, list |-> codes]]
  /\ overlap' = IF \E g \in Handler \ {h} : Reads(g) THEN Issued(last) ELSE overlap
  /\ UNCHANGED <<factors, challenges, uses, chalFate, checked, swapped>>

\* ... and the list is written without the code.
CodeWrite(h) ==
  /\ Is(h, "code")
  /\ codes' = handler[h].list \ {handler[h].code}
  /\ uses' = [uses EXCEPT ![handler[h].code] = @ + 1]
  /\ Now(h, "passed")
  /\ UNCHANGED <<last, secret, totpOn, challenges, overlap,
                 chalFate, checked, swapped>>

\* A wrong answer: INCR, with a time to live of 300 s from the first one ...
AnswerWrong(h) ==
  LET t == handler[h].token IN
  /\ Is(h, "answer")
  /\ wrong' = [wrong EXCEPT ![t] = @ + 1]
  /\ answers' = [answers EXCEPT ![t] = @ + 1]
  /\ Now(h, "wrong")
  /\ UNCHANGED <<factors, chal, known, codeFate, logins, reopened, resends, extended,
                 checked, swapped>>

\* Mistake: only the answer that reaches the limit ends the challenge.
EndsChallenge_Exactly(t) == wrong[t] = MaxWrong - 1

\* The number of wrong answers at which the challenge is deleted.
EndsChallenge(t) == wrong[t] >= MaxWrong

\* ... GET of the counter, and DEL of the challenge at the limit.
WrongCounted(h) ==
  LET t == handler[h].token IN
  /\ Is(h, "wrong")
  /\ chal' = IF EndsChallenge(t) THEN [chal EXCEPT ![t] = "void"] ELSE chal
  /\ Finish(h)
  /\ UNCHANGED <<factors, known, wrong, loginHistory>>

\* Mistake: the challenge stays until it expires.
AnswerDel_Keeps(h) ==
  /\ Is(h, "passed")
  /\ Now(h, "session")
  /\ UNCHANGED <<factors, challenges, loginHistory>>

AnswerDel(h) ==
  /\ Is(h, "passed")
  /\ chal' = [chal EXCEPT ![handler[h].token] = "void"]
  /\ Now(h, "session")
  /\ UNCHANGED <<factors, known, wrong, loginHistory>>

\* issueSession()
SessionIssued(h) ==
  /\ Is(h, "session")
  /\ logins' = [logins EXCEPT ![handler[h].token] = @ + 1]
  /\ Finish(h)
  /\ UNCHANGED <<factors, challenges, codeFate, reopened, answers, resends, extended,
                 checked, swapped>>

ChallengeExpires(t) ==
  /\ Open(t)
  /\ chal' = [chal EXCEPT ![t] = "void"]
  /\ UNCHANGED <<factors, known, wrong, handler, loginHistory>>

\* The counter lives 300 s from its first answer, and the challenge 300 s
\* from when it was last written: unless that was extended, it goes first.
CounterExpires(t) ==
  /\ wrong[t] > 0 /\ t \in extended
  /\ wrong' = [wrong EXCEPT ![t] = 0]
  /\ extended' = extended \ {t}
  /\ UNCHANGED <<factors, chal, known, handler, codeFate, logins, reopened, answers,
                 resends, checked, swapped>>

-----------------------------------------------------------------------------
(* Changing the factors, in a session.                                     *)

NewSecret(s) ==
  /\ secret' = s /\ totpOn' = FALSE
  /\ swapped' = (swapped \/ \E h \in Handler : Is(h, "enable"))
  /\ UNCHANGED <<challenges, handler, uses, chalFate, checked>>

\* setupTotp(): a new secret with new codes, not enabled yet.
SetupTotp ==
  /\ last < MaxSecrets /\ last' = last + 1
  /\ NewSecret(last') /\ codes' = NewCodes(last')
  /\ overlap' = IF \E h \in Handler : Reads(h) THEN Issued(last') ELSE overlap

\* disableTotp(): "recoveryCodes: undefined" leaves them.
DisableTotp ==
  /\ secret # 0 /\ NewSecret(0)
  /\ UNCHANGED <<last, codes, overlap>>

\* verifyAndEnable(): a code of the secret that was read ...
EnableCheck(h) ==
  /\ Is(h, "free") /\ secret # 0
  /\ handler' = [handler EXCEPT ![h].at = "enable"]
  /\ checked' = checked \union {secret}
  /\ UNCHANGED <<factors, challenges, codeFate, chalFate, swapped>>

\* ... enables whatever secret there is now.
EnableSet(h) ==
  /\ Is(h, "enable")
  /\ totpOn' = TRUE
  /\ Finish(h)
  /\ UNCHANGED <<last, secret, codes, challenges, loginHistory>>

LoginNext ==
  \/ \E h \in Handler :
       \/ \E t \in Challenge : ResendGet(h, t) \/ AnswerGet(h, t)
       \/ \E c \in Code : CodeRead(h, c)
       \/ ResendSet(h) \/ AnswerRight(h) \/ CodeWrite(h) \/ AnswerWrong(h)
       \/ WrongCounted(h) \/ AnswerDel(h) \/ SessionIssued(h)
       \/ EnableCheck(h) \/ EnableSet(h)
  \/ \E t \in Challenge : Login(t) \/ ChallengeExpires(t) \/ CounterExpires(t)
  \/ SetupTotp \/ DisableTotp

LoginSpec == LoginInit /\ [][LoginNext]_loginVars

-----------------------------------------------------------------------------
(* Properties.                                                             *)

LoginType ==
  /\ last \in 0 .. MaxSecrets /\ secret \in 0 .. last /\ checked \subseteq 1 .. last
  /\ codes \subseteq Code /\ overlap \subseteq Code /\ uses \in [Code -> Nat]
  /\ {totpOn, swapped} \subseteq BOOLEAN
  /\ chal \in [Challenge -> Payload] /\ handler \in [Handler -> Request]
  /\ known \subseteq Challenge /\ reopened \subseteq Challenge /\ extended \subseteq Challenge
  /\ \A count \in {wrong, logins, answers, resends} : count \in [Challenge -> Nat]

\* "Recovery code path (single use)": a code is good for one login, and the
\* list holds codes of the authenticator's secret only, unless one request
\* read the list while another was about to write it, or while a new
\* enrolment replaced it.
RecoveryOnce ==
  /\ \A c \in Code \ overlap : uses[c] <= 1
  /\ secret # 0 => codes \subseteq NewCodes(secret) \union overlap

\* A challenge is good for one session, unless one request took it while
\* another held it: two answers at once, or an answer beside a new email code,
\* which writes the challenge back after the answer deleted it.
ChallengeOnce == \A t \in Challenge \ reopened : logins[t] <= 1

\* A challenge takes MaxWrong wrong answers, up to those in flight.  An email
\* code starts this over, and once more when it brought back a deleted
\* challenge that then outlives its counter; nothing else does.
WrongBound ==
  \A t \in Challenge :
    answers[t] <= (MaxWrong - 1 + Cardinality(Handler)) * (1 + 2 * resends[t])

\* The authenticator is asked for at login only with a secret the user has
\* proved to have, unless the secret was replaced or dropped while the proof
\* was checked: otherwise nobody could answer.
AskedIsProved == totpOn => secret \in checked \/ swapped

=============================================================================
