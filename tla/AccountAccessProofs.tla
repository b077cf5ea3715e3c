------------------------ MODULE AccountAccessProofs -------------------------
(***************************************************************************)
(* Proofs about AccountAccess, for any number of requests, sessions,       *)
(* challenges, links, enrolments, resets and restarts.                     *)
(***************************************************************************)
EXTENDS AccountAccess, FiniteSetTheorems, TLAPS

\* What a request holds by the time it waits at a given place.
Held ==
  \A r \in Req :
    /\ req[r].pc \in {"find", "use"} => req[r].set \in shown
    /\ Enrolling(r) => req[r].set \in Setup \ shown /\ req[r].set <= user.secret
    /\ req[r].pc = "enable" => req[r].set \in verified
    /\ req[r].pc = "close" => req[r].pw <= user.pw

\* No enrolment is newer than the secret in the row, and only secrets that
\* reached the user are verified.
Seen == verified \subseteq shown /\ \A i \in shown : i <= user.secret

\* Every enrolment has a secret of its own.
Apart ==
  \A q, r \in Req : Enrolling(q) /\ Enrolling(r) /\ req[q].set = req[r].set => q = r

Base == TypeOK /\ Held /\ Seen /\ Apart

LEMMA IdleType == Idle \in Local /\ Idle.pc = "idle" /\ Idle.set = 0
BY BoundAssumption DEF Idle, Place, Local, Pc

LEMMA NoneTypes == NoSession \in Session /\ NoChallenge \in Challenge
BY DEF NoSession, NoChallenge, Session, Challenge

\* One request moves to a well-formed place; the others stay.
LEMMA Move ==
  ASSUME req \in [Req -> Local], NEW r \in Req, NEW l \in Local,
         req' = [req EXCEPT ![r] = l]
  PROVE  /\ req' \in [Req -> Local] /\ req'[r] = l
         /\ \A q \in Req \ {r} : req'[q] = req[q]
OBVIOUS

\* A move that changes the place alone.
LEMMA GotoMove ==
  ASSUME req \in [Req -> Local], NEW r \in Req, NEW pc \in Pc, Goto(r, pc)
  PROVE  /\ req' \in [Req -> Local]
         /\ req'[r] = [req[r] EXCEPT !.pc = pc]
         /\ req'[r].pc = pc /\ req'[r].pw = req[r].pw /\ req'[r].set = req[r].set
         /\ \A q \in Req \ {r} : req'[q] = req[q]
BY DEF Goto, Local

LEMMA DoneMove ==
  ASSUME req \in [Req -> Local], NEW r \in Req, Done(r)
  PROVE  /\ req' \in [Req -> Local] /\ req'[r].pc = "idle"
         /\ \A q \in Req \ {r} : req'[q] = req[q]
BY IdleType DEF Done

THEOREM BaseInit == Init => Base
<1> SUFFICES ASSUME Init PROVE Base
  OBVIOUS
<1>1. TypeOK
  <2>1. user \in User /\ closed \in Nat /\ closed <= user.pw /\ crashes \in Nat
    BY BoundAssumption DEF Init, User
  <2>2. /\ code \in [Setup -> {"none", "unused", "used"}]
        /\ uses \in [Setup -> Nat] /\ link \in [Link -> BOOLEAN]
    BY DEF Init
  <2>3. sess \in [Tok -> Session] /\ chal \in [Chal -> Challenge] /\ req \in [Req -> Local]
    BY IdleType, NoneTypes DEF Init
  <2>4. /\ shown \subseteq Setup /\ verified \subseteq Setup /\ crossed \subseteq Setup
        /\ mixed \in BOOLEAN
    BY DEF Init
  <2> QED
    BY <2>1, <2>2, <2>3, <2>4 DEF TypeOK
<1>2. Held /\ Seen /\ Apart
  BY IdleType DEF Init, Held, Seen, Apart, Enrolling
<1> QED
  BY <1>1, <1>2 DEF Base

\* The requests' part of Base when one request changes and the row, the
\* enrolments and the verified secrets do not shrink.
LEMMA BaseMove ==
  ASSUME Base, TypeOK', NEW r \in Req,
         \A q \in Req \ {r} : req'[q] = req[q],
         ~(req'[r].pc \in {"purge", "create"}),
         user'.secret = user.secret, user'.pw >= user.pw,
         shown' = shown, verified \subseteq verified', verified' \subseteq verified \union shown,
         req'[r].pc \in {"find", "use"} => req'[r].set \in shown,
         req'[r].pc = "enable" => req'[r].set \in verified',
         req'[r].pc = "close" => req'[r].pw <= user'.pw
  PROVE  Base'
<1>1. Held'
  <2> SUFFICES ASSUME NEW q \in Req
      PROVE /\ req'[q].pc \in {"find", "use"} => req'[q].set \in shown'
            /\ Enrolling(q)' => req'[q].set \in Setup \ shown' /\ req'[q].set <= user'.secret
            /\ req'[q].pc = "enable" => req'[q].set \in verified'
            /\ req'[q].pc = "close" => req'[q].pw <= user'.pw
    BY DEF Held, Setup
  <2>1. CASE q = r
    BY <2>1 DEF Enrolling
  <2>2. CASE q # r
    <3>1. req'[q] = req[q] /\ req[q].pw \in Nat /\ user.pw \in Nat /\ user'.pw \in Nat
      BY <2>2 DEF Base, TypeOK, Local, User
    <3> QED
      BY <2>2, <3>1 DEF Base, Held, Enrolling
  <2> QED
    BY <2>1, <2>2
<1>2. Seen' /\ Apart'
  BY DEF Base, Seen, Apart, Enrolling
<1> QED
  BY <1>1, <1>2 DEF Base

\* The same when no request moves.
LEMMA BaseStay ==
  ASSUME Base, TypeOK', req' = req, user' = user, shown' = shown, verified' = verified
  PROVE  Base'
BY DEF Base, Held, Seen, Apart, Enrolling, Setup

LEMMA LoginBase == ASSUME Base, NEW r \in Req, Login(r) PROVE Base'
<1> DEFINE l == Place(IF user.enabled THEN "challenge" ELSE "issue", user.pw, 0)
<1>1. l \in Local /\ l.pc \in {"challenge", "issue"}
  BY BoundAssumption DEF Place, Base, TypeOK, User, Local, Pc
<1>2. req' = [req EXCEPT ![r] = l] /\ UNCHANGED <<store, crashes, shown, history>>
  BY DEF Login
<1> HIDE DEF l
<1>3. /\ req' \in [Req -> Local] /\ req'[r] = l
      /\ \A q \in Req \ {r} : req'[q] = req[q]
  BY <1>1, <1>2, Move DEF Base, TypeOK
<1>4. TypeOK'
  BY <1>2, <1>3 DEF Base, TypeOK, store, history, Setup
<1>5. user'.pw >= user.pw
  BY <1>2 DEF Base, TypeOK, User, store
<1> QED
  BY <1>1, <1>2, <1>3, <1>4, <1>5, BaseMove DEF store, history

LEMMA ChallengeBase ==
  ASSUME Base, NEW r \in Req, NEW c \in Chal, StartMfaChallenge(r, c) PROVE Base'
<1>1. /\ req' \in [Req -> Local] /\ req'[r].pc = "idle"
      /\ \A q \in Req \ {r} : req'[q] = req[q]
  BY DoneMove DEF StartMfaChallenge, Base, TypeOK
<1>2. chal' \in [Chal -> Challenge]
  BY DEF StartMfaChallenge, Base, TypeOK, Local, Challenge
<1>3. TypeOK'
  BY <1>1, <1>2 DEF StartMfaChallenge, Base, TypeOK, history, Setup
<1>4. user'.pw >= user.pw
  BY DEF StartMfaChallenge, Base, TypeOK, User
<1> QED
  BY <1>1, <1>3, <1>4, BaseMove DEF StartMfaChallenge, history

LEMMA CreateBase ==
  ASSUME Base, NEW r \in Req, NEW t \in Tok, CreateSession(r, t) PROVE Base'
<1>1. /\ req' \in [Req -> Local] /\ req'[r].pc = "idle"
      /\ \A q \in Req \ {r} : req'[q] = req[q]
  BY DoneMove DEF CreateSession, Base, TypeOK
<1>2. sess' \in [Tok -> Session]
  BY DEF CreateSession, Base, TypeOK, Local, Session
<1>3. TypeOK'
  BY <1>1, <1>2 DEF CreateSession, Base, TypeOK, history, Setup
<1>4. user'.pw >= user.pw
  BY DEF CreateSession, Base, TypeOK, User
<1> QED
  BY <1>1, <1>3, <1>4, BaseMove DEF CreateSession, history

LEMMA MfaGetBase ==
  ASSUME Base, NEW r \in Req, NEW c \in Chal, MfaGet(r, c) PROVE Base'
<1> DEFINE l == [Place("take", chal[c].pw, 0) EXCEPT !.chal = c]
<1>1. l \in Local /\ l.pc = "take"
  BY BoundAssumption DEF Place, Base, TypeOK, Challenge, Local, Pc
<1>2. req' = [req EXCEPT ![r] = l] /\ UNCHANGED <<store, crashes, shown, history>>
  BY DEF MfaGet
<1> HIDE DEF l
<1>3. /\ req' \in [Req -> Local] /\ req'[r] = l
      /\ \A q \in Req \ {r} : req'[q] = req[q]
  BY <1>1, <1>2, Move DEF Base, TypeOK
<1>4. TypeOK' /\ user'.pw >= user.pw
  BY <1>2, <1>3 DEF Base, TypeOK, User, store, history, Setup
<1> QED
  BY <1>1, <1>2, <1>3, <1>4, BaseMove DEF store, history

LEMMA MfaDelBase == ASSUME Base, NEW r \in Req, MfaDel(r) PROVE Base'
<1> DEFINE l == Place("check", req[r].pw, 0)
<1>1. l \in Local /\ l.pc = "check"
  BY BoundAssumption DEF Place, Base, TypeOK, Local, Pc
<1>2. req' = [req EXCEPT ![r] = l]
  BY DEF MfaDel
<1> HIDE DEF l
<1>3. /\ req' \in [Req -> Local] /\ req'[r] = l
      /\ \A q \in Req \ {r} : req'[q] = req[q]
  BY <1>1, <1>2, Move DEF Base, TypeOK
<1>4. chal' \in [Chal -> Challenge]
  BY NoneTypes DEF MfaDel, Base, TypeOK
<1>5. TypeOK' /\ user'.pw >= user.pw
  BY <1>3, <1>4 DEF MfaDel, Base, TypeOK, User, history, Setup
<1> QED
  BY <1>1, <1>3, <1>5, BaseMove DEF MfaDel, history

LEMMA MfaCheckBase == ASSUME Base, NEW r \in Req, MfaCheck(r) PROVE Base'
<1>1. UNCHANGED <<store, crashes, shown, history>>
  BY DEF MfaCheck
<1>2. user'.pw >= user.pw
  BY <1>1 DEF Base, TypeOK, User, store
<1>3. /\ req' \in [Req -> Local] /\ \A q \in Req \ {r} : req'[q] = req[q]
      /\ req'[r].pc \in {"issue", "find", "idle"}
      /\ req'[r].pc = "find" => req'[r].set \in shown
  <2>1. CASE Goto(r, "issue")
    BY <2>1, GotoMove DEF Base, TypeOK, Pc
  <2>2. CASE Done(r)
    BY <2>2, DoneMove DEF Base, TypeOK
  <2>3. CASE \E i \in shown :
               req' = [req EXCEPT ![r] = Place("find", req[r].pw, i)]
    <3>1. PICK i \in shown :
               req' = [req EXCEPT ![r] = Place("find", req[r].pw, i)]
      BY <2>3
    <3> DEFINE l == Place("find", req[r].pw, i)
    <3>2. i \in 0..MaxSetups
      BY BoundAssumption DEF Base, TypeOK, Setup
    <3>3. l \in Local /\ l.pc = "find" /\ l.set = i
      BY <3>2 DEF Place, Base, TypeOK, Local, Pc
    <3>4. req' = [req EXCEPT ![r] = l]
      BY <3>1
    <3> HIDE DEF l
    <3> QED
      BY <3>3, <3>4, Move DEF Base, TypeOK
  <2>4. \/ Goto(r, "issue") \/ Done(r)
        \/ \E i \in shown :
               req' = [req EXCEPT ![r] = Place("find", req[r].pw, i)]
    BY DEF MfaCheck
  <2> QED
    BY <2>1, <2>2, <2>3, <2>4
<1>4. TypeOK'
  BY <1>1, <1>3 DEF Base, TypeOK, store, history, Setup
<1> QED
  BY <1>1, <1>2, <1>3, <1>4, BaseMove DEF store, history

LEMMA FindBase == ASSUME Base, NEW r \in Req, RecoveryFind(r) PROVE Base'
<1>1. UNCHANGED <<store, crashes, shown, history>> /\ req[r].pc = "find"
  BY DEF RecoveryFind, At
<1>2. user'.pw >= user.pw
  BY <1>1 DEF Base, TypeOK, User, store
<1>3. /\ req' \in [Req -> Local] /\ \A q \in Req \ {r} : req'[q] = req[q]
      /\ req'[r].pc \in {"use", "idle"}
      /\ req'[r].pc = "use" => req'[r].set = req[r].set
  BY GotoMove, DoneMove DEF RecoveryFind, Base, TypeOK, Pc
<1>4. TypeOK'
  BY <1>1, <1>3 DEF Base, TypeOK, store, history, Setup
<1> QED
  BY <1>1, <1>2, <1>3, <1>4, BaseMove DEF store, history, Base, Held

LEMMA UseBase == ASSUME Base, NEW r \in Req, RecoveryUse(r) PROVE Base'
<1>1. UNCHANGED <<user, sess, chal, link, crashes, shown, closed, verified, crossed, mixed>>
  BY DEF RecoveryUse
<1>2. user'.pw >= user.pw
  BY <1>1 DEF Base, TypeOK, User
<1>3. /\ req' \in [Req -> Local] /\ \A q \in Req \ {r} : req'[q] = req[q]
      /\ req'[r].pc \in {"issue", "idle"}
  BY GotoMove, DoneMove DEF RecoveryUse, Base, TypeOK, Pc
<1>4. code' \in [Setup -> {"none", "unused", "used"}] /\ uses' \in [Setup -> Nat]
  BY DEF RecoveryUse, Base, TypeOK
<1>5. TypeOK'
  BY <1>1, <1>3, <1>4 DEF Base, TypeOK, Setup
<1> QED
  BY <1>1, <1>2, <1>3, <1>5, BaseMove

LEMMA SetupBase == ASSUME Base, NEW r \in Req, SetupTotp(r) PROVE Base'
<1> DEFINE l == Place("purge", 0, user.secret + 1)
<1>1. user.secret + 1 \in Setup /\ user.secret + 1 \in 0..MaxSetups
  BY BoundAssumption DEF SetupTotp, Base, TypeOK, User, Setup
<1>2. l \in Local /\ l.pc = "purge" /\ l.set = user.secret + 1
  BY <1>1 DEF Place, Local, Pc
<1>3. req' = [req EXCEPT ![r] = l]
  BY DEF SetupTotp
<1> HIDE DEF l
<1>4. /\ req' \in [Req -> Local] /\ req'[r] = l
      /\ \A q \in Req \ {r} : req'[q] = req[q]
  BY <1>2, <1>3, Move DEF Base, TypeOK
<1>5. /\ user' \in User /\ user'.secret = user.secret + 1 /\ user'.pw = user.pw
      /\ user.secret \in Nat
  BY <1>1 DEF SetupTotp, Base, TypeOK, User
<1>6. UNCHANGED <<code, sess, chal, link, crashes, shown, closed, uses, verified, crossed>>
      /\ mixed' \in BOOLEAN
  BY DEF SetupTotp
<1>7. TypeOK'
  BY <1>4, <1>5, <1>6 DEF Base, TypeOK, Setup
<1>8. \A i \in shown : i \in Nat /\ i <= user.secret
  BY DEF Base, TypeOK, Setup, Seen
<1>9. \A q \in Req : Enrolling(q) => req[q].set \in Nat /\ req[q].set <= user.secret
  BY DEF Base, TypeOK, Local, Held, Setup
<1>10. Held'
  <2> SUFFICES ASSUME NEW q \in Req
      PROVE /\ req'[q].pc \in {"find", "use"} => req'[q].set \in shown'
            /\ Enrolling(q)' => req'[q].set \in Setup \ shown' /\ req'[q].set <= user'.secret
            /\ req'[q].pc = "enable" => req'[q].set \in verified'
            /\ req'[q].pc = "close" => req'[q].pw <= user'.pw
    BY DEF Held, Setup
  <2>1. CASE q = r
    BY <2>1, <1>1, <1>2, <1>4, <1>5, <1>6, <1>8 DEF Enrolling
  <2>2. CASE q # r
    <3>1. req'[q] = req[q] /\ (Enrolling(q)' <=> Enrolling(q))
      BY <2>2, <1>4 DEF Enrolling
    <3>2. Enrolling(q) => req[q].set \in Setup \ shown /\ req[q].set <= user.secret + 1
      BY <1>5, <1>9 DEF Base, Held
    <3> QED
      BY <3>1, <3>2, <1>5, <1>6 DEF Base, Held
  <2> QED
    BY <2>1, <2>2
<1>11. Seen'
  <2>1. verified' \subseteq shown'
    BY <1>6 DEF Base, Seen
  <2>2. \A i \in shown' : i <= user'.secret
    BY <1>5, <1>6, <1>8
  <2> QED
    BY <2>1, <2>2 DEF Seen
<1>12. Apart'
  <2> SUFFICES ASSUME NEW q \in Req, NEW p \in Req, Enrolling(q)', Enrolling(p)',
                      req'[q].set = req'[p].set, q # p
      PROVE FALSE
    BY DEF Apart
  <2>1. q = r \/ p = r
    BY <1>4 DEF Base, Apart, Enrolling
  <2>2. \A z \in Req \ {r} : Enrolling(z)' => req'[z].set # user.secret + 1
    BY <1>4, <1>5, <1>9 DEF Enrolling
  <2> QED
    BY <2>1, <2>2, <1>2, <1>4
<1> QED
  BY <1>7, <1>10, <1>11, <1>12 DEF Base

LEMMA PurgeBase == ASSUME Base, NEW r \in Req, SetupPurge(r) PROVE Base'
<1>1. UNCHANGED <<user, sess, chal, link, crashes, shown, history>> /\ req[r].pc = "purge"
  BY DEF SetupPurge, At
<1>2. /\ req' \in [Req -> Local] /\ req'[r].pc = "create" /\ req'[r].set = req[r].set
      /\ \A q \in Req \ {r} : req'[q] = req[q]
  BY GotoMove DEF SetupPurge, Base, TypeOK, Pc
<1>3. code' \in [Setup -> {"none", "unused", "used"}]
  BY DEF SetupPurge
<1>4. TypeOK'
  BY <1>1, <1>2, <1>3 DEF Base, TypeOK, Setup, history
<1>5. \A q \in Req : req'[q].set = req[q].set /\ (Enrolling(q)' <=> Enrolling(q))
                     /\ (req'[q] = req[q] \/ req'[q].pc = "create")
  BY <1>1, <1>2 DEF Enrolling
<1>6. Held'
  BY <1>1, <1>5 DEF Base, Held, history, Setup
<1>7. Seen' /\ Apart'
  BY <1>1, <1>5 DEF Base, Seen, Apart, history
<1> QED
  BY <1>4, <1>6, <1>7 DEF Base

LEMMA CreateCodesBase == ASSUME Base, NEW r \in Req, SetupCreate(r) PROVE Base'
<1>1. /\ UNCHANGED <<user, sess, chal, link, crashes, history>> /\ req[r].pc = "create"
      /\ shown' = shown \union {req[r].set}
  BY DEF SetupCreate, At
<1>2. /\ req' \in [Req -> Local] /\ req'[r].pc = "idle"
      /\ \A q \in Req \ {r} : req'[q] = req[q]
  BY DoneMove DEF SetupCreate, Base, TypeOK
<1>3. Enrolling(r) /\ req[r].set \in Setup \ shown /\ req[r].set <= user.secret
  BY <1>1 DEF Base, Held, Enrolling
<1>4. code' \in [Setup -> {"none", "unused", "used"}]
  BY <1>3 DEF SetupCreate, Base, TypeOK
<1>5. TypeOK'
  BY <1>1, <1>2, <1>3, <1>4 DEF Base, TypeOK, Setup, history
<1>6. \A q \in Req : req'[q] = req[q] \/ (q = r /\ req'[q].pc = "idle")
  BY <1>2
<1>7. \A q \in Req \ {r} : Enrolling(q) => req[q].set # req[r].set
  BY <1>3 DEF Base, Apart
<1>8. Held'
  <2> SUFFICES ASSUME NEW q \in Req
      PROVE /\ req'[q].pc \in {"find", "use"} => req'[q].set \in shown'
            /\ Enrolling(q)' => req'[q].set \in Setup \ shown' /\ req'[q].set <= user'.secret
            /\ req'[q].pc = "enable" => req'[q].set \in verified'
            /\ req'[q].pc = "close" => req'[q].pw <= user'.pw
    BY DEF Held, Setup
  <2>1. CASE q = r
    BY <2>1, <1>2 DEF Enrolling
  <2>2. CASE q # r
    <3>1. req'[q] = req[q] /\ (Enrolling(q)' <=> Enrolling(q))
      BY <2>2, <1>2 DEF Enrolling
    <3> QED
      BY <2>2, <3>1, <1>1, <1>7 DEF Base, Held, history
  <2> QED
    BY <2>1, <2>2
<1>9. Seen' /\ Apart'
  BY <1>1, <1>3, <1>6 DEF Base, Seen, Apart, Enrolling, history
<1> QED
  BY <1>5, <1>8, <1>9 DEF Base

LEMMA VerifyBase == ASSUME Base, NEW r \in Req, VerifyTotp(r) PROVE Base'
<1> DEFINE l == Place("enable", 0, user.secret)
<1>1. l \in Local /\ l.pc = "enable" /\ l.set = user.secret
  BY DEF Place, Base, TypeOK, User, Local, Pc
<1>2. /\ req' = [req EXCEPT ![r] = l] /\ user.secret \in shown
      /\ UNCHANGED <<store, crashes, shown, closed, uses, crossed, mixed>>
      /\ verified' = verified \union {user.secret}
  BY DEF VerifyTotp
<1> HIDE DEF l
<1>3. /\ req' \in [Req -> Local] /\ req'[r] = l
      /\ \A q \in Req \ {r} : req'[q] = req[q]
  BY <1>1, <1>2, Move DEF Base, TypeOK
<1>4. user' = user /\ user.pw \in Nat /\ verified' \subseteq Setup
  BY <1>2 DEF Base, TypeOK, User, store
<1>5. TypeOK'
  BY <1>2, <1>3, <1>4 DEF Base, TypeOK, store, Setup
<1> QED
  BY <1>1, <1>2, <1>3, <1>4, <1>5, BaseMove DEF store

LEMMA EnableBase == ASSUME Base, NEW r \in Req, EnableTotp(r) PROVE Base'
<1>1. /\ req' \in [Req -> Local] /\ req'[r].pc = "idle"
      /\ \A q \in Req \ {r} : req'[q] = req[q]
  BY DoneMove DEF EnableTotp, Base, TypeOK
<1>2. user' \in User /\ user'.secret = user.secret /\ user'.pw = user.pw /\ user.pw \in Nat
  BY DEF EnableTotp, Base, TypeOK, User
<1>3. req[r].set \in verified
  BY DEF EnableTotp, At, Base, Held
<1>4. crossed' \subseteq Setup
  <2>1. req[r].set \in 1..MaxSetups /\ req[r].set <= user.secret
    BY <1>3 DEF Base, TypeOK, Seen, Setup
  <2>2. user.secret \in 0..MaxSetups
    BY DEF Base, TypeOK, User
  <2>3. user.secret \in Setup
    BY <2>1, <2>2, BoundAssumption DEF Setup
  <2>4. crossed' = crossed \union ({user.secret} \ {req[r].set})
    BY DEF EnableTotp
  <2> QED
    BY <2>3, <2>4 DEF Base, TypeOK
<1>5. TypeOK'
  BY <1>1, <1>2, <1>4 DEF EnableTotp, Base, TypeOK, Setup
<1> QED
  BY <1>1, <1>2, <1>5, BaseMove DEF EnableTotp

LEMMA ResetGetBase ==
  ASSUME Base, NEW r \in Req, NEW l \in Link, ResetGet(r, l) PROVE Base'
<1> DEFINE x == [Place("unlink", 0, 0) EXCEPT !.link = l]
<1>1. x \in Local /\ x.pc = "unlink"
  BY BoundAssumption DEF Place, Local, Pc
<1>2. req' = [req EXCEPT ![r] = x] /\ UNCHANGED <<store, crashes, shown, history>>
  BY DEF ResetGet
<1> HIDE DEF x
<1>3. /\ req' \in [Req -> Local] /\ req'[r] = x
      /\ \A q \in Req \ {r} : req'[q] = req[q]
  BY <1>1, <1>2, Move DEF Base, TypeOK
<1>4. TypeOK' /\ user'.pw >= user.pw
  BY <1>2, <1>3 DEF Base, TypeOK, User, store, history, Setup
<1> QED
  BY <1>1, <1>2, <1>3, <1>4, BaseMove DEF store, history

LEMMA ResetDelBase == ASSUME Base, NEW r \in Req, ResetDel(r) PROVE Base'
<1> DEFINE x == Place("write", 0, 0)
<1>1. x \in Local /\ x.pc = "write"
  BY BoundAssumption DEF Place, Local, Pc
<1>2. req' = [req EXCEPT ![r] = x]
  BY DEF ResetDel
<1> HIDE DEF x
<1>3. /\ req' \in [Req -> Local] /\ req'[r] = x
      /\ \A q \in Req \ {r} : req'[q] = req[q]
  BY <1>1, <1>2, Move DEF Base, TypeOK
<1>4. link' \in [Link -> BOOLEAN]
  BY DEF ResetDel, Base, TypeOK
<1>5. TypeOK' /\ user'.pw >= user.pw
  BY <1>3, <1>4 DEF ResetDel, Base, TypeOK, User, history, Setup
<1> QED
  BY <1>1, <1>3, <1>5, BaseMove DEF ResetDel, history

LEMMA ResetUpdateBase == ASSUME Base, NEW r \in Req, ResetUpdate(r) PROVE Base'
<1> DEFINE x == Place("close", user.pw + 1, 0)
<1>1. x \in Local /\ x.pc = "close" /\ x.pw = user.pw + 1
  <2>1. user.pw + 1 \in Nat /\ req[r] \in Local
    BY DEF Base, TypeOK, User
  <2> QED
    BY <2>1, BoundAssumption DEF Place, Local, Pc
<1>2. req' = [req EXCEPT ![r] = x]
  BY DEF ResetUpdate
<1> HIDE DEF x
<1>3. /\ req' \in [Req -> Local] /\ req'[r] = x
      /\ \A q \in Req \ {r} : req'[q] = req[q]
  BY <1>1, <1>2, Move DEF Base, TypeOK
<1>4. /\ user' \in User /\ user'.pw = user.pw + 1 /\ user'.secret = user.secret
      /\ user.pw \in Nat
  BY DEF ResetUpdate, Base, TypeOK, User
<1>5. closed' \in Nat /\ closed' <= user'.pw
  BY <1>4 DEF ResetUpdate, history, Base, TypeOK
<1>6. TypeOK'
  BY <1>3, <1>4, <1>5 DEF ResetUpdate, Base, TypeOK, history, Setup
<1> QED
  BY <1>1, <1>3, <1>4, <1>6, BaseMove DEF ResetUpdate, history

LEMMA ResetSessionsBase == ASSUME Base, NEW r \in Req, ResetSessions(r) PROVE Base'
<1>1. /\ req' \in [Req -> Local] /\ req'[r].pc = "idle"
      /\ \A q \in Req \ {r} : req'[q] = req[q]
  BY DoneMove DEF ResetSessions, Base, TypeOK
<1>2. /\ user' = user /\ user.pw \in Nat /\ req[r].pw \in Nat
      /\ req[r].pw <= user.pw
  BY DEF ResetSessions, At, Base, TypeOK, User, Local, Held
<1>3. closed' \in Nat /\ closed' <= user'.pw
  BY <1>2 DEF ResetSessions, Base, TypeOK
<1>4. sess' \in [Tok -> Session]
  BY NoneTypes DEF ResetSessions
<1>5. TypeOK'
  BY <1>1, <1>2, <1>3, <1>4 DEF ResetSessions, Base, TypeOK, Setup
<1> QED
  BY <1>1, <1>2, <1>5, BaseMove DEF ResetSessions

\* Steps of the clock and single statements on sessions, challenges, links.
LEMMA OtherBase ==
  ASSUME Base,
         \/ \E t \in Tok : Revoke(t) \/ SessionExpires(t)
         \/ ForceLogout
         \/ \E c \in Chal : ChallengeExpires(c)
         \/ \E l \in Link : ResetRequest(l) \/ LinkExpires(l)
  PROVE  Base'
<1>1. UNCHANGED <<user, code, req, crashes, shown, history>>
  BY DEF Revoke, SessionExpires, ForceLogout, ChallengeExpires, ResetRequest, LinkExpires
<1>2. sess' \in [Tok -> Session]
  BY NoneTypes DEF Revoke, SessionExpires, ForceLogout, ChallengeExpires, ResetRequest,
     LinkExpires, Base, TypeOK, Session
<1>3. chal' \in [Chal -> Challenge]
  BY NoneTypes DEF Revoke, SessionExpires, ForceLogout, ChallengeExpires, ResetRequest,
     LinkExpires, Base, TypeOK
<1>4. link' \in [Link -> BOOLEAN]
  BY DEF Revoke, SessionExpires, ForceLogout, ChallengeExpires, ResetRequest,
     LinkExpires, Base, TypeOK
<1>5. TypeOK'
  BY <1>1, <1>2, <1>3, <1>4 DEF Base, TypeOK, history, Setup
<1> QED
  BY <1>1, <1>5, BaseStay DEF history

LEMMA CrashBase == ASSUME Base, Crash PROVE Base'
<1>1. /\ req' = [r \in Req |-> Idle] /\ crashes' = crashes + 1 /\ mixed' \in BOOLEAN
      /\ UNCHANGED <<store, shown, closed, uses, verified, crossed>>
  BY DEF Crash
<1>2. TypeOK'
  BY <1>1, IdleType DEF Base, TypeOK, store, Setup
<1>3. \A r \in Req : req'[r].pc = "idle"
  BY <1>1, IdleType
<1>4. Held' /\ Seen' /\ Apart'
  BY <1>1, <1>3 DEF Base, Held, Seen, Apart, Enrolling, store
<1> QED
  BY <1>2, <1>4 DEF Base

LEMMA BaseStep == Base /\ [Next]_vars => Base'
<1> SUFFICES ASSUME Base, [Next]_vars PROVE Base'
  OBVIOUS
<1>1. ASSUME NEW r \in Req, Handle(r) PROVE Base'
  BY <1>1, LoginBase, ChallengeBase, CreateBase, MfaGetBase, MfaDelBase, MfaCheckBase,
     FindBase, UseBase, SetupBase, PurgeBase, CreateCodesBase, VerifyBase, EnableBase,
     ResetGetBase, ResetDelBase, ResetUpdateBase, ResetSessionsBase DEF Handle
<1>2. CASE UNCHANGED vars
  <2>1. TypeOK'
    BY <1>2 DEF Base, TypeOK, vars, store, history, Setup
  <2> QED
    BY <1>2, <2>1, BaseStay DEF vars, store, history
<1> QED
  BY <1>1, <1>2, OtherBase, CrashBase DEF Next

\* The account's row, its codes, its sessions, its challenges and links, and
\* what every request holds stay well-formed.
THEOREM TypeCorrect == Spec => []TypeOK
<1>1. Base => TypeOK
  BY DEF Base
<1> QED
  BY BaseInit, BaseStep, <1>1, PTL DEF Spec

THEOREM BaseCorrect == Spec => []Base
BY BaseInit, BaseStep, PTL DEF Spec

-----------------------------------------------------------------------------
(* OldPasswordOut is inductive by itself, given the types.                 *)

\* After an acknowledged reset a session of an older password can only be one
\* created by a login that was past its check: for any number of resets.
THEOREM ResetCloses == Spec => []OldPasswordOut
<1>1. Init => OldPasswordOut
  BY DEF Init, OldPasswordOut, NoSession
<1>2. Base /\ OldPasswordOut /\ [Next]_vars => OldPasswordOut'
  <2> SUFFICES ASSUME Base, OldPasswordOut, [Next]_vars PROVE OldPasswordOut'
    OBVIOUS
  <2>1. CASE closed' = closed /\ sess' = sess
    BY <2>1 DEF OldPasswordOut
  <2>2. ASSUME NEW r \in Req, NEW t \in Tok, CreateSession(r, t) PROVE OldPasswordOut'
    <3>1. /\ sess' = [sess EXCEPT ![t] =
                [st |-> "live", pw |-> req[r].pw, late |-> req[r].pw < closed]]
          /\ closed' = closed
      BY <2>2 DEF CreateSession, history
    <3>2. \A u \in Tok \ {t} : sess'[u] = sess[u]
      BY <3>1 DEF Base, TypeOK
    <3>3. sess'[t].pw < closed' => sess'[t].late
      BY <3>1 DEF Base, TypeOK
    <3> QED
      BY <3>1, <3>2, <3>3 DEF OldPasswordOut
  <2>3. ASSUME sess' = [t \in Tok |-> NoSession] PROVE OldPasswordOut'
    BY <2>3 DEF OldPasswordOut, NoSession
  <2>4. ASSUME NEW t \in Tok, Revoke(t) \/ SessionExpires(t) PROVE OldPasswordOut'
    <3>1. closed' = closed /\ \A u \in Tok \ {t} : sess'[u] = sess[u]
      BY <2>4 DEF Revoke, SessionExpires, history, Base, TypeOK
    <3>2. \/ sess'[t] = NoSession
          \/ /\ sess'[t].pw = sess[t].pw /\ sess'[t].late = sess[t].late
             /\ sess[t].st = "live"
      BY <2>4 DEF Revoke, SessionExpires, Base, TypeOK, Session
    <3> QED
      BY <3>1, <3>2 DEF OldPasswordOut, NoSession
  <2>5. CASE UNCHANGED vars
    BY <2>5, <2>1 DEF vars, store, history
  <2>6. ASSUME NEW r \in Req, Handle(r),
               ~\E t \in Tok : CreateSession(r, t), ~ResetSessions(r)
        PROVE OldPasswordOut'
    <3>1. closed' = closed /\ sess' = sess
      BY <2>6 DEF Handle, Login, StartMfaChallenge, MfaGet, MfaDel, MfaCheck, RecoveryFind,
         RecoveryUse, SetupTotp, SetupPurge, SetupCreate, VerifyTotp, EnableTotp, ResetGet,
         ResetDel, ResetUpdate, store, history
    <3> QED
      BY <3>1, <2>1
  <2>7. ASSUME \/ \E c \in Chal : ChallengeExpires(c)
               \/ \E l \in Link : ResetRequest(l) \/ LinkExpires(l)
               \/ Crash
        PROVE OldPasswordOut'
    <3>1. closed' = closed /\ sess' = sess
      BY <2>7 DEF ChallengeExpires, ResetRequest, LinkExpires, Crash, store, history
    <3> QED
      BY <3>1, <2>1
  <2> QED
    BY <2>2, <2>3, <2>4, <2>5, <2>6, <2>7 DEF Next, ResetSessions, ForceLogout
<1> QED
  BY <1>1, <1>2, BaseCorrect, PTL DEF Spec

-----------------------------------------------------------------------------
(* EnabledIsVerified is inductive by itself, given the types.              *)

\* The second factor is enabled only with a secret for which a code was
\* verified, or which replaced that secret while the check was under way.
THEOREM NeverUnverified == Spec => []EnabledIsVerified
<1>1. Init => EnabledIsVerified
  BY DEF Init, EnabledIsVerified
<1>2. Base /\ EnabledIsVerified /\ [Next]_vars => EnabledIsVerified'
  <2> SUFFICES ASSUME Base, EnabledIsVerified, [Next]_vars PROVE EnabledIsVerified'
    OBVIOUS
  <2>1. CASE /\ user'.enabled = user.enabled /\ user'.secret = user.secret
             /\ verified \subseteq verified' /\ crossed' = crossed
    BY <2>1 DEF EnabledIsVerified
  <2>2. ASSUME NEW r \in Req, SetupTotp(r) PROVE EnabledIsVerified'
    BY <2>2 DEF SetupTotp, EnabledIsVerified
  <2>3. ASSUME NEW r \in Req, EnableTotp(r) PROVE EnabledIsVerified'
    <3>1. user'.secret = user.secret
      BY <2>3 DEF EnableTotp, Base, TypeOK, User
    <3>2. req[r].set \in verified
      BY <2>3 DEF EnableTotp, At, Base, Held
    <3> QED
      BY <2>3, <3>1, <3>2 DEF EnableTotp, EnabledIsVerified
  <2>4. ASSUME NEW r \in Req, ResetUpdate(r) PROVE EnabledIsVerified'
    BY <2>4, <2>1 DEF ResetUpdate, history, Base, TypeOK, User
  <2>5. ASSUME NEW r \in Req, Handle(r), ~SetupTotp(r), ~EnableTotp(r), ~ResetUpdate(r)
        PROVE EnabledIsVerified'
    <3>1. user' = user /\ verified \subseteq verified' /\ crossed' = crossed
      BY <2>5 DEF Handle, Login, StartMfaChallenge, CreateSession, MfaGet, MfaDel, MfaCheck,
         RecoveryFind, RecoveryUse, SetupPurge, SetupCreate, VerifyTotp, ResetGet, ResetDel,
         ResetSessions, store, history
    <3> QED
      BY <3>1, <2>1
  <2>6. ASSUME \/ \E t \in Tok : Revoke(t) \/ SessionExpires(t)
               \/ ForceLogout
               \/ \E c \in Chal : ChallengeExpires(c)
               \/ \E l \in Link : ResetRequest(l) \/ LinkExpires(l)
               \/ Crash
        PROVE EnabledIsVerified'
    <3>1. user' = user /\ verified' = verified /\ crossed' = crossed
      BY <2>6 DEF Revoke, SessionExpires, ForceLogout, ChallengeExpires, ResetRequest,
         LinkExpires, Crash, store, history
    <3> QED
      BY <3>1, <2>1
  <2>7. CASE UNCHANGED vars
    BY <2>7, <2>1 DEF vars, store, history
  <2> QED
    BY <2>2, <2>3, <2>4, <2>5, <2>6, <2>7 DEF Next
<1> QED
  BY <1>1, <1>2, BaseCorrect, PTL DEF Spec

-----------------------------------------------------------------------------
(* CodesMatch.                                                             *)

\* As long as enrolments do not overlap, the one under way is that of the
\* secret in the row, and finds no code when it creates its own.
Lone ==
  ~mixed =>
    /\ \A q, r \in Req : Enrolling(q) /\ Enrolling(r) => q = r
    /\ \A r \in Req : Enrolling(r) => req[r].set = user.secret
    /\ \A r \in Req : req[r].pc = "create" => \A i \in Setup : code[i] = "none"

CodeInv == Lone /\ CodesMatch

\* Nothing happens to enrolments and codes.
LEMMA CodeStay ==
  ASSUME Base, CodeInv, mixed' = mixed, user'.secret = user.secret,
         \A r \in Req : /\ Enrolling(r)' <=> Enrolling(r)
                        /\ Enrolling(r) => req'[r] = req[r],
         \A i \in Setup : (code'[i] = "none") <=> (code[i] = "none")
  PROVE  CodeInv'
<1>1. {i \in Setup : code'[i] # "none"} = {i \in Setup : code[i] # "none"}
  OBVIOUS
<1>2. Setup' = Setup
  BY DEF Setup
<1>3. Lone'
  BY <1>2 DEF CodeInv, Lone, Enrolling
<1>4. CodesMatch'
  BY <1>1, <1>2 DEF CodeInv, CodesMatch
<1> QED
  BY <1>3, <1>4 DEF CodeInv

\* One request moves, and is no enrolment before or after.
LEMMA CodeMove ==
  ASSUME Base, CodeInv, mixed' = mixed, user'.secret = user.secret,
         NEW r \in Req, ~Enrolling(r), ~(req'[r].pc \in {"purge", "create"}),
         \A q \in Req \ {r} : req'[q] = req[q],
         \A i \in Setup : (code'[i] = "none") <=> (code[i] = "none")
  PROVE  CodeInv'
<1>1. \A q \in Req : (Enrolling(q)' <=> Enrolling(q)) /\ (Enrolling(q) => req'[q] = req[q])
  BY DEF Enrolling
<1> QED
  BY <1>1, CodeStay

\* What the requests that are not enrolments do to themselves.
LEMMA OtherMoves ==
  ASSUME Base, NEW r \in Req, Handle(r),
         ~SetupTotp(r), ~SetupPurge(r), ~SetupCreate(r)
  PROVE  /\ ~Enrolling(r) /\ ~(req'[r].pc \in {"purge", "create"})
         /\ \A q \in Req \ {r} : req'[q] = req[q]
         /\ req'[r].pc = "use" => RecoveryFind(r)
<1> USE DEF Base, TypeOK, Enrolling, At
<1>1. CASE Login(r)
  BY <1>1 DEF Login, Idle, Place
<1>2. CASE \E c \in Chal : StartMfaChallenge(r, c)
  BY <1>2 DEF StartMfaChallenge, Done, Idle, Place
<1>3. CASE \E t \in Tok : CreateSession(r, t)
  BY <1>3 DEF CreateSession, Done, Idle, Place
<1>4. CASE \E c \in Chal : MfaGet(r, c)
  BY <1>4 DEF MfaGet, Idle, Place
<1>5. CASE MfaDel(r) \/ ResetDel(r)
  BY <1>5 DEF MfaDel, ResetDel, Place
<1>6. CASE MfaCheck(r)
  BY <1>6 DEF MfaCheck, Done, Goto, Idle, Place, Local
<1>7. CASE RecoveryFind(r) \/ RecoveryUse(r)
  BY <1>7 DEF RecoveryFind, RecoveryUse, Done, Goto, Idle, Place, Local
<1>8. CASE VerifyTotp(r) \/ EnableTotp(r)
  BY <1>8 DEF VerifyTotp, EnableTotp, Done, Idle, Place
<1>9. CASE \E l \in Link : ResetGet(r, l)
  BY <1>9 DEF ResetGet, Idle, Place
<1>10. CASE ResetUpdate(r) \/ ResetSessions(r)
  BY <1>10 DEF ResetUpdate, ResetSessions, Done, Idle, Place, Local
<1> QED
  BY <1>1, <1>2, <1>3, <1>4, <1>5, <1>6, <1>7, <1>8, <1>9, <1>10 DEF Handle

\* They leave the secret and the flag alone, and mark codes without deleting.
LEMMA OtherCodes ==
  ASSUME Base, NEW r \in Req, Handle(r),
         ~SetupTotp(r), ~SetupPurge(r), ~SetupCreate(r)
  PROVE  /\ mixed' = mixed /\ user'.secret = user.secret /\ shown' = shown
         /\ \A i \in Setup : (code'[i] = "none") <=> (code[i] = "none")
         /\ RecoveryUse(r) \/ (code' = code /\ uses' = uses)
<1>1. CASE RecoveryUse(r)
  BY <1>1 DEF RecoveryUse, Base, TypeOK
<1>2. CASE ~RecoveryUse(r)
  <2>1. code' = code /\ uses' = uses /\ mixed' = mixed /\ shown' = shown
    BY <1>2 DEF Handle, Login, StartMfaChallenge, CreateSession, MfaGet, MfaDel, MfaCheck,
       RecoveryFind, VerifyTotp, EnableTotp, ResetGet, ResetDel, ResetUpdate, ResetSessions,
       store, history
  <2>2. CASE EnableTotp(r) \/ ResetUpdate(r)
    BY <2>1, <2>2, <1>2 DEF EnableTotp, ResetUpdate, Base, TypeOK, User
  <2>3. CASE ~EnableTotp(r) /\ ~ResetUpdate(r)
    <3>1. user' = user
      BY <1>2, <2>3 DEF Handle, Login, StartMfaChallenge, CreateSession, MfaGet, MfaDel,
         MfaCheck, RecoveryFind, VerifyTotp, ResetGet, ResetDel, ResetSessions, store
    <3> QED
      BY <2>1, <3>1
  <2> QED
    BY <2>2, <2>3
<1> QED
  BY <1>1, <1>2

LEMMA QuietCodes ==
  ASSUME \/ \E t \in Tok : Revoke(t) \/ SessionExpires(t)
         \/ ForceLogout
         \/ \E c \in Chal : ChallengeExpires(c)
         \/ \E l \in Link : ResetRequest(l) \/ LinkExpires(l)
  PROVE  UNCHANGED <<user, code, req, shown, uses, mixed>>
BY DEF Revoke, SessionExpires, ForceLogout, ChallengeExpires, ResetRequest, LinkExpires, history

LEMMA CodeStep == Base /\ CodeInv /\ [Next]_vars => CodeInv'
<1> SUFFICES ASSUME Base, CodeInv, [Next]_vars PROVE CodeInv'
  OBVIOUS
<1>1. CASE UNCHANGED <<user, code, req, mixed>>
  BY <1>1, CodeStay DEF Enrolling
<1>2. ASSUME NEW r \in Req, SetupTotp(r) PROVE CodeInv'
  <2>1. /\ req' = [req EXCEPT ![r] = Place("purge", 0, user.secret + 1)]
        /\ user' = [pw |-> user.pw, secret |-> user.secret + 1, enabled |-> FALSE]
        /\ mixed' = \E q \in Req \ {r} : Enrolling(q)
    BY <1>2 DEF SetupTotp
  <2>2. /\ req'[r].pc = "purge" /\ req'[r].set = user'.secret
        /\ \A q \in Req \ {r} : req'[q] = req[q]
    BY <2>1 DEF Base, TypeOK, Place
  <2>3. ~mixed' => \A q \in Req : Enrolling(q)' => q = r
    BY <2>1, <2>2 DEF Enrolling
  <2>4. Lone'
    BY <2>2, <2>3 DEF Lone, Enrolling
  <2>5. CodesMatch'
    BY <2>2 DEF CodesMatch, Enrolling
  <2> QED
    BY <2>4, <2>5 DEF CodeInv
<1>3. ASSUME NEW r \in Req, SetupPurge(r) PROVE CodeInv'
  <2>1. /\ Enrolling(r) /\ mixed' = mixed /\ user' = user
        /\ code' = [i \in Setup |-> "none"]
    BY <1>3 DEF SetupPurge, history, At, Enrolling
  <2>2. /\ req'[r].pc = "create" /\ req'[r].set = req[r].set
        /\ \A q \in Req \ {r} : req'[q] = req[q]
    BY <1>3, GotoMove DEF SetupPurge, Base, TypeOK, Pc
  <2>3. \A q \in Req : Enrolling(q)' <=> Enrolling(q)
    BY <2>1, <2>2 DEF Enrolling
  <2>4. \A q \in Req : req'[q].set = req[q].set
    BY <2>2
  <2>5. \A i \in Setup : code'[i] = "none"
    BY <2>1
  <2>6. Lone'
    BY <2>1, <2>3, <2>4, <2>5 DEF CodeInv, Lone, Setup
  <2>7. CodesMatch'
    BY <2>1, <2>3 DEF CodesMatch
  <2> QED
    BY <2>6, <2>7 DEF CodeInv
<1>4. ASSUME NEW r \in Req, SetupCreate(r) PROVE CodeInv'
  <2>1. /\ Enrolling(r) /\ req[r].pc = "create" /\ mixed' = mixed /\ user' = user
        /\ code' = [code EXCEPT ![req[r].set] = "unused"]
    BY <1>4 DEF SetupCreate, history, At, Enrolling
  <2>2. /\ req'[r].pc = "idle" /\ \A q \in Req \ {r} : req'[q] = req[q]
    BY <1>4, DoneMove DEF SetupCreate, Base, TypeOK
  <2>3. req[r].set \in Setup
    BY <2>1 DEF Base, Held
  <2>4. CASE mixed
    BY <2>1, <2>4 DEF CodeInv, Lone, CodesMatch
  <2>5. CASE ~mixed
    <3>1. \A q \in Req : Enrolling(q) => q = r
      BY <2>1, <2>5 DEF CodeInv, Lone
    <3>2. req[r].set = user.secret /\ \A i \in Setup : code[i] = "none"
      BY <2>1, <2>5 DEF CodeInv, Lone
    <3>3. \A q \in Req : ~Enrolling(q)'
      BY <2>2, <3>1 DEF Enrolling
    <3>4. Lone'
      BY <3>3 DEF Lone, Enrolling
    <3>5. user.secret # 0
      BY <2>3, <3>2 DEF Setup
    <3>6. \A i \in Setup : code'[i] # "none" <=> i = user.secret
      BY <2>1, <2>3, <3>2 DEF Base, TypeOK
    <3>7. {i \in Setup : code'[i] # "none"} = {user'.secret} \ {0}
      BY <2>1, <2>3, <3>2, <3>5, <3>6
    <3>8. CodesMatch'
      BY <3>7 DEF CodesMatch, Setup
    <3> QED
      BY <3>4, <3>8 DEF CodeInv
  <2> QED
    BY <2>4, <2>5
<1>5. ASSUME NEW r \in Req, Handle(r), ~SetupTotp(r), ~SetupPurge(r), ~SetupCreate(r)
      PROVE CodeInv'
  BY <1>5, OtherMoves, OtherCodes, CodeMove
<1>6. CASE Crash
  <2>1. /\ req' = [r \in Req |-> Idle] /\ user' = user /\ code' = code
        /\ mixed' = (mixed \/ \E r \in Req : Enrolling(r))
    BY <1>6 DEF Crash, store
  <2>2. \A r \in Req : ~Enrolling(r)'
    BY <2>1, IdleType DEF Enrolling
  <2>3. Lone'
    BY <2>2 DEF Lone, Enrolling
  <2>4. ~mixed' => ~mixed /\ \A r \in Req : ~Enrolling(r)
    BY <2>1
  <2>5. CodesMatch'
    BY <2>1, <2>4 DEF CodeInv, CodesMatch, Setup
  <2> QED
    BY <2>3, <2>5 DEF CodeInv
<1>7. CASE UNCHANGED vars
  BY <1>7, <1>1 DEF vars, store, history
<1> QED
  BY <1>1, <1>2, <1>3, <1>4, <1>5, <1>6, <1>7, QuietCodes DEF Next

\* After enrolments that did not overlap, the account has exactly the recovery
\* codes of its secret.
THEOREM CodesBelong == Spec => []CodesMatch
<1>1. Init => CodeInv
  <2> SUFFICES ASSUME Init PROVE CodeInv
    OBVIOUS
  <2>1. \A r \in Req : ~Enrolling(r)
    BY IdleType DEF Init, Enrolling
  <2>2. {i \in Setup : code[i] # "none"} = {} /\ user.secret = 0
    BY DEF Init
  <2> QED
    BY <2>1, <2>2 DEF CodeInv, Lone, CodesMatch, Enrolling
<1>2. CodeInv => CodesMatch
  BY DEF CodeInv
<1> QED
  BY <1>1, <1>2, CodeStep, BaseCorrect, PTL DEF Spec

-----------------------------------------------------------------------------
(* CodeUses.                                                               *)

\* The requests that found the code of i unused and have yet to mark it.
Finders(i) == {r \in Req : req[r].pc = "use" /\ req[r].set = i}

\* What counts against the bound: the code passed, or is about to.  A code
\* that nobody has seen has no history, and an unused one did not pass.
UseInv ==
  \A i \in Setup :
    /\ uses[i] + Cardinality(Finders(i)) <= Cardinality(Req)
    /\ code[i] = "unused" => uses[i] = 0
    /\ i \notin shown => uses[i] = 0 /\ code[i] = "none"

LEMMA FindersFinite ==
  /\ Cardinality(Req) \in Nat
  /\ \A i \in Setup : /\ IsFiniteSet(Finders(i)) /\ Cardinality(Finders(i)) \in Nat
                       /\ Cardinality(Finders(i)) <= Cardinality(Req)
<1>1. \A i \in Setup : Finders(i) \subseteq Req
  BY DEF Finders
<1> QED
  BY <1>1, SetAssumption, FS_Subset, FS_CardinalityType

\* The same after a step.
LEMMA FindersFinite2 ==
  \A i \in Setup : /\ IsFiniteSet(Finders(i)') /\ Cardinality(Finders(i)') \in Nat
                   /\ Cardinality(Finders(i)') <= Cardinality(Req)
<1>1. \A i \in Setup : Finders(i)' \subseteq Req
  BY DEF Finders
<1> QED
  BY <1>1, SetAssumption, FS_Subset, FS_CardinalityType

\* Nobody new found a code, and codes and counts of what was seen are kept or
\* deleted.
LEMMA UseStay ==
  ASSUME TypeOK, UseInv, uses' = uses, shown' = shown,
         \A i \in Setup : code'[i] \in {code[i], "none"},
         \A i \in Setup : Finders(i)' \subseteq Finders(i)
  PROVE  UseInv'
<1>1. \A i \in Setup : Cardinality(Finders(i)') <= Cardinality(Finders(i))
  BY FindersFinite, FS_Subset
<1>2. ASSUME NEW i \in Setup
      PROVE /\ uses'[i] + Cardinality(Finders(i)') <= Cardinality(Req)
            /\ code'[i] = "unused" => uses'[i] = 0
            /\ i \notin shown' => uses'[i] = 0 /\ code'[i] = "none"
  <2>1. uses[i] \in Nat /\ uses[i] + Cardinality(Finders(i)) <= Cardinality(Req)
    BY DEF TypeOK, UseInv
  <2>2. uses'[i] + Cardinality(Finders(i)') <= Cardinality(Req)
    BY <1>1, <2>1, FindersFinite, FindersFinite2
  <2> QED
    BY <2>2 DEF UseInv
<1> QED
  BY <1>2 DEF UseInv, Setup

\* A request that is not about to mark a code adds nothing to the finders.
LEMMA NoFinder ==
  ASSUME NEW r \in Req, \A q \in Req \ {r} : req'[q] = req[q], req'[r].pc # "use"
  PROVE  \A i \in Setup : Finders(i)' \subseteq Finders(i)
BY DEF Finders

LEMMA UseStep == Base /\ UseInv /\ [Next]_vars => UseInv'
<1> SUFFICES ASSUME Base, UseInv, [Next]_vars PROVE UseInv'
  OBVIOUS
<1>1. CASE UNCHANGED <<code, req, shown, uses>>
  <2>1. \A i \in Setup : Finders(i)' = Finders(i)
    BY <1>1 DEF Finders
  <2> QED
    BY <1>1, <2>1, UseStay DEF Base
<1>2. ASSUME NEW r \in Req, SetupTotp(r) PROVE UseInv'
  <2>1. /\ req'[r].pc # "use" /\ \A q \in Req \ {r} : req'[q] = req[q]
        /\ UNCHANGED <<code, shown, uses>>
    BY <1>2 DEF SetupTotp, Base, TypeOK, Place
  <2> QED
    BY <2>1, NoFinder, UseStay DEF Base
<1>3. ASSUME NEW r \in Req, SetupPurge(r) PROVE UseInv'
  <2>1. /\ req'[r].pc # "use" /\ \A q \in Req \ {r} : req'[q] = req[q]
        /\ shown' = shown /\ uses' = uses /\ \A i \in Setup : code'[i] = "none"
    BY <1>3, GotoMove DEF SetupPurge, Base, TypeOK, Pc, history
  <2> QED
    BY <2>1, NoFinder, UseStay DEF Base
<1>4. ASSUME NEW r \in Req, SetupCreate(r) PROVE UseInv'
  <2>1. /\ req'[r].pc # "use" /\ \A q \in Req \ {r} : req'[q] = req[q]
        /\ uses' = uses /\ shown' = shown \union {req[r].set}
        /\ code' = [code EXCEPT ![req[r].set] = "unused"]
    BY <1>4, DoneMove DEF SetupCreate, Base, TypeOK, history
  <2>2. req[r].set \in Setup \ shown
    BY <1>4 DEF SetupCreate, At, Enrolling, Base, Held
  <2>3. \A i \in Setup : Cardinality(Finders(i)') <= Cardinality(Finders(i))
    BY <2>1, NoFinder, FindersFinite, FS_Subset
  <2>4. ASSUME NEW i \in Setup
        PROVE /\ uses'[i] + Cardinality(Finders(i)') <= Cardinality(Req)
              /\ code'[i] = "unused" => uses'[i] = 0
              /\ i \notin shown' => uses'[i] = 0 /\ code'[i] = "none"
    <3>1. uses[i] \in Nat /\ uses[i] + Cardinality(Finders(i)) <= Cardinality(Req)
      BY DEF Base, TypeOK, UseInv
    <3>2. uses'[i] + Cardinality(Finders(i)') <= Cardinality(Req)
      BY <2>1, <2>3, <3>1, FindersFinite, FindersFinite2
    <3>3. i # req[r].set => code'[i] = code[i]
      BY <2>1, <2>2 DEF Base, TypeOK
    <3> QED
      BY <2>1, <2>2, <3>2, <3>3 DEF UseInv
  <2> QED
    BY <2>4 DEF UseInv, Setup
<1>5. ASSUME NEW r \in Req, RecoveryFind(r) PROVE UseInv'
  <2>1. /\ \A q \in Req \ {r} : req'[q] = req[q]
        /\ UNCHANGED <<code, shown, uses>>
        /\ req'[r].pc = "use" => req'[r].set = req[r].set /\ code[req[r].set] = "unused"
    BY <1>5, GotoMove, DoneMove DEF RecoveryFind, Base, TypeOK, Pc, store, history
  <2>2. CASE req'[r].pc # "use"
    BY <2>1, <2>2, NoFinder, UseStay DEF Base
  <2>3. CASE req'[r].pc = "use"
    <3>1. \A i \in Setup \ {req[r].set} : Finders(i)' \subseteq Finders(i)
      BY <2>1, <2>3 DEF Finders
    <3>2. \A i \in Setup \ {req[r].set} :
            Cardinality(Finders(i)') <= Cardinality(Finders(i))
      BY <3>1, FindersFinite, FS_Subset
    <3>3. ASSUME NEW i \in Setup PROVE uses'[i] + Cardinality(Finders(i)') <= Cardinality(Req)
      <4>1. CASE i = req[r].set
        <5>1. uses'[i] = 0
          BY <4>1, <2>1, <2>3 DEF UseInv
        <5> QED
          BY <5>1, FindersFinite, FindersFinite2
      <4>2. CASE i # req[r].set
        <5>1. uses'[i] \in Nat /\ uses'[i] + Cardinality(Finders(i)) <= Cardinality(Req)
          BY <2>1 DEF Base, TypeOK, UseInv
        <5> QED
          BY <4>2, <5>1, <3>2, FindersFinite, FindersFinite2
      <4> QED
        BY <4>1, <4>2
    <3> QED
      BY <2>1, <3>3 DEF UseInv, Setup
  <2> QED
    BY <2>2, <2>3
<1>6. ASSUME NEW r \in Req, RecoveryUse(r) PROVE UseInv'
  <2>1. /\ req[r].pc = "use" /\ shown' = shown
        /\ req'[r].pc # "use" /\ \A q \in Req \ {r} : req'[q] = req[q]
    BY <1>6, GotoMove, DoneMove DEF RecoveryUse, Base, TypeOK, Pc, At
  <2>0. req[r].set \in Setup /\ req[r].set \in shown
    BY <2>1 DEF Base, Held, TypeOK
  <2>2. PICK i \in Setup : i = req[r].set /\ i \in shown
    BY <2>0
  <2>3. CASE code[i] = "none"
    <3>1. code' = code /\ uses' = uses
      BY <1>6, <2>2, <2>3 DEF RecoveryUse
    <3> QED
      BY <2>1, <3>1, NoFinder, UseStay DEF Base
  <2>4. CASE code[i] # "none"
    <3>1. code' = [code EXCEPT ![i] = "used"] /\ uses' = [uses EXCEPT ![i] = @ + 1]
      BY <1>6, <2>2, <2>4 DEF RecoveryUse
    <3>2. \A j \in Setup : Cardinality(Finders(j)') <= Cardinality(Finders(j))
      BY <2>1, NoFinder, FindersFinite, FS_Subset
    <3>3. r \in Finders(i) /\ Finders(i)' = Finders(i) \ {r}
      BY <2>1, <2>2 DEF Finders
    <3>4. Cardinality(Finders(i)') = Cardinality(Finders(i)) - 1
      <4>1. IsFiniteSet(Finders(i))
        BY <2>2, FindersFinite
      <4>2. Cardinality(Finders(i) \ {r}) = Cardinality(Finders(i)) - 1
        BY <3>3, <4>1, FS_RemoveElement
      <4> QED
        BY <3>3, <4>2
    <3>5. ASSUME NEW j \in Setup
          PROVE /\ uses'[j] + Cardinality(Finders(j)') <= Cardinality(Req)
                /\ code'[j] = "unused" => uses'[j] = 0
                /\ j \notin shown' => uses'[j] = 0 /\ code'[j] = "none"
      <4>1. uses[j] \in Nat /\ uses[j] + Cardinality(Finders(j)) <= Cardinality(Req)
        BY DEF Base, TypeOK, UseInv
      <4>2. CASE j = i
        <5>1. uses'[j] = uses[j] + 1 /\ code'[j] = "used"
          BY <4>2, <3>1, <2>2 DEF Base, TypeOK
        <5>2. /\ Cardinality(Finders(j)) \in Nat
              /\ Cardinality(Finders(j)') = Cardinality(Finders(j)) - 1
          BY <4>2, <3>4, FindersFinite
        <5>3. uses'[j] + Cardinality(Finders(j)') <= Cardinality(Req)
          BY <4>1, <5>1, <5>2, FindersFinite
        <5> QED
          BY <5>1, <5>3, <4>2, <2>1, <2>2
      <4>3. CASE j # i
        <5>1. uses'[j] = uses[j] /\ code'[j] = code[j]
          BY <4>3, <3>1 DEF Base, TypeOK
        <5>2. uses'[j] + Cardinality(Finders(j)') <= Cardinality(Req)
          BY <4>1, <5>1, <3>2, FindersFinite, FindersFinite2
        <5> QED
          BY <5>1, <5>2, <2>1 DEF UseInv
      <4> QED
        BY <4>2, <4>3
    <3> QED
      BY <3>5 DEF UseInv, Setup
  <2> QED
    BY <2>3, <2>4
<1>7. ASSUME NEW r \in Req, Handle(r), ~SetupTotp(r), ~SetupPurge(r), ~SetupCreate(r),
             ~RecoveryFind(r), ~RecoveryUse(r)
      PROVE UseInv'
  <2>1. /\ req'[r].pc # "use" /\ \A q \in Req \ {r} : req'[q] = req[q]
        /\ UNCHANGED <<code, shown, uses>>
    BY <1>7, OtherMoves, OtherCodes
  <2> QED
    BY <2>1, NoFinder, UseStay DEF Base
<1>8. CASE Crash
  <2>1. UNCHANGED <<code, shown, uses>> /\ req' = [r \in Req |-> Idle]
    BY <1>8 DEF Crash, store
  <2>2. \A i \in Setup : Finders(i)' = {}
    BY <2>1, IdleType DEF Finders
  <2> QED
    BY <2>1, <2>2, UseStay DEF Base
<1>9. CASE UNCHANGED vars
  BY <1>9, <1>1 DEF vars, store, history
<1> QED
  BY <1>1, <1>2, <1>3, <1>4, <1>5, <1>6, <1>7, <1>8, <1>9, QuietCodes DEF Next

\* A recovery code passes at most once per request in flight, however many
\* challenges, enrolments and restarts there are.
THEOREM CodesBounded == Spec => []CodeUses
<1>1. Base /\ UseInv => CodeUses
  <2> SUFFICES ASSUME Base, UseInv, NEW i \in Setup PROVE uses[i] <= Cardinality(Req)
    BY DEF CodeUses
  <2>1. uses[i] \in Nat /\ uses[i] + Cardinality(Finders(i)) <= Cardinality(Req)
    BY DEF Base, TypeOK, UseInv
  <2> QED
    BY <2>1, FindersFinite
<1>2. Init => UseInv
  <2> SUFFICES ASSUME Init PROVE UseInv
    OBVIOUS
  <2>1. \A i \in Setup : uses[i] = 0 /\ code[i] = "none"
    BY DEF Init
  <2> QED
    BY <2>1, FindersFinite DEF UseInv
<1> QED
  BY <1>1, <1>2, UseStep, BaseCorrect, PTL DEF Spec

=============================================================================
