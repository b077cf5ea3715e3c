------------------------ MODULE WebmailLettersProofs ------------------------
(***************************************************************************)
(* Proofs about Campaign, for any number of recipients, of handlers and of *)
(* restarts; about MailImport, for any mailboxes and any runs; and about   *)
(* Composer, for any number of letters.                                    *)
(***************************************************************************)
EXTENDS Campaign, MailImport, Composer, FiniteSetTheorems, TLAPS

(***************************************************************************)
(* Campaign.                                                               *)
(***************************************************************************)

\* What a send's variables say about where it is.
Shape ==
  \A h \in Req :
    /\ req[h].cur # "none" <=> req[h].pc \in {"mark", "markFailed"}
    /\ req[h].pc = "idle" => req[h].todo = {}
    /\ req[h].cur \notin req[h].todo

\* While the campaign is there, so are the recipients that a send holds and
\* the ones that got a letter.
StillListed ==
  campaign.exists =>
    \A x \in Rcpt : rcpt[x].status = "absent" =>
                      copies[x] = 0 /\ \A h \in Req : x \notin Holds(h)

\* One send at a time holds a recipient.
Single ==
  \A x \in Rcpt \ doubtful : \A g, h \in Req :
    x \in Holds(g) /\ x \in Holds(h) => g = h

\* A recipient who got a letter will not get another: no send has it before
\* it, and as long as it is pending its letter is about to be noted.
ServedOnce ==
  \A x \in Rcpt \ doubtful : copies[x] # 0 =>
    /\ copies[x] = 1
    /\ \A h \in Req : x \notin req[h].todo
    /\ rcpt[x].status = "pending" => \E h \in Req : req[h].cur = x

\* A handler that sent a letter after the deletion is on its way out.
Leaving ==
  \A h \in Req : extra[h] # 0 =>
    /\ extra[h] = 1 /\ ~campaign.exists
    /\ req[h].pc \in {"idle", "mark", "markFailed"}

IInv == TypeOK /\ Shape /\ StillListed /\ Single /\ ServedOnce /\ Leaving /\ NobodySkipped

LEMMA IdleType == Idle \in Local /\ Idle.pc = "idle" /\ Idle.todo = {} /\ Idle.cur = "none"
BY DEF Idle, Local, PC

LEMMA AbsentType == Absent \in RcptRow /\ Absent.status = "absent"
BY DEF Absent, RcptRow, Status

\* What is true of a handler once its request is answered.
LEMMA AnswerMove ==
  ASSUME req \in [Req -> Local], NEW h \in Req, Answer(h)
  PROVE  /\ req' \in [Req -> Local]
         /\ req'[h].pc = "idle" /\ req'[h].todo = {} /\ req'[h].cur = "none"
         /\ Holds(h)' = {}
         /\ \A g \in Req \ {h} : req'[g] = req[g] /\ Holds(g)' = Holds(g)
BY IdleType DEF Answer, Holds

\* A write to one recipient's row.
LEMMA RowMove ==
  ASSUME TypeOK, NEW x \in Rcpt, NEW s \in Status, NEW a \in BOOLEAN, NEW o \in BOOLEAN,
         rcpt' = [rcpt EXCEPT ![x] = [status |-> s, sentAt |-> a, openedAt |-> o]]
  PROVE  /\ rcpt' \in [Rcpt -> RcptRow] /\ rcpt'[x].status = s
         /\ \A y \in Rcpt \ {x} : rcpt'[y] = rcpt[y]
<1> DEFINE w == [status |-> s, sentAt |-> a, openedAt |-> o]
<1>1. w \in RcptRow /\ w.status = s
  BY DEF RcptRow
<1> HIDE DEF w
<1>2. rcpt' = [rcpt EXCEPT ![x] = w]
  BY DEF w
<1> QED
  BY <1>1, <1>2 DEF TypeOK

-----------------------------------------------------------------------------

LEMMA InitIInv == Init => IInv
<1> SUFFICES ASSUME Init PROVE IInv
  OBVIOUS
<1>1. /\ rcpt \in [Rcpt -> RcptRow] /\ req \in [Req -> Local]
      /\ \A x \in Rcpt : rcpt[x] = Absent
      /\ \A h \in Req : req[h] = Idle
  BY IdleType, AbsentType DEF Init
<1>2. campaign \in Row /\ campaign.exists
  BY DEF Init, Row
<1>3. TypeOK
  BY <1>1, <1>2 DEF Init, TypeOK
<1>4. Shape /\ StillListed /\ Single /\ ServedOnce /\ Leaving /\ NobodySkipped
  BY <1>1, <1>2, IdleType, AbsentType
     DEF Init, Shape, StillListed, Single, ServedOnce, Leaving, NobodySkipped, Holds, Pending
<1> QED
  BY <1>3, <1>4 DEF IInv

LEMMA ImportStep ==
  ASSUME IInv, NEW S \in SUBSET Rcpt, Import(S)
  PROVE  IInv'
<1> DEFINE w == [Absent EXCEPT !.status = "pending"]
<1>1. w \in RcptRow /\ w.status = "pending"
  BY DEF Absent, RcptRow, Status
<1>2. /\ campaign.exists /\ \A x \in S : rcpt[x].status = "absent"
      /\ rcpt' = [x \in Rcpt |-> IF x \in S THEN w ELSE rcpt[x]]
      /\ fresh' = fresh \union S
      /\ UNCHANGED <<campaign, req, faults, copies, doubtful, extra, broken>>
  BY DEF Import
<1> HIDE DEF w
<1>3. /\ rcpt' \in [Rcpt -> RcptRow]
      /\ \A x \in Rcpt : rcpt'[x] = (IF x \in S THEN w ELSE rcpt[x])
  BY <1>1, <1>2 DEF IInv, TypeOK
<1>4. \A h \in Req : Holds(h)' = Holds(h)
  BY <1>2 DEF Holds
<1>5. TypeOK'
  BY <1>1, <1>2, <1>3 DEF IInv, TypeOK
<1>6. Shape' /\ Single' /\ Leaving'
  BY <1>2, <1>4 DEF IInv, Shape, Single, Leaving
<1>7. StillListed'
  BY <1>1, <1>2, <1>3, <1>4 DEF IInv, StillListed
<1>8. ServedOnce'
  BY <1>1, <1>2, <1>3 DEF IInv, StillListed, ServedOnce, TypeOK
<1>9. NobodySkipped'
  BY <1>2, <1>3, <1>4 DEF IInv, NobodySkipped, Pending
<1> QED
  BY <1>5, <1>6, <1>7, <1>8, <1>9 DEF IInv

LEMMA DeleteStep ==
  ASSUME IInv, Delete
  PROVE  IInv'
<1>1. /\ campaign' \in Row /\ ~campaign'.exists /\ campaign.exists
      /\ UNCHANGED <<req, faults, copies, doubtful, fresh, extra, broken>>
  BY DEF Delete, IInv, TypeOK, Row, history
<1>2. rcpt' \in [Rcpt -> RcptRow] /\ \A x \in Rcpt : rcpt'[x] = Absent
  BY AbsentType DEF Delete
<1>3. TypeOK'
  BY <1>1, <1>2 DEF IInv, TypeOK
<1>4. Shape' /\ Single' /\ Leaving'
  BY <1>1 DEF IInv, Shape, Single, Leaving, Holds
<1>5. StillListed' /\ ServedOnce' /\ NobodySkipped'
  BY <1>1, <1>2, AbsentType DEF IInv, StillListed, ServedOnce, NobodySkipped, Pending
<1> QED
  BY <1>3, <1>4, <1>5 DEF IInv

LEMMA SendReadStep ==
  ASSUME IInv, NEW h \in Req, SendRead(h)
  PROVE  IInv'
<1>1. /\ req[h].pc = "idle" /\ campaign.exists
      /\ req' = [req EXCEPT ![h] = [pc |-> "start", todo |-> Pending, cur |-> "none"]]
      /\ fresh' = fresh \ Pending
      /\ doubtful' = doubtful \union {x \in Pending : \E g \in Req : x \in Holds(g)}
      /\ UNCHANGED <<campaign, rcpt, faults, copies, extra, broken>>
  BY DEF Enter, SendRead
<1>2. Pending \in SUBSET Rcpt /\ "start" \in PC /\ "none" \in Rcpt \union {"none"}
      /\ req \in [Req -> Local] /\ "none" \notin Pending
  BY CampaignAssumption DEF Pending, PC, IInv, TypeOK
<1>3. /\ req' \in [Req -> Local]
      /\ req'[h].pc = "start" /\ req'[h].todo = Pending /\ req'[h].cur = "none"
      /\ Holds(h)' = Pending
      /\ \A g \in Req \ {h} : req'[g] = req[g] /\ Holds(g)' = Holds(g)
  <2> DEFINE l == [pc |-> "start", todo |-> Pending, cur |-> "none"]
  <2>1. /\ l \in Local
        /\ l.pc = "start" /\ l.todo = Pending /\ l.cur = "none"
    BY <1>1, <1>2 DEF Local
  <2>2. req' = [req EXCEPT ![h] = l]
    BY <1>1, <1>2
  <2> HIDE DEF l
  <2> QED
    BY <1>1, <1>2, <2>1, <2>2 DEF Holds
<1>4. Holds(h) = {}
  BY <1>1 DEF IInv, Shape, Holds
<1>5. TypeOK'
  BY <1>1, <1>2, <1>3 DEF IInv, TypeOK
<1>6. Shape' /\ Leaving'
  BY <1>1, <1>2, <1>3 DEF IInv, Shape, Leaving
<1>7. StillListed'
  BY <1>1, <1>3 DEF IInv, StillListed, Pending
<1>8. Single'
  BY <1>1, <1>3 DEF IInv, Single
<1>9. ServedOnce'
  <2> SUFFICES ASSUME NEW x \in Rcpt \ doubtful', copies[x] # 0
               PROVE  /\ copies[x] = 1
                      /\ \A g \in Req : x \notin req'[g].todo
                      /\ rcpt[x].status = "pending" =>
                           \E g \in Req : req'[g].cur = x
    BY <1>1 DEF ServedOnce
  <2>1. /\ copies[x] = 1 /\ \A g \in Req : x \notin req[g].todo
        /\ rcpt[x].status = "pending" => \E g \in Req : req[g].cur = x
    BY <1>1 DEF IInv, ServedOnce
  <2>2. rcpt[x].status # "pending"
    <3>1. SUFFICES ASSUME rcpt[x].status = "pending" PROVE FALSE
      OBVIOUS
    <3>2. PICK g \in Req : req[g].cur = x
      BY <2>1, <3>1
    <3>3. x \in Holds(g) /\ x \in Pending
      BY <3>1, <3>2, CampaignAssumption DEF Holds, Pending
    <3> QED
      BY <1>1, <3>3
  <2> QED
    BY <1>3, <2>1, <2>2 DEF Pending
<1>10. NobodySkipped'
  BY <1>1, <1>3, <1>4 DEF IInv, NobodySkipped, Pending
<1> QED
  BY <1>5, <1>6, <1>7, <1>8, <1>9, <1>10 DEF IInv

\* A send that ends with an error lets go of its recipients.
LEMMA ThrowStep ==
  ASSUME IInv, NEW h \in Req, Throw(h)
  PROVE  IInv'
<1>1. /\ Answer(h) /\ faults' \in Nat /\ broken' \in BOOLEAN
      /\ doubtful' = doubtful \union Unnoted(h) /\ fresh' = fresh \union Holds(h)
      /\ UNCHANGED <<campaign, rcpt, copies, extra>>
  <2>1. Refused /\ faults \in Nat
    BY DEF Throw, IInv, TypeOK
  <2>2. faults' \in Nat
    BY <2>1 DEF Refused
  <2> QED
    BY <2>2 DEF Throw
<1>2. /\ req' \in [Req -> Local]
      /\ req'[h].pc = "idle" /\ req'[h].todo = {} /\ req'[h].cur = "none" /\ Holds(h)' = {}
      /\ \A g \in Req \ {h} : req'[g] = req[g] /\ Holds(g)' = Holds(g)
  BY <1>1, AnswerMove DEF IInv, TypeOK
<1>3. Unnoted(h) \subseteq Rcpt /\ Holds(h) \subseteq Rcpt
  BY DEF Unnoted, Holds, IInv, TypeOK, Local
<1>4. TypeOK'
  BY <1>1, <1>2, <1>3 DEF IInv, TypeOK
<1>5. Shape' /\ Leaving'
  BY <1>1, <1>2 DEF IInv, Shape, Leaving
<1>6. StillListed' /\ Single'
  BY <1>1, <1>2 DEF IInv, StillListed, Single
<1>7. ServedOnce'
  <2> SUFFICES ASSUME NEW y \in Rcpt \ doubtful', copies[y] # 0
               PROVE  /\ copies[y] = 1
                      /\ \A g \in Req : y \notin req'[g].todo
                      /\ rcpt[y].status = "pending" => \E g \in Req : req'[g].cur = y
    BY <1>1 DEF ServedOnce
  <2>1. /\ copies[y] = 1 /\ \A g \in Req : y \notin req[g].todo
        /\ rcpt[y].status = "pending" => \E g \in Req : req[g].cur = y
    BY <1>1 DEF IInv, ServedOnce
  <2>2. req[h].cur # y
    BY <1>1, <2>1 DEF Unnoted
  <2> QED
    BY <1>2, <2>1, <2>2
<1>8. NobodySkipped'
  BY <1>1, <1>2 DEF IInv, NobodySkipped, Pending
<1> QED
  BY <1>4, <1>5, <1>6, <1>7, <1>8 DEF IInv

LEMMA StartStep ==
  ASSUME IInv, NEW h \in Req, SendStart(h)
  PROVE  IInv'
<1>0. /\ req \in [Req -> Local] /\ req[h].pc = "start" /\ req[h].cur = "none"
      /\ req[h].todo \in SUBSET Rcpt
  BY DEF SendStart, IInv, TypeOK, Shape, Local
<1>1. CASE /\ campaign.exists
           /\ campaign' = [campaign EXCEPT !.status = "sending"]
           /\ Enter(h, "loop", req[h].todo, "none")
           /\ UNCHANGED <<rcpt, history>>
  <2>1. /\ campaign' \in Row /\ campaign'.exists
        /\ req' = [req EXCEPT ![h] = [pc |-> "loop", todo |-> req[h].todo, cur |-> "none"]]
    BY <1>1 DEF Enter, IInv, TypeOK, Row
  <2>u. UNCHANGED <<rcpt, faults, copies, doubtful, fresh, extra, broken>>
    BY <1>1 DEF history
  <2>2. "loop" \in PC /\ "none" \in Rcpt \union {"none"}
    BY DEF PC
  <2>3. /\ req' \in [Req -> Local]
        /\ req'[h].pc = "loop" /\ req'[h].todo = req[h].todo /\ req'[h].cur = "none"
        /\ Holds(h)' = req[h].todo
        /\ \A g \in Req \ {h} : req'[g] = req[g] /\ Holds(g)' = Holds(g)
    <3> DEFINE l == [pc |-> "loop", todo |-> req[h].todo, cur |-> "none"]
    <3>1. /\ l \in Local
          /\ l.pc = "loop" /\ l.todo = req[h].todo /\ l.cur = "none"
      BY <1>0, <2>1, <2>2 DEF Local
    <3>2. req' = [req EXCEPT ![h] = l]
      BY <1>0, <2>1, <2>2
    <3> HIDE DEF l
    <3> QED
      BY <1>0, <2>1, <2>2, <3>1, <3>2 DEF Holds
  <2>4. \A g \in Req : Holds(g)' = Holds(g)
    BY <1>0, <2>u, <2>3 DEF Holds
  <2>5. TypeOK' /\ Shape' /\ Leaving'
    BY <1>0, <2>u, <1>1, <2>1, <2>3 DEF IInv, TypeOK, Shape, Leaving
  <2>6. StillListed' /\ Single'
    BY <1>0, <2>u, <1>1, <2>4 DEF IInv, StillListed, Single
  <2>7. ServedOnce'
    BY <1>0, <2>u, <2>3 DEF IInv, ServedOnce
  <2>8. NobodySkipped'
    BY <1>0, <2>u, <2>4 DEF IInv, NobodySkipped, Pending
  <2> QED
    BY <2>5, <2>6, <2>7, <2>8 DEF IInv
<1>2. CASE Throw(h)
  BY <1>0, <1>2, ThrowStep
<1> QED
  BY <1>1, <1>2 DEF SendStart

LEMMA DeliverStep ==
  ASSUME IInv, NEW h \in Req, NEW x \in Rcpt, Deliver(h, x)
  PROVE  IInv'
<1> DEFINE S == req[h].todo \ {x}
<1>1. /\ req[h].pc = "loop" /\ x \in req[h].todo
      /\ req' = [req EXCEPT ![h] = [pc |-> "mark", todo |-> S, cur |-> x]]
      /\ copies' = [copies EXCEPT ![x] = copies[x] + 1]
      /\ extra' = IF campaign.exists THEN extra ELSE [extra EXCEPT ![h] = extra[h] + 1]
      /\ UNCHANGED <<campaign, rcpt, faults, doubtful, fresh, broken>>
  BY DEF Enter, Deliver
<1>2. S \in SUBSET Rcpt /\ "mark" \in PC /\ x \in Rcpt \union {"none"} /\ req \in [Req -> Local]
      /\ x # "none" /\ x \notin S
  BY CampaignAssumption DEF IInv, TypeOK, Local, PC
<1>3. /\ req' \in [Req -> Local]
      /\ req'[h].pc = "mark" /\ req'[h].todo = S /\ req'[h].cur = x
      /\ Holds(h)' = S \union {x}
      /\ \A g \in Req \ {h} : req'[g] = req[g] /\ Holds(g)' = Holds(g)
  <2> DEFINE l == [pc |-> "mark", todo |-> S, cur |-> x]
  <2>1. /\ l \in Local
        /\ l.pc = "mark" /\ l.todo = S /\ l.cur = x
    BY <1>1, <1>2 DEF Local
  <2>2. req' = [req EXCEPT ![h] = l]
    BY <1>1, <1>2
  <2> HIDE DEF l
  <2>3. /\ req' \in [Req -> Local] /\ req'[h] = l
        /\ \A g \in Req \ {h} : req'[g] = req[g]
    BY <1>2, <2>1, <2>2
  <2> QED
    BY <1>2, <2>1, <2>3 DEF Holds
<1>4. req[h].cur = "none" /\ Holds(h)' = Holds(h)
  BY <1>1, <1>3 DEF IInv, Shape, Holds
<1>5. \A g \in Req : Holds(g)' = Holds(g)
  BY <1>3, <1>4
<1>6. /\ copies \in [Rcpt -> Nat] /\ copies' \in [Rcpt -> Nat] /\ copies'[x] = copies[x] + 1
      /\ \A y \in Rcpt \ {x} : copies'[y] = copies[y]
  BY <1>1 DEF IInv, TypeOK
<1>7. /\ extra[h] = 0 /\ extra' \in [Req -> Nat] /\ extra'[h] \in {0, 1}
      /\ extra'[h] = 1 => ~campaign.exists
      /\ \A g \in Req \ {h} : extra'[g] = extra[g]
  BY <1>1 DEF IInv, TypeOK, Leaving
<1>8. TypeOK'
  BY <1>1, <1>3, <1>6, <1>7 DEF IInv, TypeOK
<1>9. Shape' /\ Leaving'
  BY <1>1, <1>2, <1>3, <1>7 DEF IInv, Shape, Leaving
<1>10. x \in Holds(h)
  BY <1>1 DEF Holds
<1>11. StillListed'
  BY <1>1, <1>5, <1>6, <1>10 DEF IInv, StillListed
<1>12. Single'
  BY <1>1, <1>5 DEF IInv, Single
<1>13. ServedOnce'
  <2> SUFFICES ASSUME NEW y \in Rcpt \ doubtful, copies'[y] # 0
               PROVE  /\ copies'[y] = 1
                      /\ \A g \in Req : y \notin req'[g].todo
                      /\ rcpt[y].status = "pending" =>
                           \E g \in Req : req'[g].cur = y
    BY <1>1 DEF ServedOnce
  <2>1. CASE y = x
    <3>1. copies[x] = 0
      BY <1>1, <2>1 DEF IInv, ServedOnce
    <3>2. \A g \in Req \ {h} : x \notin req[g].todo
      BY <1>10, <2>1 DEF IInv, Single, Holds
    <3> QED
      BY <1>2, <1>3, <1>6, <2>1, <3>1, <3>2
  <2>2. CASE y # x
    <3>1. /\ copies[y] = 1 /\ \A g \in Req : y \notin req[g].todo
          /\ rcpt[y].status = "pending" => \E g \in Req : req[g].cur = y
      BY <1>6, <2>2 DEF IInv, ServedOnce
    <3>2. \A g \in Req : req[g].cur = y => req'[g].cur = y
      BY <1>3, <1>4, CampaignAssumption
    <3>3. \A g \in Req : y \notin req'[g].todo
      BY <1>3, <3>1
    <3> QED
      BY <1>6, <2>2, <3>1, <3>2, <3>3
  <2> QED
    BY <2>1, <2>2
<1>14. NobodySkipped'
  BY <1>1, <1>5 DEF IInv, NobodySkipped, Pending
<1> QED
  BY <1>8, <1>9, <1>11, <1>12, <1>13, <1>14 DEF IInv

LEMMA RefuseStep ==
  ASSUME IInv, NEW h \in Req, NEW x \in Rcpt, Refuse(h, x)
  PROVE  IInv'
<1> DEFINE S == req[h].todo \ {x}
<1>1. /\ req[h].pc = "loop" /\ x \in req[h].todo
      /\ req' = [req EXCEPT ![h] = [pc |-> "markFailed", todo |-> S, cur |-> x]]
      /\ UNCHANGED <<campaign, rcpt, faults, copies, doubtful, fresh, extra, broken>>
  BY DEF Enter, Refuse, history
<1>2. S \in SUBSET Rcpt /\ "markFailed" \in PC /\ x \in Rcpt \union {"none"}
      /\ req \in [Req -> Local] /\ x # "none" /\ x \notin S
  BY CampaignAssumption DEF IInv, TypeOK, Local, PC
<1>3. /\ req' \in [Req -> Local]
      /\ req'[h].pc = "markFailed" /\ req'[h].todo = S /\ req'[h].cur = x
      /\ Holds(h)' = S \union {x}
      /\ \A g \in Req \ {h} : req'[g] = req[g] /\ Holds(g)' = Holds(g)
  <2> DEFINE l == [pc |-> "markFailed", todo |-> S, cur |-> x]
  <2>1. /\ l \in Local
        /\ l.pc = "markFailed" /\ l.todo = S /\ l.cur = x
    BY <1>1, <1>2 DEF Local
  <2>2. req' = [req EXCEPT ![h] = l]
    BY <1>1, <1>2
  <2> HIDE DEF l
  <2> QED
    BY <1>1, <1>2, <2>1, <2>2 DEF Holds
<1>4. \A g \in Req : Holds(g)' = Holds(g)
  BY <1>1, <1>3 DEF IInv, Shape, Holds
<1>5. TypeOK'
  BY <1>1, <1>3 DEF IInv, TypeOK
<1>6. Shape' /\ Leaving'
  BY <1>1, <1>2, <1>3 DEF IInv, Shape, Leaving
<1>7. StillListed' /\ Single'
  BY <1>1, <1>4 DEF IInv, StillListed, Single
<1>8. ServedOnce'
  <2>1. \A y \in Rcpt, g \in Req : req[g].cur = y => req'[g].cur = y
    BY <1>1, <1>3, CampaignAssumption DEF IInv, Shape
  <2>2. \A g \in Req : req'[g].todo \subseteq req[g].todo
    BY <1>3
  <2> QED
    BY <1>1, <2>1, <2>2 DEF IInv, ServedOnce
<1>9. NobodySkipped'
  BY <1>1, <1>4 DEF IInv, NobodySkipped, Pending
<1> QED
  BY <1>5, <1>6, <1>7, <1>8, <1>9 DEF IInv

\* A recipient is marked and the loop goes on.
LEMMA MarkedStep ==
  ASSUME IInv, NEW h \in Req, campaign.exists, req[h].pc \in {"mark", "markFailed"},
         NEW s \in {"sent", "failed"}, NEW a \in BOOLEAN, NEW o \in BOOLEAN,
         rcpt' = [rcpt EXCEPT ![req[h].cur] = [status |-> s, sentAt |-> a, openedAt |-> o]],
         req' = [req EXCEPT ![h] = [pc |-> "loop", todo |-> req[h].todo, cur |-> "none"]],
         UNCHANGED <<campaign, faults, copies, doubtful, fresh, extra, broken>>
  PROVE  IInv'
<1> DEFINE x == req[h].cur
<1>1. /\ req[h].todo \in SUBSET Rcpt /\ "loop" \in PC /\ "none" \in Rcpt \union {"none"}
      /\ req \in [Req -> Local] /\ x \in Rcpt /\ x \notin req[h].todo /\ s \in Status
  BY DEF IInv, TypeOK, Shape, Local, PC, Status
<1>2. /\ req' \in [Req -> Local]
      /\ req'[h].pc = "loop" /\ req'[h].todo = req[h].todo /\ req'[h].cur = "none"
      /\ Holds(h)' = req[h].todo
      /\ \A g \in Req \ {h} : req'[g] = req[g] /\ Holds(g)' = Holds(g)
  <2> DEFINE l == [pc |-> "loop", todo |-> req[h].todo, cur |-> "none"]
  <2>1. /\ l \in Local
        /\ l.pc = "loop" /\ l.todo = req[h].todo /\ l.cur = "none"
    BY <1>1 DEF Local
  <2>2. req' = [req EXCEPT ![h] = l]
    BY <1>1
  <2> HIDE DEF l
  <2> QED
    BY <1>1, <2>1, <2>2 DEF Holds
<1>3. \A g \in Req : Holds(g)' \subseteq Holds(g)
  BY <1>2 DEF Holds
<1>4. Holds(h) = Holds(h)' \union {x}
  BY <1>1, <1>2, CampaignAssumption DEF Holds
<1> HIDE DEF x
<1>5. /\ rcpt' \in [Rcpt -> RcptRow] /\ rcpt'[x].status = s
      /\ \A y \in Rcpt \ {x} : rcpt'[y] = rcpt[y]
  BY <1>1, RowMove DEF IInv, x
<1>6. TypeOK'
  BY <1>1, <1>2, <1>5 DEF IInv, TypeOK
<1>7. Shape' /\ Leaving'
  BY <1>1, <1>2, CampaignAssumption DEF IInv, Shape, Leaving
<1>8. StillListed'
  BY <1>3, <1>5 DEF IInv, StillListed
<1>9. Single'
  BY <1>3 DEF IInv, Single
<1>10. ServedOnce'
  <2> SUFFICES ASSUME NEW y \in Rcpt \ doubtful, copies[y] # 0
               PROVE  /\ copies[y] = 1
                      /\ \A g \in Req : y \notin req'[g].todo
                      /\ rcpt'[y].status = "pending" =>
                           \E g \in Req : req'[g].cur = y
    BY DEF ServedOnce
  <2>1. /\ copies[y] = 1 /\ \A g \in Req : y \notin req[g].todo
        /\ rcpt[y].status = "pending" => \E g \in Req : req[g].cur = y
    BY DEF IInv, ServedOnce
  <2>2. \A g \in Req : y \notin req'[g].todo
    BY <1>2, <2>1
  <2>3. CASE y = x
    BY <1>5, <2>1, <2>2, <2>3
  <2>4. CASE y # x
    BY <1>2, <1>5, <2>1, <2>2, <2>4 DEF x
  <2> QED
    BY <2>3, <2>4
<1>11. NobodySkipped'
  <2> SUFFICES ASSUME NEW y \in Pending' PROVE y \in fresh' \/ \E g \in Req : y \in Holds(g)'
    BY DEF NobodySkipped
  <2>1. y \in Pending /\ y # x /\ y \in Rcpt
    BY <1>5 DEF Pending
  <2>2. y \in fresh \/ \E g \in Req : y \in Holds(g)
    BY <2>1 DEF IInv, NobodySkipped
  <2> QED
    BY <1>2, <1>4, <2>1, <2>2
<1> QED
  BY <1>6, <1>7, <1>8, <1>9, <1>10, <1>11 DEF IInv

LEMMA MarkStep ==
  ASSUME IInv, NEW h \in Req, Mark(h)
  PROVE  IInv'
<1>0. /\ req \in [Req -> Local] /\ req[h].pc = "mark" /\ req[h].cur \in Rcpt
      /\ req[h].todo \in SUBSET Rcpt /\ req[h].cur \notin req[h].todo
      /\ UNCHANGED <<campaign, copies, doubtful, fresh, extra, broken>>
  BY DEF Mark, IInv, TypeOK, Shape, Local
<1>1. CASE /\ campaign.exists
           /\ SetRow(req[h].cur, "sent", TRUE, rcpt[req[h].cur].openedAt)
           /\ Enter(h, "loop", req[h].todo, "none")
           /\ UNCHANGED faults
  <2> DEFINE row == rcpt[req[h].cur]
  <2>1. row \in RcptRow
    BY <1>0 DEF IInv, TypeOK
  <2>2. row.openedAt \in BOOLEAN
    BY <2>1 DEF RcptRow
  <2>3. /\ rcpt' = [rcpt EXCEPT ![req[h].cur] =
                      [status |-> "sent", sentAt |-> TRUE, openedAt |-> row.openedAt]]
        /\ req' = [req EXCEPT ![h] = [pc |-> "loop", todo |-> req[h].todo, cur |-> "none"]]
    BY <1>1 DEF Enter, SetRow
  <2> HIDE DEF row
  <2> QED
    BY <1>0, <1>1, <2>2, <2>3, MarkedStep
<1>2. CASE /\ Refused
           /\ Enter(h, "markFailed", req[h].todo, req[h].cur)
           /\ UNCHANGED rcpt
  <2>1. /\ rcpt' = rcpt
        /\ req' = [req EXCEPT ![h] = [pc |-> "markFailed", todo |-> req[h].todo, cur |-> req[h].cur]]
    BY <1>2 DEF Enter
  <2>2. "markFailed" \in PC /\ req[h].cur \in Rcpt \union {"none"}
    BY <1>0 DEF PC
  <2>f. faults' \in Nat
    BY <1>2 DEF Refused, IInv, TypeOK
  <2>3. /\ req' \in [Req -> Local]
        /\ req'[h].pc = "markFailed" /\ req'[h].todo = req[h].todo /\ req'[h].cur = req[h].cur
        /\ Holds(h)' = req[h].todo \union ({req[h].cur} \ {"none"})
        /\ \A g \in Req \ {h} : req'[g] = req[g] /\ Holds(g)' = Holds(g)
    <3> DEFINE l == [pc |-> "markFailed", todo |-> req[h].todo, cur |-> req[h].cur]
    <3>1. /\ l \in Local
          /\ l.pc = "markFailed" /\ l.todo = req[h].todo /\ l.cur = req[h].cur
      BY <1>0, <2>1, <2>2 DEF Local
    <3>2. req' = [req EXCEPT ![h] = l]
      BY <1>0, <2>1, <2>2
    <3> HIDE DEF l
    <3> QED
      BY <1>0, <2>1, <2>2, <3>1, <3>2 DEF Holds
  <2>4. \A g \in Req : Holds(g)' = Holds(g) /\ req'[g].cur = req[g].cur
    BY <2>3 DEF Holds
  <2>6. TypeOK'
    BY <1>0, <2>1, <2>f, <2>3 DEF IInv, TypeOK
  <2>7. Shape' /\ Leaving'
    BY <1>0, <2>3, CampaignAssumption DEF IInv, Shape, Leaving
  <2>8. StillListed' /\ Single' /\ NobodySkipped'
    BY <1>0, <2>1, <2>4 DEF IInv, StillListed, Single, NobodySkipped, Pending
  <2>9. ServedOnce'
    BY <1>0, <2>1, <2>3, <2>4 DEF IInv, ServedOnce
  <2> QED
    BY <2>6, <2>7, <2>8, <2>9 DEF IInv
<1> QED
  BY <1>1, <1>2 DEF Mark

LEMMA MarkFailedStep ==
  ASSUME IInv, NEW h \in Req, MarkFailed(h)
  PROVE  IInv'
<1>0. req \in [Req -> Local] /\ req[h].pc = "markFailed" /\ req[h].cur \in Rcpt
  BY DEF MarkFailed, IInv, TypeOK, Shape, Local
<1>1. CASE /\ campaign.exists
           /\ SetRow(req[h].cur, "failed", rcpt[req[h].cur].sentAt, rcpt[req[h].cur].openedAt)
           /\ Enter(h, "loop", req[h].todo, "none")
           /\ UNCHANGED <<campaign, history>>
  <2> DEFINE row == rcpt[req[h].cur]
  <2>1. row \in RcptRow
    BY <1>0 DEF IInv, TypeOK
  <2>2. row.openedAt \in BOOLEAN /\ row.sentAt \in BOOLEAN
    BY <2>1 DEF RcptRow
  <2>3. /\ rcpt' = [rcpt EXCEPT ![req[h].cur] =
                      [status |-> "failed", sentAt |-> row.sentAt, openedAt |-> row.openedAt]]
        /\ req' = [req EXCEPT ![h] = [pc |-> "loop", todo |-> req[h].todo, cur |-> "none"]]
    BY <1>1 DEF Enter, SetRow
  <2>4. UNCHANGED <<campaign, faults, copies, doubtful, fresh, extra, broken>>
    BY <1>1 DEF history
  <2> HIDE DEF row
  <2> QED
    BY <1>0, <1>1, <2>2, <2>3, <2>4, MarkedStep
<1>2. CASE Throw(h)
  BY <1>2, ThrowStep
<1> QED
  BY <1>1, <1>2 DEF MarkFailed

LEMMA FinishStep ==
  ASSUME IInv, NEW h \in Req, Finish(h)
  PROVE  IInv'
<1>a. CASE Throw(h)
  BY <1>a, ThrowStep
<1>b. CASE /\ campaign.exists
           /\ campaign' = [campaign EXCEPT !.status = "sent"]
           /\ Answer(h)
           /\ UNCHANGED <<rcpt, history>>
  <2>1. /\ req \in [Req -> Local] /\ req[h].pc = "loop" /\ req[h].todo = {} /\ Answer(h)
        /\ campaign' \in Row /\ campaign'.exists = campaign.exists
        /\ UNCHANGED <<rcpt, faults, copies, doubtful, fresh, extra, broken>>
    BY <1>b DEF Finish, history, IInv, TypeOK, Row
  <2>2. /\ req' \in [Req -> Local]
        /\ req'[h].pc = "idle" /\ req'[h].todo = {} /\ req'[h].cur = "none" /\ Holds(h)' = {}
        /\ \A g \in Req \ {h} : req'[g] = req[g] /\ Holds(g)' = Holds(g)
    BY <2>1, AnswerMove
  <2>3. req[h].cur = "none" /\ \A g \in Req : Holds(g)' = Holds(g)
    BY <2>1, <2>2 DEF IInv, Shape, Holds
  <2>4. TypeOK' /\ Shape' /\ Leaving'
    BY <2>1, <2>2 DEF IInv, TypeOK, Shape, Leaving
  <2>5. StillListed' /\ Single'
    BY <2>1, <2>3 DEF IInv, StillListed, Single
  <2>6. ServedOnce'
    BY <2>1, <2>2, <2>3 DEF IInv, ServedOnce
  <2>7. NobodySkipped'
    BY <2>1, <2>3 DEF IInv, NobodySkipped, Pending
  <2> QED
    BY <2>4, <2>5, <2>6, <2>7 DEF IInv
<1> QED
  BY <1>a, <1>b DEF Finish

LEMMA OpenStep ==
  ASSUME IInv, NEW x \in Rcpt, Open(x)
  PROVE  IInv'
<1> DEFINE row == rcpt[x]
<1>1. row \in RcptRow /\ row.status # "absent"
  BY DEF IInv, TypeOK, Open
<1>2. row.sentAt \in BOOLEAN
  BY <1>1 DEF RcptRow
<1>3. UNCHANGED <<campaign, req, faults, copies, doubtful, fresh, extra, broken>>
  BY DEF Open, history
<1>4. rcpt' = [rcpt EXCEPT ![x] = [status |-> "opened", sentAt |-> row.sentAt, openedAt |-> TRUE]]
  BY DEF Open, SetRow
<1>5. campaign.exists
  BY <1>1, AbsentType DEF IInv, TypeOK
<1> HIDE DEF row
<1>6. "opened" \in Status /\ TRUE \in BOOLEAN
  BY DEF Status
<1>7. /\ rcpt' \in [Rcpt -> RcptRow] /\ rcpt'[x].status = "opened"
      /\ \A y \in Rcpt \ {x} : rcpt'[y] = rcpt[y]
  BY <1>2, <1>4, <1>6, RowMove DEF IInv
<1>8. \A g \in Req : Holds(g)' = Holds(g)
  BY <1>3 DEF Holds
<1>9. TypeOK'
  BY <1>3, <1>5, <1>7 DEF IInv, TypeOK
<1>10. Shape' /\ Single' /\ Leaving'
  BY <1>3, <1>8 DEF IInv, Shape, Single, Leaving
<1>11. StillListed'
  BY <1>3, <1>7, <1>8 DEF IInv, StillListed
<1>12. ServedOnce'
  BY <1>3, <1>7 DEF IInv, ServedOnce
<1>13. NobodySkipped'
  BY <1>3, <1>7, <1>8 DEF IInv, NobodySkipped, Pending
<1> QED
  BY <1>9, <1>10, <1>11, <1>12, <1>13 DEF IInv

LEMMA CrashStep ==
  ASSUME IInv, Crash
  PROVE  IInv'
<1>1. /\ req' = [h \in Req |-> Idle] /\ faults' = faults + 1 /\ broken' \in BOOLEAN
      /\ doubtful' = doubtful \union UNION {Unnoted(h) : h \in Req}
      /\ fresh' = fresh \union UNION {Holds(h) : h \in Req}
      /\ UNCHANGED <<campaign, rcpt, copies, extra>>
  BY DEF Crash
<1>2. /\ req' \in [Req -> Local]
      /\ \A h \in Req : /\ req'[h].pc = "idle" /\ req'[h].todo = {} /\ req'[h].cur = "none"
                        /\ Holds(h)' = {}
  BY <1>1, IdleType DEF Holds
<1>3. TypeOK'
  <2>1. \A h \in Req : Unnoted(h) \subseteq Rcpt /\ Holds(h) \subseteq Rcpt
    BY DEF Unnoted, Holds, IInv, TypeOK, Local
  <2> QED
    BY <1>1, <1>2, <2>1 DEF IInv, TypeOK
<1>4. Shape' /\ Leaving' /\ Single' /\ StillListed'
  BY <1>1, <1>2 DEF IInv, Shape, Leaving, Single, StillListed
<1>5. ServedOnce'
  <2> SUFFICES ASSUME NEW y \in Rcpt \ doubtful', copies[y] # 0
               PROVE  /\ copies[y] = 1
                      /\ \A g \in Req : y \notin req'[g].todo
                      /\ rcpt[y].status # "pending"
    BY <1>1 DEF ServedOnce
  <2>1. /\ copies[y] = 1
        /\ rcpt[y].status = "pending" => \E g \in Req : req[g].cur = y
    BY <1>1 DEF IInv, ServedOnce
  <2>2. \A g \in Req : req[g].cur # y
    BY <1>1, <2>1 DEF Unnoted
  <2> QED
    BY <1>2, <2>1, <2>2
<1>6. NobodySkipped'
  BY <1>1 DEF IInv, NobodySkipped, Pending
<1> QED
  BY <1>3, <1>4, <1>5, <1>6 DEF IInv

-----------------------------------------------------------------------------

LEMMA StepIInv == IInv /\ [Next]_vars => IInv'
<1> SUFFICES ASSUME IInv, [Next]_vars PROVE IInv'
  OBVIOUS
<1>1. CASE Next
  <2>1. ASSUME NEW h \in Req, SendRead(h) \/ Continue(h) PROVE IInv'
    BY <2>1, SendReadStep, StartStep, DeliverStep, RefuseStep, MarkStep, MarkFailedStep, FinishStep
       DEF Continue
  <2> QED
    BY <1>1, <2>1, ImportStep, DeleteStep, OpenStep, CrashStep DEF Next
<1>2. CASE UNCHANGED vars
  BY <1>2 DEF vars, IInv, TypeOK, Shape, StillListed, Single, ServedOnce, Leaving, NobodySkipped, Holds, Pending
<1> QED
  BY <1>1, <1>2

LEMMA Invariance == Spec => []IInv
<1> QED
  BY InitIInv, StepIInv, PTL DEF Spec

\* Rows and handlers have their types, and a campaign that is gone has no
\* recipients.
THEOREM TypeCorrect == Spec => []TypeOK
<1>1. IInv => TypeOK
  BY DEF IInv
<1> QED
  BY <1>1, Invariance, PTL

\* A recipient gets at most one letter, whichever updates fail, unless two
\* sends held the recipient at the same time, or the send died between the
\* letter and its note.
THEOREM AtMostOneLetter == Spec => []SentOnce
<1>1. IInv => SentOnce
  <2> SUFFICES ASSUME IInv, NEW x \in Rcpt \ doubtful PROVE copies[x] <= 1
    BY DEF SentOnce
  <2>1. copies[x] \in {0, 1}
    BY DEF IInv, TypeOK, ServedOnce
  <2> QED
    BY <2>1
<1> QED
  BY <1>1, Invariance, PTL

\* No pending recipient is passed over by a send.
THEOREM EveryoneServed == Spec => []NobodySkipped
<1>1. IInv => NobodySkipped
  BY DEF IInv
<1> QED
  BY <1>1, Invariance, PTL

\* After the deletion of its campaign a send sends at most one more letter.
THEOREM DeletionStops == Spec => []DeleteStops
<1>1. IInv => DeleteStops
  BY DEF IInv, TypeOK, Leaving, DeleteStops
<1> QED
  BY <1>1, Invariance, PTL

-----------------------------------------------------------------------------
(***************************************************************************)
(* MailImport.                                                             *)
(***************************************************************************)

\* The ranks of the places where a source folder holds a message.
Ranks(s) == UNION {1 .. Cardinality(Held(b, s)) : b \in DOMAIN Boxes}
Rank(b, s, i) == Cardinality({j \in Held(b, s) : j <= i})

\* The runs that copy a folder and did not find s in the destination, and where
\* they have s still before them.
Unaware(s) == {r \in Busy : pos[r] > 0 /\ s \notin existing[r]}
Ahead(s) ==
  {x \in Run \X Nat : x[1] \in Unaware(s) /\ box[x[1]] \in DOMAIN Boxes
                      /\ x[2] \in Held(box[x[1]], s) /\ x[2] >= pos[x[1]]}

\* Once a message is in the destination, every copy that is made and may still
\* be is one of those a run may make that read before.
ImportInv ==
  /\ ImportType
  /\ \A r \in Run : pos[r] > 0 => box[r] \in DOMAIN Boxes
  /\ IsFiniteSet(Busy) /\ IsFiniteSet(met)
  /\ Busy \subseteq met \/ \E r \in Run : Busy \subseteq {r}
  /\ \A s \in Source \ NoId : appended[s] > 0 =>
       appended[s] + Cardinality(Ahead(s)) <= Times(s) * (Abreast + blind)

LEMMA HeldFinite ==
  ASSUME NEW b \in DOMAIN Boxes, NEW s
  PROVE  /\ Held(b, s) \subseteq Nat /\ IsFiniteSet(Held(b, s)) /\ Cardinality(Held(b, s)) \in Nat
<1>1. Boxes[b] \in Seq(Source)
  BY MailImportAssumption
<1>2. DOMAIN Boxes[b] = 1 .. Len(Boxes[b]) /\ Len(Boxes[b]) \in Nat
  BY <1>1
<1>3. IsFiniteSet(1 .. Len(Boxes[b]))
  BY <1>2, FS_Interval
<1>4. Held(b, s) \in SUBSET (1 .. Len(Boxes[b]))
  BY <1>2 DEF Held
<1>5. IsFiniteSet(Held(b, s))
  BY <1>3, <1>4, FS_Subset
<1> QED
  BY <1>4, <1>5, FS_CardinalityType

LEMMA RanksFinite ==
  ASSUME NEW s
  PROVE  /\ IsFiniteSet(Ranks(s)) /\ Times(s) = Cardinality(Ranks(s)) /\ Times(s) \in Nat
<1> DEFINE Upto == {1 .. Cardinality(Held(b, s)) : b \in DOMAIN Boxes}
           f == [b \in DOMAIN Boxes |-> 1 .. Cardinality(Held(b, s))]
<1>1. DOMAIN Boxes = 1 .. Len(Boxes) /\ Len(Boxes) \in Nat
  BY MailImportAssumption
<1>2. IsFiniteSet(DOMAIN Boxes)
  BY <1>1, FS_Interval
<1>3. f \in Surjection(DOMAIN Boxes, Upto)
  BY DEF Surjection
<1>4. IsFiniteSet(Upto)
  <2> HIDE DEF f, Upto
  <2> QED
    BY <1>2, <1>3, FS_Surjection
<1>5. \A T \in Upto : IsFiniteSet(T)
  BY HeldFinite, FS_Interval
<1>6. IsFiniteSet(Ranks(s))
  <2> HIDE DEF Upto
  <2>1. IsFiniteSet(UNION Upto)
    BY <1>4, <1>5, FS_UNION
  <2> QED
    BY <2>1 DEF Ranks, Upto
<1> QED
  BY <1>6, FS_CardinalityType DEF Times, Ranks

LEMMA RankType ==
  ASSUME NEW s, NEW b \in DOMAIN Boxes, NEW i \in Held(b, s)
  PROVE  /\ Rank(b, s, i) \in Ranks(s) /\ Rank(b, s, i) \in Nat
<1> DEFINE below == {j \in Held(b, s) : j <= i}
<1>1. below \in SUBSET Held(b, s) /\ i \in below
  BY HeldFinite
<1> HIDE DEF below
<1>2. IsFiniteSet(below) /\ Cardinality(below) <= Cardinality(Held(b, s))
  BY <1>1, HeldFinite, FS_Subset
<1>3. Cardinality(below) \in Nat /\ Cardinality(below) # 0
  BY <1>1, <1>2, FS_CardinalityType, FS_EmptySet
<1>4. Cardinality(below) \in 1 .. Cardinality(Held(b, s))
  BY <1>2, <1>3, HeldFinite
<1> QED
  BY <1>3, <1>4 DEF below, Rank, Ranks

LEMMA RankGrows ==
  ASSUME NEW s, NEW b \in DOMAIN Boxes, NEW i \in Held(b, s), NEW j \in Held(b, s), i < j
  PROVE  Rank(b, s, i) # Rank(b, s, j)
<1> DEFINE below(k) == {l \in Held(b, s) : l <= k}
<1>1. below(i) \in SUBSET below(j) /\ below(j) \in SUBSET Held(b, s) /\ j \in below(j) /\ j \notin below(i)
  BY HeldFinite
<1> HIDE DEF below
<1>2. IsFiniteSet(below(j))
  BY <1>1, HeldFinite, FS_Subset
<1>3. Cardinality(below(i)) # Cardinality(below(j))
  BY <1>1, <1>2, FS_Subset
<1> QED
  BY <1>3 DEF below, Rank

\* Every one that reads adds as many copies as one folder holds, at most.
LEMMA AheadBounded ==
  ASSUME NEW s, ImportType, IsFiniteSet(Busy)
  PROVE  /\ IsFiniteSet(Ahead(s)) /\ Cardinality(Ahead(s)) \in Nat
         /\ IsFiniteSet(Unaware(s)) /\ Cardinality(Unaware(s)) \in Nat
         /\ Cardinality(Ahead(s)) <= Cardinality(Unaware(s)) * Times(s)
<1> DEFINE f == [x \in Ahead(s) |-> <<x[1], Rank(box[x[1]], s, x[2])>>]
<1>1. Unaware(s) \in SUBSET Busy
  BY DEF Unaware
<1>2. IsFiniteSet(Unaware(s)) /\ Cardinality(Unaware(s)) \in Nat
  BY <1>1, FS_Subset, FS_CardinalityType
<1>3. /\ IsFiniteSet(Unaware(s) \X Ranks(s))
      /\ Cardinality(Unaware(s) \X Ranks(s)) = Cardinality(Unaware(s)) * Times(s)
  BY <1>2, RanksFinite, FS_Product
<1>4. f \in [Ahead(s) -> Unaware(s) \X Ranks(s)]
  BY RankType DEF Ahead
<1>5. ASSUME NEW x \in Ahead(s), NEW y \in Ahead(s), f[x] = f[y] PROVE x = y
  <2>1. x = <<x[1], x[2]>> /\ y = <<y[1], y[2]>> /\ x[2] \in Nat /\ y[2] \in Nat
    BY DEF Ahead
  <2>2. x[1] = y[1] /\ Rank(box[x[1]], s, x[2]) = Rank(box[x[1]], s, y[2])
    BY <1>5
  <2>3. x[2] \in Held(box[x[1]], s) /\ y[2] \in Held(box[x[1]], s) /\ box[x[1]] \in DOMAIN Boxes
    BY <2>2 DEF Ahead
  <2>4. x[2] = y[2]
    BY <2>1, <2>2, <2>3, RankGrows
  <2> QED
    BY <2>1, <2>2, <2>4
<1>6. f \in Injection(Ahead(s), Unaware(s) \X Ranks(s))
  <2> HIDE DEF f
  <2> QED
    BY <1>4, <1>5 DEF Injection, IsInjective
<1>7. IsFiniteSet(Ahead(s)) /\ Cardinality(Ahead(s)) <= Cardinality(Unaware(s) \X Ranks(s))
  <2> HIDE DEF f
  <2> QED
    BY <1>3, <1>6, FS_Injection
<1> QED
  BY <1>2, <1>3, <1>7, FS_CardinalityType

LEMMA AbreastType ==
  ASSUME IsFiniteSet(met), IsFiniteSet(Busy), Busy \subseteq met \/ \E r \in Run : Busy \subseteq {r}
  PROVE  Abreast \in Nat \ {0} /\ Cardinality(Busy) \in Nat /\ Cardinality(Busy) <= Abreast
<1>1. Cardinality(met) \in Nat /\ (met # {} => Cardinality(met) # 0) /\ Cardinality(Busy) \in Nat
  BY FS_CardinalityType, FS_EmptySet
<1>2. CASE Busy \subseteq met
  <2>1. Cardinality(Busy) <= Cardinality(met)
    BY <1>2, FS_Subset
  <2>2. met = {} => Cardinality(Busy) = 0
    BY <1>2, FS_EmptySet
  <2> QED
    BY <1>1, <2>1, <2>2 DEF Abreast
<1>3. CASE \E r \in Run : Busy \subseteq {r}
  <2>1. PICK r \in Run : Busy \in SUBSET {r}
    BY <1>3
  <2>2. Cardinality(Busy) <= 1
    <3>1. IsFiniteSet({r}) /\ Cardinality({r}) = 1
      BY FS_Singleton
    <3> QED
      BY <2>1, <3>1, FS_Subset
  <2> QED
    BY <1>1, <2>2 DEF Abreast
<1> QED
  BY <1>2, <1>3

\* More runs that overlap allow more copies.
LEMMA AbreastGrows ==
  ASSUME IsFiniteSet(met'), met \subseteq met'
  PROVE  Abreast \in Nat /\ Abreast' \in Nat /\ Abreast <= Abreast'
<1>1. IsFiniteSet(met) /\ Cardinality(met) <= Cardinality(met')
  BY FS_Subset
<1>2. Cardinality(met) \in Nat /\ Cardinality(met') \in Nat /\ (met' # {} => Cardinality(met') # 0)
  BY <1>1, FS_CardinalityType, FS_EmptySet
<1> QED
  BY <1>1, <1>2 DEF Abreast

LEMMA ImportFirst == ImportInit => ImportInv
<1> SUFFICES ASSUME ImportInit PROVE ImportInv
  OBVIOUS
<1>1. Busy = {} /\ met = {}
  BY DEF ImportInit, Busy
<1>2. IsFiniteSet({})
  BY FS_EmptySet
<1> QED
  BY <1>1, <1>2 DEF ImportInit, ImportInv, ImportType

\* Runs that start, read, copy and end.
LEMMA BusyNext ==
  ASSUME ImportInv, NEW r \in Run,
         ImportStart(r) \/ ReadExisting(r) \/ CopyMessage(r) \/ NextBox(r) \/ ImportEnd(r)
  PROVE  /\ ImportType' /\ \A q \in Run : pos'[q] > 0 => box'[q] \in DOMAIN Boxes
         /\ IsFiniteSet(Busy') /\ IsFiniteSet(met') /\ met \subseteq met'
         /\ Busy' \subseteq met' \/ \E q \in Run : Busy' \subseteq {q}
<1> USE DEF ImportInv
<1>d. DOMAIN Boxes = 1 .. Len(Boxes) /\ Len(Boxes) \in Nat
  BY MailImportAssumption
<1>1. CASE ImportStart(r)
  <2>1. box' = [box EXCEPT ![r] = 1] /\ done' = done /\ box \in [Run -> Nat]
    BY <1>1 DEF ImportStart, ImportType
  <2>2. Busy' = Busy \union {r}
    BY <1>1, <2>1 DEF Busy, ImportStart
  <2>3. IsFiniteSet(Busy')
    BY <2>2, FS_AddElement
  <2>4. IsFiniteSet(met \union Busy \union {r})
    BY FS_Union, FS_AddElement
  <2>5. ImportType'
    BY <1>1 DEF ImportType, ImportStart, Busy
  <2>6. \A q \in Run : pos'[q] > 0 => box'[q] \in DOMAIN Boxes
    BY <1>1, <1>d DEF ImportStart, ImportType
  <2>7. IsFiniteSet(met') /\ met \subseteq met'
    BY <1>1, <2>4 DEF ImportStart
  <2>8. Busy' \subseteq met' \/ Busy' \subseteq {r}
    BY <1>1, <2>2 DEF ImportStart
  <2> QED
    BY <2>3, <2>5, <2>6, <2>7, <2>8
<1>2. CASE ReadExisting(r) \/ CopyMessage(r) \/ NextBox(r) \/ ImportEnd(r)
  <2>1. ImportType' /\ met' = met /\ \A q \in Run : pos'[q] > 0 => box'[q] \in DOMAIN Boxes
    <3>1. Identified \subseteq Source
      BY DEF Identified
    <3>2. CASE ReadExisting(r)
      <4>1. existing' \in [Run -> SUBSET Source] /\ blind' \in Nat
        BY <3>1, <3>2 DEF ImportType, ReadExisting, Known
      <4>2. box[r] \in DOMAIN Boxes
        BY <3>2, <1>d DEF ImportType, ReadExisting, Busy
      <4>3. pos' = [pos EXCEPT ![r] = 1] /\ UNCHANGED <<box, appended, met, done>>
        BY <3>2 DEF ReadExisting
      <4> QED
        BY <4>1, <4>2, <4>3 DEF ImportType
    <3>3. CASE CopyMessage(r)
      <4>1. box[r] \in DOMAIN Boxes /\ pos[r] \in Nat \ {0} /\ pos[r] <= Len(Boxes[box[r]])
        BY <3>3 DEF CopyMessage, Reading, ImportType
      <4>2. Boxes[box[r]] \in Seq(Source)
        BY <4>1, MailImportAssumption
      <4>3. Current(r) \in Source
        BY <4>1, <4>2 DEF Current
      <4>4. appended' \in [Source -> Nat]
        <5>1. appended \in [Source -> Nat]
          BY DEF ImportType
        <5>2. appended' = appended \/ appended' = [appended EXCEPT ![Current(r)] = @ + 1]
          BY <3>3 DEF CopyMessage
        <5> HIDE DEF Current
        <5> QED
          BY <4>3, <5>1, <5>2
      <4> QED
        BY <3>3, <4>1, <4>4 DEF ImportType, CopyMessage
    <3>4. CASE NextBox(r)
      BY <3>4 DEF ImportType, NextBox
    <3>5. CASE ImportEnd(r)
      BY <3>5 DEF ImportType, ImportEnd
    <3> QED
      BY <1>2, <3>2, <3>3, <3>4, <3>5
  <2>2. Busy' \in SUBSET Busy
    <3>1. CASE NextBox(r)
      BY <3>1 DEF Busy, NextBox, ImportType, Reading
    <3>2. CASE ReadExisting(r) \/ CopyMessage(r) \/ ImportEnd(r)
      BY <3>2 DEF Busy, ReadExisting, CopyMessage, ImportEnd
    <3> QED
      BY <1>2, <3>1, <3>2
  <2>3. IsFiniteSet(Busy')
    BY <2>2, FS_Subset
  <2> QED
    BY <2>1, <2>2, <2>3
<1> QED
  BY <1>1, <1>2

\* A message that has not been seen before and one that has: the copies made and
\* those that may follow.
LEMMA CopiesNext ==
  ASSUME ImportInv, NEW r \in Run,
         ImportStart(r) \/ ReadExisting(r) \/ CopyMessage(r) \/ NextBox(r) \/ ImportEnd(r),
         NEW s \in Source \ NoId, appended'[s] > 0
  PROVE  appended'[s] + Cardinality(Ahead(s)') <= Times(s) * (Abreast' + blind')
<1>t. /\ ImportType /\ ImportType' /\ IsFiniteSet(Busy) /\ IsFiniteSet(Busy')
      /\ \A q \in Run : pos[q] > 0 => box[q] \in DOMAIN Boxes
  BY BusyNext DEF ImportInv
<1>a. Abreast \in Nat /\ Abreast' \in Nat /\ Abreast <= Abreast' /\ Abreast # 0
  BY BusyNext, AbreastGrows, AbreastType DEF ImportInv
<1>c. IsFiniteSet(Ahead(s)) /\ Cardinality(Ahead(s)) \in Nat
  BY <1>t, AheadBounded
<1>n. Times(s) \in Nat /\ blind \in Nat /\ blind' \in Nat /\ appended[s] \in Nat /\ appended'[s] \in Nat
  BY <1>t, RanksFinite DEF ImportType
<1>b. appended[s] > 0 => appended[s] + Cardinality(Ahead(s)) <= Times(s) * (Abreast + blind)
  BY DEF ImportInv
\* All that is ahead when nothing was copied yet.
<1>z. Cardinality(Ahead(s)) <= Times(s) * (Abreast + blind)
  <2>1. Unaware(s) \in SUBSET Busy
    BY DEF Unaware
  <2>2. Cardinality(Unaware(s)) \in Nat /\ Cardinality(Unaware(s)) <= Abreast
    <3>1. Cardinality(Unaware(s)) <= Cardinality(Busy) /\ Cardinality(Unaware(s)) \in Nat
      BY <1>t, <2>1, FS_Subset, FS_CardinalityType
    <3>2. Cardinality(Busy) \in Nat /\ Cardinality(Busy) <= Abreast
      BY AbreastType DEF ImportInv
    <3> QED
      BY <3>1, <3>2, <1>a
  <2>3. Cardinality(Ahead(s)) <= Cardinality(Unaware(s)) * Times(s)
    BY <1>t, AheadBounded
  <2>4. Cardinality(Unaware(s)) * Times(s) <= Times(s) * (Abreast + blind)
    <3> DEFINE u == Cardinality(Unaware(s))
               t == Times(s)
    <3>1. u \in Nat /\ t \in Nat /\ Abreast \in Nat /\ blind \in Nat /\ u <= Abreast + blind
      BY <2>2, <1>n, <1>a
    <3> HIDE DEF u, t
    <3>2. u * t <= t * (Abreast + blind)
      BY <3>1
    <3> QED
      BY <3>2 DEF u, t
  <2>5. Cardinality(Unaware(s)) * Times(s) \in Nat /\ Times(s) * (Abreast + blind) \in Nat
    BY <2>2, <1>n, <1>a
  <2> QED
    BY <2>3, <2>4, <2>5, <1>c
<1>m. Times(s) * (Abreast + blind) <= Times(s) * (Abreast' + blind)
  <2> DEFINE t == Times(s)
             x == Abreast + blind
             y == Abreast' + blind
  <2>1. t \in Nat /\ x \in Nat /\ y \in Nat /\ x <= y
    <3>1. \A p, q, r1 \in Nat : p <= q => p + r1 <= q + r1 /\ p + r1 \in Nat /\ q + r1 \in Nat
      OBVIOUS
    <3> QED
      BY <3>1, <1>n, <1>a
  <2> HIDE DEF t, x, y
  <2>2. t * x <= t * y
    BY <2>1
  <2> QED
    BY <2>2 DEF t, x, y
<1>k. Times(s) * (Abreast + blind) \in Nat /\ Times(s) * (Abreast' + blind) \in Nat
  BY <1>n, <1>a
\* A step that copies no s, and after which no more is ahead.
<1>q. ASSUME appended'[s] = appended[s], blind' = blind, Ahead(s)' \in SUBSET Ahead(s)
      PROVE  appended'[s] + Cardinality(Ahead(s)') <= Times(s) * (Abreast' + blind')
  <2>1. Cardinality(Ahead(s)') \in Nat /\ Cardinality(Ahead(s)') <= Cardinality(Ahead(s))
    BY <1>c, <1>q, FS_Subset, FS_CardinalityType
  <2>2. appended[s] + Cardinality(Ahead(s)) <= Times(s) * (Abreast + blind)
    BY <1>q, <1>b
  <2>3. Times(s) * (Abreast' + blind') = Times(s) * (Abreast' + blind)
    BY <1>q
  <2> DEFINE copied == appended[s]
             before == Cardinality(Ahead(s))
             after == Cardinality(Ahead(s)')
             x == Times(s) * (Abreast + blind)
             y == Times(s) * (Abreast' + blind)
  <2>4. {copied, before, after, x, y} \subseteq Nat /\ after <= before /\ copied + before <= x /\ x <= y
    BY <2>1, <2>2, <1>m, <1>k, <1>n, <1>c
  <2> HIDE DEF copied, before, after, x, y
  <2>5. copied + after <= y
    BY <2>4
  <2> QED
    BY <2>3, <2>5, <1>q DEF copied, after, y
<1>1. CASE ImportStart(r)
  <2>0. pos[r] = 0
    <3>1. box[r] = 0 /\ 0 \notin DOMAIN Boxes
      BY <1>1, MailImportAssumption DEF ImportStart
    <3>2. pos[r] \in Nat
      BY <1>t DEF ImportType
    <3> QED
      BY <3>1, <3>2, <1>t
  <2>1. Ahead(s)' \in SUBSET Ahead(s)
    BY <1>1, <2>0, <1>t DEF ImportStart, ImportType, Ahead, Unaware, Busy
  <2> QED
    BY <1>1, <2>1, <1>q DEF ImportStart
<1>2. CASE NextBox(r)
  <2>1. Ahead(s)' \in SUBSET Ahead(s)
    BY <1>2, <1>t DEF NextBox, ImportType, Ahead, Unaware, Busy
  <2> QED
    BY <1>2, <2>1, <1>q DEF NextBox
<1>3. CASE ImportEnd(r)
  <2>1. Ahead(s)' \in SUBSET Ahead(s)
    BY <1>3, <1>t DEF ImportEnd, ImportType, Ahead, Unaware, Busy
  <2> QED
    BY <1>3, <2>1, <1>q DEF ImportEnd
<1>4. CASE CopyMessage(r)
  <2>p. pos' = [pos EXCEPT ![r] = @ + 1] /\ UNCHANGED <<box, existing, met, blind, done>>
    BY <1>4 DEF CopyMessage
  <2>1. Ahead(s)' \in SUBSET Ahead(s)
    BY <2>p, <1>t, <1>4 DEF CopyMessage, Reading, ImportType, Ahead, Unaware, Busy
  <2>2. CASE appended'[s] = appended[s]
    BY <2>p, <2>1, <2>2, <1>q
  <2>3. CASE appended'[s] # appended[s]
    <3>1. /\ Current(r) = s /\ s \notin existing[r] /\ appended'[s] = appended[s] + 1
          /\ r \in Busy /\ pos[r] > 0 /\ pos[r] <= Len(Boxes[box[r]])
      BY <2>3, <1>4, <1>t DEF CopyMessage, Reading, ImportType
    <3>2. box[r] \in DOMAIN Boxes /\ Boxes[box[r]] \in Seq(Source) /\ pos[r] \in Nat
      BY <3>1, <1>t, MailImportAssumption DEF ImportType
    <3>3. pos[r] \in Held(box[r], s)
      BY <3>1, <3>2 DEF Held, Current
    <3>4. <<r, pos[r]>> \in Ahead(s)
      BY <3>1, <3>2, <3>3 DEF Ahead, Unaware
    <3>5. <<r, pos[r]>> \notin Ahead(s)'
      BY <2>p, <3>2, <1>t DEF Ahead, ImportType
    <3>6. Ahead(s)' \in SUBSET (Ahead(s) \ {<<r, pos[r]>>})
      BY <2>1, <3>5
    <3>7. /\ IsFiniteSet(Ahead(s) \ {<<r, pos[r]>>})
          /\ Cardinality(Ahead(s) \ {<<r, pos[r]>>}) = Cardinality(Ahead(s)) - 1
      BY <3>4, <1>c, FS_RemoveElement
    <3>8. Cardinality(Ahead(s)') \in Nat /\ Cardinality(Ahead(s)') <= Cardinality(Ahead(s)) - 1
      BY <3>6, <3>7, FS_Subset, FS_CardinalityType
    <3>9. appended[s] + Cardinality(Ahead(s)) <= Times(s) * (Abreast + blind)
      BY <1>b, <1>z, <1>n, <1>c, <1>k
    <3> QED
      BY <3>1, <3>8, <3>9, <2>p, <1>m, <1>k, <1>n, <1>c
  <2> QED
    BY <2>2, <2>3
<1>5. CASE ReadExisting(r)
  <2>p. /\ r \in Busy /\ pos[r] = 0 /\ box[r] \in DOMAIN Boxes
        /\ pos' = [pos EXCEPT ![r] = 1] /\ UNCHANGED <<box, appended, met, done>>
    BY <1>5, <1>t, MailImportAssumption DEF ReadExisting, Busy, ImportType
  <2>1. CASE existing' = [existing EXCEPT ![r] = Known(r)] /\ UNCHANGED blind
    <3>1. s \in existing'[r]
      BY <2>1, <2>p, <1>t DEF Known, Identified, ImportType
    <3>2. Ahead(s)' \in SUBSET Ahead(s)
      BY <2>1, <2>p, <3>1, <1>t DEF ImportType, Ahead, Unaware, Busy
    <3> QED
      BY <2>1, <2>p, <3>2, <1>q
  <2>2. CASE existing' = [existing EXCEPT ![r] = {}] /\ blind' = blind + 1
    <3> DEFINE mine == {r} \X Held(box[r], s)
    <3>1. Ahead(s)' \in SUBSET (Ahead(s) \union mine)
      BY <2>2, <2>p, <1>t DEF ImportType, Ahead, Unaware, Busy
    <3>2. IsFiniteSet(mine) /\ Cardinality(mine) = Cardinality(Held(box[r], s))
          /\ Cardinality(Held(box[r], s)) \in Nat
      <4>1. IsFiniteSet(Held(box[r], s)) /\ Cardinality(Held(box[r], s)) \in Nat
        BY <2>p, HeldFinite
      <4>2. Cardinality({r}) = 1 /\ IsFiniteSet({r})
        BY FS_Singleton
      <4> QED
        BY <4>1, <4>2, FS_Product
    <3>3. Cardinality(Held(box[r], s)) <= Times(s)
      <4>1. 1 .. Cardinality(Held(box[r], s)) \in SUBSET Ranks(s)
        BY <2>p DEF Ranks
      <4>2. Cardinality(1 .. Cardinality(Held(box[r], s))) = Cardinality(Held(box[r], s))
        BY <3>2, FS_Interval
      <4>3. IsFiniteSet(Ranks(s)) /\ Times(s) = Cardinality(Ranks(s))
        BY RanksFinite
      <4>4. Cardinality(1 .. Cardinality(Held(box[r], s))) <= Cardinality(Ranks(s))
        BY <4>1, <4>3, FS_Subset
      <4> QED
        BY <4>2, <4>3, <4>4
    <3> HIDE DEF mine
    <3>4. IsFiniteSet(Ahead(s) \union mine)
          /\ Cardinality(Ahead(s) \union mine) <= Cardinality(Ahead(s)) + Cardinality(mine)
      <4>1. Cardinality(Ahead(s) \cap mine) \in Nat
        BY <1>c, FS_Intersection, FS_CardinalityType
      <4>2. IsFiniteSet(Ahead(s) \union mine)
            /\ Cardinality(Ahead(s) \union mine)
                 = Cardinality(Ahead(s)) + Cardinality(mine) - Cardinality(Ahead(s) \cap mine)
        BY <3>2, <1>c, FS_Union
      <4>3. Cardinality(mine) \in Nat
        BY <3>2
      <4> QED
        BY <4>1, <4>2, <4>3, <1>c
    <3>5. /\ Cardinality(Ahead(s)') \in Nat
          /\ Cardinality(Ahead(s)') <= Cardinality(Ahead(s)) + Times(s)
      <4>1. Cardinality(Ahead(s)') <= Cardinality(Ahead(s) \union mine) /\ IsFiniteSet(Ahead(s)')
        BY <3>1, <3>4, FS_Subset
      <4>2. Cardinality(Ahead(s)') \in Nat /\ Cardinality(Ahead(s) \union mine) \in Nat
        BY <4>1, <3>4, FS_CardinalityType
      <4> QED
        BY <4>1, <4>2, <3>2, <3>3, <3>4, <1>c, <1>n
    <3>6. appended[s] + Cardinality(Ahead(s)) <= Times(s) * (Abreast + blind)
      BY <2>p, <1>b
    <3>7. Times(s) * (Abreast' + blind') = Times(s) * (Abreast' + blind) + Times(s)
      <4> DEFINE t == Times(s)
                 x == Abreast' + blind
      <4>1. t \in Nat /\ x \in Nat
        <5>1. Times(s) \in Nat /\ blind \in Nat
          BY <1>n
        <5>2. PICK n \in Nat : n = Abreast'
          BY <1>a
        <5>3. n + blind \in Nat
          BY <5>1
        <5> QED
          BY <5>1, <5>2, <5>3
      <4>2. Abreast' + blind' = x + 1
        BY <2>2, <1>n, <1>a
      <4> HIDE DEF t, x
      <4>3. t * (x + 1) = t * x + t
        BY <4>1
      <4> QED
        BY <4>2, <4>3 DEF t, x
    <3> QED
      BY <3>5, <3>6, <3>7, <2>p, <1>m, <1>k, <1>n, <1>c
  <2> QED
    BY <1>5, <2>1, <2>2 DEF ReadExisting
<1> QED
  BY <1>1, <1>2, <1>3, <1>4, <1>5

LEMMA ImportSteps == ImportInv /\ [ImportNext]_importVars => ImportInv'
<1> SUFFICES ASSUME ImportInv, [ImportNext]_importVars PROVE ImportInv'
  OBVIOUS
<1>1. ASSUME UNCHANGED importVars PROVE ImportInv'
  BY <1>1 DEF importVars, ImportInv, ImportType, Busy, Ahead, Unaware, Abreast
<1>2. ASSUME NEW r \in Run,
             ImportStart(r) \/ ReadExisting(r) \/ CopyMessage(r) \/ NextBox(r) \/ ImportEnd(r)
      PROVE  ImportInv'
  <2>1. \A s \in Source \ NoId : appended'[s] > 0 =>
          appended'[s] + Cardinality(Ahead(s)') <= Times(s) * (Abreast' + blind')
    BY <1>2, CopiesNext
  <2> QED
    BY <1>2, <2>1, BusyNext DEF ImportInv
<1> QED
  BY <1>1, <1>2 DEF ImportNext

\* Every reachable state of an import is well typed, runs that work at once have
\* been counted as overlapping, and the copies of a message that there are and
\* may still come are bounded.
THEOREM ImportInvariant == ImportSpec => []ImportInv
<1> QED
  BY ImportFirst, ImportSteps, PTL DEF ImportSpec

\* A message is copied once, or as often as one folder of the source holds it,
\* for every run that overlapped another and every time the destination could
\* not be read: for any source and any number of runs.
THEOREM CopiedNoMore == ImportSpec => []CopiedOnce
<1>1. ImportInv => CopiedOnce
  <2> SUFFICES ASSUME ImportInv, NEW s \in Source \ NoId
               PROVE  appended[s] <= Times(s) * (Abreast + blind)
    BY DEF CopiedOnce
  <2>1. /\ Times(s) \in Nat /\ Abreast \in Nat /\ blind \in Nat /\ appended[s] \in Nat
        /\ Cardinality(Ahead(s)) \in Nat
    BY RanksFinite, AbreastType, AheadBounded DEF ImportInv, ImportType
  <2>2. Times(s) * (Abreast + blind) \in Nat
    BY <2>1
  <2>3. appended[s] > 0 => appended[s] + Cardinality(Ahead(s)) <= Times(s) * (Abreast + blind)
    BY DEF ImportInv
  <2> QED
    BY <2>1, <2>2, <2>3
<1> QED
  BY <1>1, ImportInvariant, PTL

-----------------------------------------------------------------------------
(***************************************************************************)
(* Composer.                                                               *)
(***************************************************************************)

CallAt == {"way", "ok", "bad", "done", "failed"}

\* The composer's own words and files are of its letter, unless it is torn, and
\* a letter that has words has them in the editor, or has given them up.
Whole ==
  /\ ~torn => text \cup files \subseteq {letter} /\ (letter \in begun => letter \in text)
  /\ open /\ letter \in begun => text # {} \/ letter \in gone

\* A draft that was served is stored or given up.
DraftsServed ==
  \A i \in DOMAIN calls :
    calls[i].kind = "draft" /\ calls[i].at # "way" => calls[i].of \in drafts \cup gone

ComposerTyped ==
  /\ (open => letter \in Letter) /\ (count # Off => letter \in Letter)
  /\ text \subseteq Letter /\ files \subseteq Letter
  /\ begun \subseteq Letter
  /\ count \in {Off} \cup 0 .. UndoSecs
  /\ calls \in Seq(CallType)
  /\ asked \in [Letter -> Int] /\ posted \in [Letter -> Nat]

ComposerInv ==
  /\ torn \in BOOLEAN /\ ComposerTyped /\ SentAsAsked
  /\ Whole /\ LetterWhole
  /\ DraftsServed /\ NothingLost

\* Requests that are made, and that move on.
LEMMA CallMade ==
  ASSUME calls \in Seq(CallType), NEW c \in CallType, calls' = Append(calls, c)
  PROVE  /\ calls' \in Seq(CallType) /\ DOMAIN calls \subseteq DOMAIN calls'
         /\ \A i \in DOMAIN calls' : (i \in DOMAIN calls /\ calls'[i] = calls[i]) \/ calls'[i] = c
         /\ \A i \in DOMAIN calls : calls'[i] = calls[i]
OBVIOUS

LEMMA CallReached ==
  ASSUME calls \in Seq(CallType), NEW i \in DOMAIN calls, NEW at \in CallAt, Reached(i, at)
  PROVE  /\ calls' \in Seq(CallType) /\ DOMAIN calls' = DOMAIN calls
         /\ \A j \in DOMAIN calls :
              /\ calls'[j].kind = calls[j].kind /\ calls'[j].of = calls[j].of
              /\ calls'[j].text = calls[j].text /\ calls'[j].files = calls[j].files
              /\ calls'[j].worded = calls[j].worded /\ calls'[j].torn = calls[j].torn
              /\ calls'[j].at = (IF j = i THEN at ELSE calls[j].at)
<1> DEFINE c == [kind |-> calls[i].kind, of |-> calls[i].of, at |-> at, text |-> calls[i].text,
                 files |-> calls[i].files, worded |-> calls[i].worded, torn |-> calls[i].torn]
<1>1. calls[i] \in CallType
  OBVIOUS
<1>2. [calls[i] EXCEPT !.at = at] = c
  BY <1>1 DEF CallType
<1>3. calls' = [calls EXCEPT ![i] = c]
  BY <1>2 DEF Reached
<1>4. /\ c \in CallType /\ c.kind = calls[i].kind /\ c.of = calls[i].of
      /\ c.text = calls[i].text /\ c.files = calls[i].files
      /\ c.worded = calls[i].worded /\ c.torn = calls[i].torn /\ c.at = at
  BY <1>1 DEF CallType, CallAt
<1> HIDE DEF c
<1>5. /\ calls' \in Seq(CallType) /\ DOMAIN calls' = DOMAIN calls
      /\ \A j \in DOMAIN calls : calls'[j] = IF j = i THEN c ELSE calls[j]
  BY <1>3, <1>4
<1>6. QED
  BY <1>4, <1>5

LEMMA ComposerInitInv == ComposerInit => ComposerInv
<1> SUFFICES ASSUME ComposerInit PROVE ComposerInv
  OBVIOUS
<1>1. torn \in BOOLEAN
  BY DEF ComposerInit
<1>2. calls \in Seq(CallType) /\ DOMAIN calls = {}
  BY DEF ComposerInit
<1>3. ComposerTyped
  BY <1>1, <1>2 DEF ComposerInit, ComposerTyped, Off
<1>4. SentAsAsked /\ Whole
  BY DEF ComposerInit, SentAsAsked, Whole
<1>5. LetterWhole /\ DraftsServed /\ NothingLost
  BY <1>2 DEF ComposerInit, LetterWhole, DraftsServed, NothingLost
<1>6. QED
  BY <1>1, <1>3, <1>4, <1>5 DEF ComposerInv

\* What a step does to the requests, when it makes or moves none.
LEMMA CallsSame ==
  ASSUME ComposerInv, calls' = calls,
         drafts \cup gone \subseteq drafts' \cup gone',
         \A l \in begun' : l \in begun \/ (open' /\ letter' = l),
         open /\ letter \in begun => (open' /\ letter' = letter) \/ letter \in drafts' \cup gone'
  PROVE  LetterWhole' /\ DraftsServed' /\ NothingLost'
BY DEF ComposerInv, LetterWhole, DraftsServed, NothingLost

\* A new letter is in the composer.
LEMMA ResetKeeps ==
  ASSUME ComposerInv, NEW l \in Letter, NEW head \in BOOLEAN, NEW body \in {{}, {l}},
         Reset(l, head, body), l \notin begun, ~open,
         drafts \cup gone \subseteq drafts' \cup gone'
  PROVE  ComposerInv'
<1>1. /\ open' = TRUE /\ letter' = l /\ mini' = FALSE /\ text' = body /\ files' = {}
      /\ count' = Off /\ torn' = FALSE /\ begun' = begun \cup body
      /\ UNCHANGED <<posted, calls>>
      /\ asked' = IF count = Off THEN asked ELSE [asked EXCEPT ![letter] = @ - 1]
  BY DEF Reset
<1>2. ComposerTyped'
  BY <1>1 DEF ComposerInv, ComposerTyped, Off
<1>3. SentAsAsked'
  BY <1>1 DEF ComposerInv, ComposerTyped, SentAsAsked
<1>4. Whole'
  BY <1>1 DEF ComposerInv, Whole
<1>5. LetterWhole' /\ DraftsServed' /\ NothingLost'
  BY <1>1, CallsSame
<1>6. torn' \in BOOLEAN
  BY <1>1
<1>7. QED
  BY <1>2, <1>3, <1>4, <1>5, <1>6 DEF ComposerInv

\* The letter is handed over.
LEMMA PostedCall ==
  ASSUME ComposerInv, letter \in Letter, Posted
  PROVE  /\ calls' \in Seq(CallType) /\ posted' = [posted EXCEPT ![letter] = @ + 1]
         /\ UNCHANGED <<drafts, gone, begun, open, letter>> =>
              LetterWhole' /\ DraftsServed' /\ NothingLost'
<1> DEFINE c == [kind |-> "send", of |-> letter, at |-> "way", text |-> text, files |-> files,
                 worded |-> letter \in begun, torn |-> torn]
<1>1. calls' = Append(calls, c) /\ posted' = [posted EXCEPT ![letter] = @ + 1]
  BY DEF Posted
<1>2. (letter \in begun) \in BOOLEAN
  OBVIOUS
<1>3. /\ c \in CallType /\ c.kind = "send" /\ c.of = letter /\ c.text = text /\ c.files = files
      /\ c.torn = torn
  BY <1>2 DEF CallType, ComposerInv, ComposerTyped
<1>4. c.worded <=> letter \in begun
  OBVIOUS
<1>5. ~c.torn => c.text \cup c.files \subseteq {c.of} /\ (c.worded => c.of \in c.text)
  BY <1>3, <1>4 DEF ComposerInv, Whole
<1> HIDE DEF c
<1>6. /\ calls' \in Seq(CallType) /\ DOMAIN calls \subseteq DOMAIN calls'
      /\ \A i \in DOMAIN calls' : (i \in DOMAIN calls /\ calls'[i] = calls[i]) \/ calls'[i] = c
      /\ \A i \in DOMAIN calls : calls'[i] = calls[i]
  BY <1>1, <1>3, CallMade DEF ComposerInv, ComposerTyped
<1>7. LetterWhole'
  BY <1>5, <1>6 DEF ComposerInv, LetterWhole
<1>8. ASSUME UNCHANGED <<drafts, gone, begun, open, letter>>
      PROVE  DraftsServed' /\ NothingLost'
  <2>1. DraftsServed'
    BY <1>3, <1>6, <1>8 DEF ComposerInv, DraftsServed
  <2>2. NothingLost'
    BY <1>6, <1>8 DEF ComposerInv, NothingLost
  <2>3. QED
    BY <2>1, <2>2
<1>9. QED
  BY <1>1, <1>6, <1>7, <1>8

\* Something else is asked for.
LEMMA CalledCall ==
  ASSUME ComposerInv, letter \in Letter, NEW kind \in {"draft", "words", "file"}, Called(kind),
         UNCHANGED <<drafts, gone, begun, open, letter>>
  PROVE  calls' \in Seq(CallType) /\ LetterWhole' /\ DraftsServed' /\ NothingLost'
<1> DEFINE c == [kind |-> kind, of |-> letter, at |-> "way", text |-> {}, files |-> {},
                 worded |-> FALSE, torn |-> FALSE]
<1>1. calls' = Append(calls, c)
  BY DEF Called
<1>2. c \in CallType /\ c.kind = kind /\ c.at = "way"
  BY DEF CallType
<1> HIDE DEF c
<1>3. /\ calls' \in Seq(CallType) /\ DOMAIN calls \subseteq DOMAIN calls'
      /\ \A i \in DOMAIN calls' : (i \in DOMAIN calls /\ calls'[i] = calls[i]) \/ calls'[i] = c
      /\ \A i \in DOMAIN calls : calls'[i] = calls[i]
  BY <1>1, <1>2, CallMade DEF ComposerInv, ComposerTyped
<1>4. LetterWhole'
  BY <1>2, <1>3 DEF ComposerInv, LetterWhole
<1>5. DraftsServed'
  BY <1>2, <1>3 DEF ComposerInv, DraftsServed
<1>6. NothingLost'
  BY <1>3 DEF ComposerInv, NothingLost
<1>7. QED
  BY <1>3, <1>4, <1>5, <1>6

\* A request moves on.
LEMMA MovedCall ==
  ASSUME ComposerInv, NEW i \in DOMAIN calls, NEW at \in CallAt, Reached(i, at),
         calls[i].at # "done",
         drafts \cup gone \subseteq drafts' \cup gone',
         calls[i].kind = "draft" /\ calls[i].at = "way" => calls[i].of \in drafts' \cup gone',
         \A l \in begun' : l \in begun \/ (open' /\ letter' = l),
         open /\ letter \in begun =>
           \/ open' /\ letter' = letter
           \/ letter \in drafts' \cup gone'
           \/ calls[i].kind = "send" /\ calls[i].of = letter /\ at = "done"
  PROVE  calls' \in Seq(CallType) /\ LetterWhole' /\ DraftsServed' /\ NothingLost'
<1>1. /\ calls' \in Seq(CallType) /\ DOMAIN calls' = DOMAIN calls
      /\ \A j \in DOMAIN calls :
           /\ calls'[j].kind = calls[j].kind /\ calls'[j].of = calls[j].of
           /\ calls'[j].text = calls[j].text /\ calls'[j].files = calls[j].files
           /\ calls'[j].worded = calls[j].worded /\ calls'[j].torn = calls[j].torn
           /\ calls'[j].at = (IF j = i THEN at ELSE calls[j].at)
  BY CallReached DEF ComposerInv, ComposerTyped
<1>2. LetterWhole'
  BY <1>1 DEF ComposerInv, LetterWhole
<1>3. DraftsServed'
  BY <1>1 DEF ComposerInv, DraftsServed
<1>4. ASSUME NEW l \in begun'
      PROVE  \/ open' /\ letter' = l
             \/ l \in drafts' \cup gone'
             \/ \E j \in DOMAIN calls' :
                  calls'[j].kind = "send" /\ calls'[j].of = l /\ calls'[j].at = "done"
  <2>1. CASE ~(l \in begun)
    BY <2>1
  <2>2. CASE l \in begun /\ open /\ letter = l
    BY <1>1, <2>2
  <2>3. CASE l \in drafts \cup gone
    BY <2>3
  <2>4. ASSUME NEW j \in DOMAIN calls,
               calls[j].kind = "send" /\ calls[j].of = l /\ calls[j].at = "done"
        PROVE  j \in DOMAIN calls' /\ calls'[j].kind = "send" /\ calls'[j].of = l
               /\ calls'[j].at = "done"
    BY <1>1, <2>4
  <2>5. QED
    BY <2>1, <2>2, <2>3, <2>4 DEF ComposerInv, NothingLost
<1>5. NothingLost'
  BY <1>4 DEF NothingLost
<1>6. QED
  BY <1>1, <1>2, <1>3, <1>5

\* Words are written.
LEMMA WordsKeep == ASSUME ComposerInv, WriteWords PROVE ComposerInv'
<1>1. torn' \in BOOLEAN
  BY DEF ComposerInv, WriteWords, Usable, written, shown, sends, fate
<1>2. ComposerTyped'
  BY DEF ComposerInv, ComposerTyped, Off, WriteWords, Usable, written, shown, sends, fate
<1>3. SentAsAsked'
  BY DEF ComposerInv, ComposerTyped, SentAsAsked, Off, WriteWords, Usable, written, shown, sends, fate
<1>4. Whole'
  BY DEF ComposerInv, ComposerTyped, Whole, WriteWords, Usable, written, shown, sends, fate
<1>5. LetterWhole' /\ DraftsServed' /\ NothingLost'
  BY CallsSame DEF ComposerInv, ComposerTyped, WriteWords, Usable, written, shown, sends, fate
<1>6. QED
  BY <1>1, <1>2, <1>3, <1>4, <1>5 DEF ComposerInv

\* To is filled or emptied.
LEMMA FillKeeps == ASSUME ComposerInv, FillTo PROVE ComposerInv'
<1>1. torn' \in BOOLEAN
  BY DEF ComposerInv, FillTo, written, shown, sends, fate
<1>2. ComposerTyped'
  BY DEF ComposerInv, ComposerTyped, Off, FillTo, written, shown, sends, fate
<1>3. SentAsAsked'
  BY DEF ComposerInv, ComposerTyped, SentAsAsked, Off, FillTo, written, shown, sends, fate
<1>4. Whole'
  BY DEF ComposerInv, ComposerTyped, Whole, FillTo, written, shown, sends, fate
<1>5. LetterWhole' /\ DraftsServed' /\ NothingLost'
  BY CallsSame DEF ComposerInv, ComposerTyped, FillTo, written, shown, sends, fate
<1>6. QED
  BY <1>1, <1>2, <1>3, <1>4, <1>5 DEF ComposerInv

\* The composer is minimised, or shown again.
LEMMA MinimizeKeeps == ASSUME ComposerInv, Minimize PROVE ComposerInv'
<1>1. torn' \in BOOLEAN
  BY DEF ComposerInv, Minimize, EditorGoes, written, shown, sends, fate
<1>2. ComposerTyped'
  BY DEF ComposerInv, ComposerTyped, Off, Minimize, EditorGoes, written, shown, sends, fate
<1>3. SentAsAsked'
  BY DEF ComposerInv, ComposerTyped, SentAsAsked, Off, Minimize, EditorGoes, written, shown, sends, fate
<1>4. Whole'
  BY DEF ComposerInv, ComposerTyped, Whole, Minimize, EditorGoes, written, shown, sends, fate
<1>5. LetterWhole' /\ DraftsServed' /\ NothingLost'
  BY CallsSame DEF ComposerInv, ComposerTyped, Minimize, EditorGoes, written, shown, sends, fate
<1>6. QED
  BY <1>1, <1>2, <1>3, <1>4, <1>5 DEF ComposerInv

\* The countdown starts.
LEMMA PressSendKeeps == ASSUME ComposerInv, PressSend PROVE ComposerInv'
<1>1. torn' \in BOOLEAN
  BY DEF ComposerInv, PressSend, Usable, written, shown, sends, fate
<1>2. ComposerTyped'
  BY ComposerAssumption DEF ComposerInv, ComposerTyped, Off, PressSend, Usable, written, shown, sends, fate
<1>3. SentAsAsked'
  BY ComposerAssumption DEF ComposerInv, ComposerTyped, SentAsAsked, Off, PressSend, Usable, written, shown, sends, fate
<1>4. Whole'
  BY ComposerAssumption DEF ComposerInv, ComposerTyped, Whole, PressSend, Usable, written, shown, sends, fate
<1>5. LetterWhole' /\ DraftsServed' /\ NothingLost'
  BY CallsSame DEF ComposerInv, ComposerTyped, PressSend, Usable, written, shown, sends, fate
<1>6. QED
  BY <1>1, <1>2, <1>3, <1>4, <1>5 DEF ComposerInv

\* Undo.
LEMMA UndoKeeps == ASSUME ComposerInv, Undo PROVE ComposerInv'
<1>1. torn' \in BOOLEAN
  BY DEF ComposerInv, Undo, Usable, written, shown, sends, fate
<1>2. ComposerTyped'
  BY DEF ComposerInv, ComposerTyped, Off, Undo, Usable, written, shown, sends, fate
<1>3. SentAsAsked'
  BY DEF ComposerInv, ComposerTyped, SentAsAsked, Off, Undo, Usable, written, shown, sends, fate
<1>4. Whole'
  BY DEF ComposerInv, ComposerTyped, Whole, Undo, Usable, written, shown, sends, fate
<1>5. LetterWhole' /\ DraftsServed' /\ NothingLost'
  BY CallsSame DEF ComposerInv, ComposerTyped, Undo, Usable, written, shown, sends, fate
<1>6. QED
  BY <1>1, <1>2, <1>3, <1>4, <1>5 DEF ComposerInv

\* A second passes.
LEMMA CountKeeps == ASSUME ComposerInv, CountDown PROVE ComposerInv'
<1>1. torn' \in BOOLEAN
  BY DEF ComposerInv, CountDown, written, shown, sends, fate
<1>2. ComposerTyped'
  BY ComposerAssumption DEF ComposerInv, ComposerTyped, Off, CountDown, written, shown, sends, fate
<1>3. SentAsAsked'
  BY ComposerAssumption DEF ComposerInv, ComposerTyped, SentAsAsked, Off, CountDown, written, shown, sends, fate
<1>4. Whole'
  BY ComposerAssumption DEF ComposerInv, ComposerTyped, Whole, CountDown, written, shown, sends, fate
<1>5. LetterWhole' /\ DraftsServed' /\ NothingLost'
  BY CallsSame DEF ComposerInv, ComposerTyped, CountDown, written, shown, sends, fate
<1>6. QED
  BY <1>1, <1>2, <1>3, <1>4, <1>5 DEF ComposerInv

\* The prompt is cancelled.
LEMMA CancelKeeps == ASSUME ComposerInv, PromptCancel PROVE ComposerInv'
<1>1. torn' \in BOOLEAN
  BY DEF ComposerInv, PromptCancel, written, shown, sends, fate
<1>2. ComposerTyped'
  BY DEF ComposerInv, ComposerTyped, Off, PromptCancel, written, shown, sends, fate
<1>3. SentAsAsked'
  BY DEF ComposerInv, ComposerTyped, SentAsAsked, Off, PromptCancel, written, shown, sends, fate
<1>4. Whole'
  BY DEF ComposerInv, ComposerTyped, Whole, PromptCancel, written, shown, sends, fate
<1>5. LetterWhole' /\ DraftsServed' /\ NothingLost'
  BY CallsSame DEF ComposerInv, ComposerTyped, PromptCancel, written, shown, sends, fate
<1>6. QED
  BY <1>1, <1>2, <1>3, <1>4, <1>5 DEF ComposerInv

\* The composer is closed, or asks first.
LEMMA CloseKeeps == ASSUME ComposerInv, PressClose PROVE ComposerInv'
<1>1. torn' \in BOOLEAN
  BY DEF ComposerInv, PressClose, CloseComposer, EditorGoes, Dirty, written, shown, sends, fate
<1>2. ComposerTyped'
  BY DEF ComposerInv, ComposerTyped, Off, PressClose, CloseComposer, EditorGoes, Dirty, written, shown, sends, fate
<1>3. SentAsAsked'
  BY DEF ComposerInv, ComposerTyped, SentAsAsked, Off, PressClose, CloseComposer, EditorGoes, Dirty, written, shown, sends, fate
<1>4. Whole'
  BY DEF ComposerInv, ComposerTyped, Whole, PressClose, CloseComposer, EditorGoes, Dirty, written, shown, sends, fate
<1>5. LetterWhole' /\ DraftsServed' /\ NothingLost'
  BY CallsSame DEF ComposerInv, Whole, PressClose, CloseComposer, EditorGoes, Dirty, written, shown, sends, fate
<1>6. QED
  BY <1>1, <1>2, <1>3, <1>4, <1>5 DEF ComposerInv

\* The letter is thrown away.
LEMMA DiscardKeeps == ASSUME ComposerInv, Discard PROVE ComposerInv'
<1>1. torn' \in BOOLEAN
  BY DEF ComposerInv, Discard, CloseComposer, EditorGoes, written, shown, sends, fate
<1>2. ComposerTyped'
  BY DEF ComposerInv, ComposerTyped, Off, Discard, CloseComposer, EditorGoes, written, shown, sends, fate
<1>3. SentAsAsked'
  BY DEF ComposerInv, ComposerTyped, SentAsAsked, Off, Discard, CloseComposer, EditorGoes, written, shown, sends, fate
<1>4. Whole'
  BY DEF ComposerInv, ComposerTyped, Whole, Discard, CloseComposer, EditorGoes, written, shown, sends, fate
<1>5. LetterWhole' /\ DraftsServed' /\ NothingLost'
  BY CallsSame DEF ComposerInv, ComposerTyped, Discard, CloseComposer, EditorGoes, written, shown, sends, fate
<1>6. QED
  BY <1>1, <1>2, <1>3, <1>4, <1>5 DEF ComposerInv

\* The assistant is asked.
LEMMA AskAiKeeps == ASSUME ComposerInv, AskAi PROVE ComposerInv'
<1>0. /\ calls' \in Seq(CallType) /\ LetterWhole' /\ DraftsServed' /\ NothingLost'
  BY CalledCall DEF ComposerInv, ComposerTyped, AskAi, Usable, written, shown, sends, fate
<1>1. torn' \in BOOLEAN
  BY DEF ComposerInv, AskAi, Usable, written, shown, sends, fate
<1>2. ComposerTyped'
  BY <1>0 DEF ComposerInv, ComposerTyped, Off, AskAi, Usable, written, shown, sends, fate
<1>3. SentAsAsked'
  BY <1>0 DEF ComposerInv, ComposerTyped, SentAsAsked, Off, AskAi, Usable, written, shown, sends, fate
<1>4. Whole'
  BY <1>0 DEF ComposerInv, ComposerTyped, Whole, AskAi, Usable, written, shown, sends, fate
<1>5. LetterWhole' /\ DraftsServed' /\ NothingLost'
  BY <1>0
<1>6. QED
  BY <1>1, <1>2, <1>3, <1>4, <1>5 DEF ComposerInv

\* A file is read.
LEMMA AttachKeeps == ASSUME ComposerInv, Attach PROVE ComposerInv'
<1>0. /\ calls' \in Seq(CallType) /\ LetterWhole' /\ DraftsServed' /\ NothingLost'
  BY CalledCall DEF ComposerInv, ComposerTyped, Attach, Usable, written, shown, sends, fate
<1>1. torn' \in BOOLEAN
  BY DEF ComposerInv, Attach, Usable, written, shown, sends, fate
<1>2. ComposerTyped'
  BY <1>0 DEF ComposerInv, ComposerTyped, Off, Attach, Usable, written, shown, sends, fate
<1>3. SentAsAsked'
  BY <1>0 DEF ComposerInv, ComposerTyped, SentAsAsked, Off, Attach, Usable, written, shown, sends, fate
<1>4. Whole'
  BY <1>0 DEF ComposerInv, ComposerTyped, Whole, Attach, Usable, written, shown, sends, fate
<1>5. LetterWhole' /\ DraftsServed' /\ NothingLost'
  BY <1>0
<1>6. QED
  BY <1>1, <1>2, <1>3, <1>4, <1>5 DEF ComposerInv

\* A draft is saved.
LEMMA SaveKeeps == ASSUME ComposerInv, PressSave PROVE ComposerInv'
<1>0. /\ calls' \in Seq(CallType) /\ LetterWhole' /\ DraftsServed' /\ NothingLost'
  BY CalledCall DEF ComposerInv, ComposerTyped, PressSave, Usable, written, shown, sends, fate
<1>1. torn' \in BOOLEAN
  BY DEF ComposerInv, PressSave, Usable, written, shown, sends, fate
<1>2. ComposerTyped'
  BY <1>0 DEF ComposerInv, ComposerTyped, Off, PressSave, Usable, written, shown, sends, fate
<1>3. SentAsAsked'
  BY <1>0 DEF ComposerInv, ComposerTyped, SentAsAsked, Off, PressSave, Usable, written, shown, sends, fate
<1>4. Whole'
  BY <1>0 DEF ComposerInv, ComposerTyped, Whole, PressSave, Usable, written, shown, sends, fate
<1>5. LetterWhole' /\ DraftsServed' /\ NothingLost'
  BY <1>0
<1>6. QED
  BY <1>1, <1>2, <1>3, <1>4, <1>5 DEF ComposerInv

\* The letter is handed over, or has nobody to go to.
LEMMA DoSendKeeps ==
  ASSUME ComposerInv, letter \in Letter, DoSend, UNCHANGED <<drafts, gone, begun, open, letter>>
  PROVE  /\ calls' \in Seq(CallType) /\ LetterWhole' /\ DraftsServed' /\ NothingLost'
         /\ \/ posted' = [posted EXCEPT ![letter] = @ + 1] /\ UNCHANGED asked
            \/ posted' = posted /\ asked' = [asked EXCEPT ![letter] = @ - 1]
<1>1. CASE Posted /\ UNCHANGED asked
  BY <1>1, PostedCall
<1>2. CASE UNCHANGED <<calls, posted>> /\ asked' = [asked EXCEPT ![letter] = @ - 1]
  BY <1>2, CallsSame DEF ComposerInv, ComposerTyped
<1>3. QED
  BY <1>1, <1>2 DEF DoSend

\* The letter is scheduled.
LEMMA ScheduleKeeps == ASSUME ComposerInv, Schedule PROVE ComposerInv'
<1>1. /\ letter \in Letter
      /\ UNCHANGED <<text, files, drafts, open, letter, begun, torn, gone>>
      /\ count' = count
  BY DEF ComposerInv, ComposerTyped, Off, Schedule, Usable, written, shown, fate
<1>2. /\ calls' \in Seq(CallType) /\ LetterWhole' /\ DraftsServed' /\ NothingLost'
      /\ posted' = [posted EXCEPT ![letter] = @ + 1] /\ asked' = [asked EXCEPT ![letter] = @ + 1]
  BY <1>1, PostedCall DEF Schedule
<1>3. asked' \in [Letter -> Int] /\ posted' \in [Letter -> Nat]
  BY <1>1, <1>2 DEF ComposerInv, ComposerTyped
<1>4. ComposerTyped'
  BY <1>1, <1>2, <1>3 DEF ComposerInv, ComposerTyped, Off
<1>5. SentAsAsked'
  BY <1>1, <1>2 DEF ComposerInv, ComposerTyped, SentAsAsked, Off
<1>6. Whole' /\ torn' \in BOOLEAN
  BY <1>1 DEF ComposerInv, Whole
<1>7. QED
  BY <1>2, <1>4, <1>5, <1>6 DEF ComposerInv, SentAsAsked

\* The countdown is cut short.
LEMMA SendNowKeeps == ASSUME ComposerInv, SendNow PROVE ComposerInv'
<1>1. /\ letter \in Letter
      /\ UNCHANGED <<text, files, drafts, open, letter, begun, torn, gone>>
      /\ count # Off /\ count' = Off
  BY DEF ComposerInv, ComposerTyped, Off, SendNow, Usable, written, shown, fate
<1>2. /\ calls' \in Seq(CallType) /\ LetterWhole' /\ DraftsServed' /\ NothingLost'
      /\ \/ posted' = [posted EXCEPT ![letter] = @ + 1] /\ UNCHANGED asked
         \/ posted' = posted /\ asked' = [asked EXCEPT ![letter] = @ - 1]
  BY <1>1, DoSendKeeps DEF SendNow
<1>3. asked' \in [Letter -> Int] /\ posted' \in [Letter -> Nat]
  BY <1>1, <1>2 DEF ComposerInv, ComposerTyped
<1>4. ComposerTyped'
  BY <1>1, <1>2, <1>3 DEF ComposerInv, ComposerTyped, Off
<1>5. ASSUME NEW l \in Letter
      PROVE  posted'[l] + (IF count' # Off /\ letter' = l THEN 1 ELSE 0) = asked'[l]
  <2>1. /\ posted[l] + (IF letter = l THEN 1 ELSE 0) = asked[l]
        /\ posted[l] \in Nat /\ asked[l] \in Int
    BY <1>1 DEF ComposerInv, ComposerTyped, SentAsAsked
  <2>2. CASE posted' = [posted EXCEPT ![letter] = @ + 1] /\ UNCHANGED asked
    BY <1>1, <2>1, <2>2 DEF ComposerInv, ComposerTyped
  <2>3. CASE posted' = posted /\ asked' = [asked EXCEPT ![letter] = @ - 1]
    BY <1>1, <2>1, <2>3 DEF ComposerInv, ComposerTyped
  <2>4. QED
    BY <1>2, <2>2, <2>3
<1>6. Whole' /\ torn' \in BOOLEAN
  BY <1>1 DEF ComposerInv, Whole
<1>7. QED
  BY <1>2, <1>4, <1>5, <1>6 DEF ComposerInv, SentAsAsked

\* The countdown is over.
LEMMA EndsKeeps == ASSUME ComposerInv, CountdownEnds PROVE ComposerInv'
<1>1. /\ letter \in Letter
      /\ UNCHANGED <<text, files, drafts, open, letter, begun, torn, gone>>
      /\ count # Off /\ count' = Off
  BY DEF ComposerInv, ComposerTyped, Off, CountdownEnds, Usable, written, shown, fate
<1>2. /\ calls' \in Seq(CallType) /\ LetterWhole' /\ DraftsServed' /\ NothingLost'
      /\ \/ posted' = [posted EXCEPT ![letter] = @ + 1] /\ UNCHANGED asked
         \/ posted' = posted /\ asked' = [asked EXCEPT ![letter] = @ - 1]
  BY <1>1, DoSendKeeps DEF CountdownEnds
<1>3. asked' \in [Letter -> Int] /\ posted' \in [Letter -> Nat]
  BY <1>1, <1>2 DEF ComposerInv, ComposerTyped
<1>4. ComposerTyped'
  BY <1>1, <1>2, <1>3 DEF ComposerInv, ComposerTyped, Off
<1>5. ASSUME NEW l \in Letter
      PROVE  posted'[l] + (IF count' # Off /\ letter' = l THEN 1 ELSE 0) = asked'[l]
  <2>1. /\ posted[l] + (IF letter = l THEN 1 ELSE 0) = asked[l]
        /\ posted[l] \in Nat /\ asked[l] \in Int
    BY <1>1 DEF ComposerInv, ComposerTyped, SentAsAsked
  <2>2. CASE posted' = [posted EXCEPT ![letter] = @ + 1] /\ UNCHANGED asked
    BY <1>1, <2>1, <2>2 DEF ComposerInv, ComposerTyped
  <2>3. CASE posted' = posted /\ asked' = [asked EXCEPT ![letter] = @ - 1]
    BY <1>1, <2>1, <2>3 DEF ComposerInv, ComposerTyped
  <2>4. QED
    BY <1>2, <2>2, <2>3
<1>6. Whole' /\ torn' \in BOOLEAN
  BY <1>1 DEF ComposerInv, Whole
<1>7. QED
  BY <1>2, <1>4, <1>5, <1>6 DEF ComposerInv, SentAsAsked

\* A letter is opened, or a draft is.
LEMMA ComposeKeeps == ASSUME ComposerInv, NEW l \in Letter, Compose(l) PROVE ComposerInv'
<1>1. PICK head \in BOOLEAN, body \in {{}, {l}} : Reset(l, head, body)
  BY DEF Compose
<1>2. ~open /\ l \notin begun /\ UNCHANGED <<drafts, gone>>
  BY DEF Compose
<1>3. QED
  BY <1>1, <1>2, ResetKeeps

LEMMA EditKeeps ==
  ASSUME ComposerInv, NEW l \in Letter, NEW d \in Letter, EditDraft(d, l) PROVE ComposerInv'
<1>1. drafts \cup gone \subseteq drafts' \cup gone'
  BY DEF EditDraft
<1>2. CASE open
  <2>1. UNCHANGED <<written, shown, sends, calls, begun, torn>>
    BY <1>2 DEF EditDraft
  <2>2. ComposerTyped'
    BY <2>1 DEF ComposerInv, ComposerTyped, Off, written, shown, sends
  <2>3. SentAsAsked' /\ Whole' /\ torn' \in BOOLEAN
    BY <2>1, <1>1 DEF ComposerInv, SentAsAsked, Whole, Off, written, shown, sends, EditDraft
  <2>4. LetterWhole' /\ DraftsServed' /\ NothingLost'
    BY <1>1, <2>1, CallsSame DEF shown
  <2>5. QED
    BY <2>2, <2>3, <2>4 DEF ComposerInv
<1>3. CASE ~open
  <2>1. PICK head \in BOOLEAN : Reset(l, head, {l})
    BY <1>3 DEF EditDraft
  <2>2. l \notin begun
    BY <1>3 DEF EditDraft
  <2>3. QED
    BY <1>1, <1>3, <2>1, <2>2, ResetKeeps
<1>4. QED
  BY <1>2, <1>3

\* The server is done with a letter.
LEMMA ServeSendKeeps == ASSUME ComposerInv, NEW i \in DOMAIN calls, ServeSend(i) PROVE ComposerInv'
<1>1. /\ calls[i].kind = "send" /\ calls[i].at = "way" /\ \E at \in {"ok", "bad"} : Reached(i, at)
      /\ UNCHANGED <<text, files, open, letter, mini, count, asked, posted, drafts, begun, torn, gone>>
  BY DEF ServeSend, Served, written, shown, sends, fate
<1>2. /\ calls' \in Seq(CallType) /\ LetterWhole' /\ DraftsServed' /\ NothingLost'
      /\ UNCHANGED <<text, files, open, letter, mini, count, asked, posted, drafts, begun, torn, gone>>
  BY <1>1, MovedCall DEF CallAt
<1>3. ComposerTyped'
  BY <1>2 DEF ComposerInv, ComposerTyped, Off
<1>4. SentAsAsked'
  BY <1>2 DEF ComposerInv, SentAsAsked, Off
<1>5. Whole' /\ torn' \in BOOLEAN
  BY <1>2 DEF ComposerInv, Whole
<1>6. QED
  BY <1>2, <1>3, <1>4, <1>5 DEF ComposerInv

\* The assistant answers.
LEMMA ServeAiKeeps == ASSUME ComposerInv, NEW i \in DOMAIN calls, ServeAi(i) PROVE ComposerInv'
<1>1. /\ calls[i].kind = "words" /\ calls[i].at = "way" /\ \E at \in {"ok", "bad"} : Reached(i, at)
      /\ UNCHANGED <<text, files, open, letter, mini, count, asked, posted, drafts, begun, torn, gone>>
  BY DEF ServeAi, Served, written, shown, sends, fate
<1>2. /\ calls' \in Seq(CallType) /\ LetterWhole' /\ DraftsServed' /\ NothingLost'
      /\ UNCHANGED <<text, files, open, letter, mini, count, asked, posted, drafts, begun, torn, gone>>
  BY <1>1, MovedCall DEF CallAt
<1>3. ComposerTyped'
  BY <1>2 DEF ComposerInv, ComposerTyped, Off
<1>4. SentAsAsked'
  BY <1>2 DEF ComposerInv, SentAsAsked, Off
<1>5. Whole' /\ torn' \in BOOLEAN
  BY <1>2 DEF ComposerInv, Whole
<1>6. QED
  BY <1>2, <1>3, <1>4, <1>5 DEF ComposerInv

\* The server stores a draft, or fails to.
LEMMA ServeDraftKeeps ==
  ASSUME ComposerInv, NEW i \in DOMAIN calls, ServeDraft(i) PROVE ComposerInv'
<1>1. /\ calls[i].kind = "draft" /\ calls[i].at = "way" /\ \E at \in {"ok", "bad"} : Reached(i, at)
      /\ UNCHANGED <<text, files, open, letter, mini, count, asked, posted, begun, torn>>
      /\ gone \subseteq gone' /\ drafts \cup gone \cup {calls[i].of} = drafts' \cup gone'
  BY DEF ServeDraft, Served, written, shown, sends
<1>2. /\ calls' \in Seq(CallType) /\ LetterWhole' /\ DraftsServed' /\ NothingLost'
      /\ UNCHANGED <<text, files, open, letter, mini, count, asked, posted, begun, torn>>
      /\ gone \subseteq gone'
  BY <1>1, MovedCall DEF CallAt
<1>3. ComposerTyped'
  BY <1>2 DEF ComposerInv, ComposerTyped, Off
<1>4. SentAsAsked'
  BY <1>2 DEF ComposerInv, SentAsAsked, Off
<1>5. Whole' /\ torn' \in BOOLEAN
  BY <1>2 DEF ComposerInv, Whole
<1>6. QED
  BY <1>2, <1>3, <1>4, <1>5 DEF ComposerInv

\* An answer to a letter, to a draft, from the assistant, and a file that was read.
LEMMA SendAnsweredKeeps ==
  ASSUME ComposerInv, NEW i \in DOMAIN calls, SendAnswered(i) PROVE ComposerInv'
<1>1. calls[i].kind = "send" /\ UNCHANGED <<files, letter, count, asked, posted, drafts, begun>>
  BY DEF SendAnswered, Heard
<1>2. CASE calls[i].at = "ok"
  <2>1. /\ Reached(i, "done")
        /\ open' = FALSE /\ text' = {} /\ torn' = (torn \/ text # {})
        /\ gone' = IF open /\ letter # calls[i].of THEN gone \cup {letter} ELSE gone
    BY <1>2 DEF SendAnswered, Heard, ClosedBy, CloseComposer, EditorGoes
  <2>2. calls' \in Seq(CallType) /\ LetterWhole' /\ DraftsServed' /\ NothingLost'
    BY <1>1, <1>2, <2>1, MovedCall DEF CallAt
  <2>3. ComposerTyped'
    BY <1>1, <2>1, <2>2 DEF ComposerInv, ComposerTyped, Off
  <2>4. SentAsAsked'
    BY <1>1 DEF ComposerInv, SentAsAsked, Off
  <2>5. Whole' /\ torn' \in BOOLEAN
    BY <1>1, <2>1 DEF ComposerInv, Whole
  <2>6. QED
    BY <2>2, <2>3, <2>4, <2>5 DEF ComposerInv
<1>3. CASE calls[i].at = "bad"
  <2>1. Reached(i, "failed") /\ UNCHANGED <<open, text, torn, gone>>
    BY <1>3 DEF SendAnswered, Heard
  <2>2. calls' \in Seq(CallType) /\ LetterWhole' /\ DraftsServed' /\ NothingLost'
    BY <1>1, <1>3, <2>1, MovedCall DEF CallAt
  <2>3. ComposerTyped'
    BY <1>1, <2>1, <2>2 DEF ComposerInv, ComposerTyped, Off
  <2>4. SentAsAsked'
    BY <1>1 DEF ComposerInv, SentAsAsked, Off
  <2>5. Whole' /\ torn' \in BOOLEAN
    BY <1>1, <2>1 DEF ComposerInv, Whole
  <2>6. QED
    BY <2>2, <2>3, <2>4, <2>5 DEF ComposerInv
<1>4. QED
  BY <1>2, <1>3 DEF SendAnswered, Heard

LEMMA DraftAnsweredKeeps ==
  ASSUME ComposerInv, NEW i \in DOMAIN calls, DraftAnswered(i) PROVE ComposerInv'
<1>1. /\ calls[i].kind = "draft" /\ calls[i].at \in {"ok", "bad"}
      /\ \E at \in {"done", "failed"} : Reached(i, at)
      /\ UNCHANGED <<files, letter, count, asked, posted, drafts, begun>>
      /\ open' = FALSE /\ text' = {} /\ torn' = (torn \/ text # {})
      /\ gone' = IF open /\ letter # calls[i].of THEN gone \cup {letter} ELSE gone
  BY DEF DraftAnswered, Heard, ClosedBy, CloseComposer, EditorGoes, sends
<1>0. calls[i].of \in drafts \cup gone
  BY <1>1 DEF ComposerInv, DraftsServed
<1>2. calls' \in Seq(CallType) /\ LetterWhole' /\ DraftsServed' /\ NothingLost'
  BY <1>1, <1>0, MovedCall DEF CallAt
<1>3. ComposerTyped'
  BY <1>2, <1>1 DEF ComposerInv, ComposerTyped, Off
<1>4. SentAsAsked'
  BY <1>2, <1>1 DEF ComposerInv, SentAsAsked, Off
<1>5. Whole' /\ torn' \in BOOLEAN
  BY <1>2, <1>1 DEF ComposerInv, Whole
<1>6. QED
  BY <1>2, <1>3, <1>4, <1>5 DEF ComposerInv

LEMMA CallOf == ASSUME ComposerInv, NEW i \in DOMAIN calls PROVE calls[i].of \in Letter
<1>1. calls \in Seq(CallType)
  BY DEF ComposerInv, ComposerTyped
<1>2. calls[i] \in CallType
  BY <1>1
<1>3. QED
  BY <1>2 DEF CallType

LEMMA AiAnsweredKeeps ==
  ASSUME ComposerInv, NEW i \in DOMAIN calls, AiAnswered(i) PROVE ComposerInv'
<1>1. /\ calls[i].kind = "words" /\ calls[i].at \in {"ok", "bad"}
      /\ \E at \in {"done", "failed"} : Reached(i, at)
      /\ UNCHANGED <<files, open, letter, mini, count, asked, posted, drafts, gone>>
      /\ \/ /\ open /\ text' = {calls[i].of} /\ begun' = begun \cup {letter}
            /\ torn' = (torn \/ calls[i].of # letter)
         \/ UNCHANGED <<text, begun, torn>>
  BY DEF AiAnswered, Heard, Mixed, shown, sends
<1>0. calls[i].of \in Letter
  BY CallOf
<1>2. calls' \in Seq(CallType) /\ LetterWhole' /\ DraftsServed' /\ NothingLost'
  BY <1>1, MovedCall DEF CallAt
<1>3. ComposerTyped'
  BY <1>2, <1>1, <1>0 DEF ComposerInv, ComposerTyped, Off
<1>4. SentAsAsked'
  BY <1>2, <1>1 DEF ComposerInv, SentAsAsked, Off
<1>5. torn' \in BOOLEAN
  BY <1>1 DEF ComposerInv
<1>6. CASE UNCHANGED <<text, begun, torn>>
  <2>1. Whole'
    BY <1>1, <1>6 DEF ComposerInv, Whole
  <2>2. QED
    BY <1>2, <1>3, <1>4, <1>5, <2>1 DEF ComposerInv
<1>7. CASE /\ open /\ text' = {calls[i].of} /\ begun' = begun \cup {letter}
           /\ torn' = (torn \/ calls[i].of # letter)
  <2>1. ASSUME ~torn' PROVE calls[i].of = letter /\ ~torn
    BY <1>7, <2>1
  <2>2. Whole'
    BY <1>1, <1>7, <2>1 DEF ComposerInv, Whole
  <2>3. QED
    BY <1>2, <1>3, <1>4, <1>5, <2>2 DEF ComposerInv
<1>8. QED
  BY <1>1, <1>6, <1>7

LEMMA FilesReadKeeps ==
  ASSUME ComposerInv, NEW i \in DOMAIN calls, FilesRead(i) PROVE ComposerInv'
<1>1. /\ calls[i].kind = "file" /\ calls[i].at = "way" /\ Reached(i, "done")
      /\ files' = files \cup {calls[i].of} /\ torn' = (torn \/ calls[i].of # letter)
      /\ UNCHANGED <<text, open, letter, mini, count, asked, posted, drafts, begun, gone>>
  BY DEF FilesRead, Mixed, shown, sends
<1>0. calls[i].of \in Letter
  BY CallOf
<1>2. calls' \in Seq(CallType) /\ LetterWhole' /\ DraftsServed' /\ NothingLost'
  BY <1>1, MovedCall DEF CallAt
<1>3. ComposerTyped'
  BY <1>2, <1>1, <1>0 DEF ComposerInv, ComposerTyped, Off
<1>4. SentAsAsked'
  BY <1>2, <1>1 DEF ComposerInv, SentAsAsked, Off
<1>5. Whole' /\ torn' \in BOOLEAN
  BY <1>2, <1>1 DEF ComposerInv, Whole
<1>6. QED
  BY <1>2, <1>3, <1>4, <1>5 DEF ComposerInv

\* Nothing happens.
LEMMA ComposerStutters == ASSUME ComposerInv, UNCHANGED composerVars PROVE ComposerInv'
<1>1. UNCHANGED <<text, files, open, letter, count, asked, posted, drafts, begun, torn, gone, calls>>
  BY DEF composerVars, written, shown, sends, fate
<1>2. ComposerTyped' /\ torn' \in BOOLEAN
  BY <1>1 DEF ComposerInv, ComposerTyped
<1>3. SentAsAsked' /\ Whole'
  BY <1>1 DEF ComposerInv, SentAsAsked, Whole
<1>4. LetterWhole' /\ DraftsServed' /\ NothingLost'
  BY <1>1, CallsSame
<1>5. QED
  BY <1>2, <1>3, <1>4 DEF ComposerInv

LEMMA ComposerStep == ComposerInv /\ [ComposerNext]_composerVars => ComposerInv'
<1> SUFFICES ASSUME ComposerInv, [ComposerNext]_composerVars PROVE ComposerInv'
  OBVIOUS
<1>1. CASE \E l \in Letter : Compose(l) \/ \E d \in Letter : EditDraft(d, l)
  BY <1>1, ComposeKeeps, EditKeeps
<1>2. CASE WriteWords \/ FillTo \/ AskAi \/ Attach \/ Minimize
  BY <1>2, WordsKeep, FillKeeps, AskAiKeeps, AttachKeeps, MinimizeKeeps
<1>3. CASE PressSend \/ Schedule \/ Undo \/ SendNow \/ CountDown \/ CountdownEnds
  BY <1>3, PressSendKeeps, ScheduleKeeps, UndoKeeps, SendNowKeeps, CountKeeps, EndsKeeps
<1>4. CASE PressClose \/ Discard \/ PromptCancel \/ PressSave
  BY <1>4, CloseKeeps, DiscardKeeps, CancelKeeps, SaveKeeps
<1>5. ASSUME NEW i \in DOMAIN calls,
             \/ ServeSend(i) \/ ServeDraft(i) \/ ServeAi(i)
             \/ SendAnswered(i) \/ DraftAnswered(i) \/ AiAnswered(i) \/ FilesRead(i)
      PROVE  ComposerInv'
  BY <1>5, ServeSendKeeps, ServeDraftKeeps, ServeAiKeeps, SendAnsweredKeeps,
     DraftAnsweredKeeps, AiAnsweredKeeps, FilesReadKeeps
<1>6. CASE UNCHANGED composerVars
  BY <1>6, ComposerStutters
<1>7. QED
  BY <1>1, <1>2, <1>3, <1>4, <1>5, <1>6 DEF ComposerNext

\* The invariant of the composer: what it holds is its letter's, unless an
\* event tore it, and every draft the server was asked to store is accounted for.
THEOREM ComposerInvariant == ComposerSpec => []ComposerInv
<1>1. QED
  BY ComposerInitInv, ComposerStep, PTL DEF ComposerSpec

\* Undo, "Send now", closing and opening another letter never make a letter go
\* out more often, or less often, than it was asked for.
THEOREM AsManyAsAsked == ComposerSpec => []SentAsAsked
<1>1. ComposerInv => SentAsAsked
  BY DEF ComposerInv
<1>2. QED
  BY <1>1, ComposerInvariant, PTL

\* A letter goes out with its words and with nobody else's.
THEOREM LettersKeepTheirWords == ComposerSpec => []LetterWhole
<1>1. ComposerInv => LetterWhole
  BY DEF ComposerInv
<1>2. QED
  BY <1>1, ComposerInvariant, PTL

\* What was written is in the composer, sent, in Drafts or given up.
THEOREM WrittenIsSomewhere == ComposerSpec => []NothingLost
<1>1. ComposerInv => NothingLost
  BY DEF ComposerInv
<1>2. QED
  BY <1>1, ComposerInvariant, PTL

=============================================================================
