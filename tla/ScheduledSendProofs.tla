------------------------ MODULE ScheduledSendProofs -------------------------
(***************************************************************************)
(* Proofs about ScheduledSend, for any set of messages and any number of   *)
(* handlers in flight.                                                     *)
(***************************************************************************)
EXTENDS ScheduledSend, TLAPS

-----------------------------------------------------------------------------
(* The inductive invariant.                                                *)

\* The step a handler waits at goes with the request it serves.
StepOfOp(l) ==
  /\ l.pc \in {"schedule", "cancel", "flush"} => l.op = l.pc
  /\ l.pc = "write" => l.op # "none"
  /\ l.pc \in {"idle", "mfa", "clean"} => l.op = "none"

\* An entry that is being added was not accepted yet and is added once; an
\* entry that is being removed was accepted.
ArgOfOp ==
  /\ cancelled \subseteq accepted
  /\ accepted \subseteq created
  /\ \A r \in Req :
       /\ req[r].op = "schedule" => req[r].arg \subseteq created \ accepted
       /\ req[r].op = "cancel" => req[r].arg \subseteq accepted
  /\ \A r, s \in Req :
       r # s /\ req[r].op = "schedule" /\ req[s].op = "schedule"
         => req[r].arg \intersect req[s].arg = {}

\* What a flush will drop from the list and has no longer to send was handed
\* to SMTP, and it drops nothing before it has gone through the loop.
FlushedWasSent ==
  \A r \in Req :
    req[r].op = "flush" =>
      /\ \A m \in req[r].arg \ req[r].todo : sent[m] > 0 \/ m \in refused
      /\ req[r].pc = "write" => req[r].todo = {}

IInv ==
  /\ TypeOK
  /\ \A r \in Req : StepOfOp(req[r])
  /\ ArgOfOp
  /\ FlushedWasSent
  /\ NoSilentLoss
  /\ NoResurrection
  /\ OtpKept

-----------------------------------------------------------------------------
LEMMA IdleType == Idle \in Local /\ Blank \in Prefs
  BY DEF Idle, Local, Blank, Prefs, PC

\* The record types every handler's local state is in.
LEMMA LocalFields ==
  ASSUME NEW l \in Local
  PROVE  /\ l.pc \in PC /\ l.op \in {"none", "schedule", "cancel", "flush"}
         /\ l.seen \subseteq Mail /\ l.arg \subseteq Mail /\ l.todo \subseteq Mail
         /\ l.on \in BOOLEAN /\ l.base \in Prefs
  BY DEF Local

\* Every state the program reaches is well typed.
THEOREM TypeCorrect == Spec => []TypeOK
<1>1. Init => TypeOK
  BY IdleType, BoundAssumption DEF Init, TypeOK, Blank, Prefs
<1>2. TypeOK /\ [Next]_vars => TypeOK'
  <2> SUFFICES ASSUME TypeOK, [Next]_vars PROVE TypeOK'
    OBVIOUS
  <2> USE DEF TypeOK, history
  <2>1. ASSUME NEW r \in Req, NEW m \in Mail, ScheduleRead(r, m) PROVE TypeOK'
    BY <2>1, IdleType DEF ScheduleRead, Begin, Local, Prefs, Idle, PC
  <2>2. ASSUME NEW r \in Req, NEW m \in Mail, CancelRead(r, m) PROVE TypeOK'
    BY <2>2, IdleType DEF CancelRead, Begin, Local, Prefs, Idle, PC
  <2>3. ASSUME NEW r \in Req, FlushRead(r) PROVE TypeOK'
    BY <2>3, IdleType DEF FlushRead, Begin, Due, Local, Prefs, Idle, PC
  <2>4. ASSUME NEW r \in Req, NEW on \in BOOLEAN, MfaRead(r, on) PROVE TypeOK'
    BY <2>4, IdleType DEF MfaRead, Begin, Local, Idle, PC
  <2>5. ASSUME NEW r \in Req, CleanRead(r) PROVE TypeOK'
    BY <2>5, IdleType DEF CleanRead, Begin, Local, Idle, PC
  <2>6. ASSUME NEW r \in Req, NEW m \in Mail, FlushSend(r, m) PROVE TypeOK'
    BY <2>6 DEF FlushSend, Local
  <2>7. ASSUME NEW r \in Req, WriteRead(r) PROVE TypeOK'
    BY <2>7 DEF WriteRead, Local, PC
  <2>8. ASSUME NEW r \in Req, WriteUpsert(r) PROVE TypeOK'
    <3>1. req[r].seen \subseteq Mail /\ req[r].arg \subseteq Mail /\ req[r].base \in Prefs
      BY LocalFields
    <3>2. NewList(req[r]) \subseteq Mail
      BY <3>1 DEF NewList
    <3>3. prefs' \in Prefs
      BY <2>8, <3>1, <3>2 DEF WriteUpsert, Prefs
    <3>4. accepted' \subseteq Mail /\ cancelled' \subseteq Mail /\ stale' \in BOOLEAN
      BY <2>8, <3>1 DEF WriteUpsert
    <3> QED
      BY <2>8, <3>3, <3>4, IdleType DEF WriteUpsert
  <2>9. ASSUME NEW r \in Req, MfaUpsert(r) PROVE TypeOK'
    BY <2>9, IdleType, LocalFields DEF MfaUpsert, Prefs
  <2>10. ASSUME NEW r \in Req, CleanUpdate(r) PROVE TypeOK'
    BY <2>10, IdleType, LocalFields DEF CleanUpdate, Prefs
  <2>11. CASE BrowserLoad
    BY <2>11 DEF BrowserLoad
  <2>12. CASE BrowserPut
    BY <2>12 DEF BrowserPut
  <2>13. CASE Tick
    BY <2>13 DEF Tick
  <2>14. CASE Crash
    BY <2>14, IdleType DEF Crash
  <2>15. CASE UNCHANGED vars
    BY <2>15 DEF vars
  <2> QED
    BY <2>1, <2>2, <2>3, <2>4, <2>5, <2>6, <2>7, <2>8, <2>9, <2>10, <2>11,
       <2>12, <2>13, <2>14, <2>15 DEF Next, Start, Continue
<1> QED
  BY <1>1, <1>2, PTL DEF Spec

-----------------------------------------------------------------------------
(* Safety.  A step of handler r changes nobody else's local state, so each *)
(* case looks at r alone and at the pairs r is part of.                    *)

\* Starting a handler that adds nothing to the queue disturbs no conjunct.
LEMMA StartKeeps ==
  ASSUME IInv, TypeOK', NEW r \in Req, NEW l \in Local,
         req[r].pc = "idle", req' = [req EXCEPT ![r] = l],
         l.op \in {"none", "cancel", "flush"}, StepOfOp(l),
         l.op = "cancel" => l.arg \subseteq accepted,
         l.op = "flush" => l.arg = l.todo /\ l.pc = "flush",
         UNCHANGED <<prefs, created, history>>
  PROVE  IInv'
<1> USE DEF IInv, history
<1>1. \A s \in Req : req'[s] = IF s = r THEN l ELSE req[s]
  BY DEF TypeOK
<1>2. (\A s \in Req : StepOfOp(req[s]))'
  BY <1>1 DEF StepOfOp
<1>3. ArgOfOp'
  BY <1>1 DEF ArgOfOp
<1>4. FlushedWasSent'
  BY <1>1 DEF FlushedWasSent
<1>5. NoSilentLoss' /\ NoResurrection' /\ OtpKept'
  BY DEF NoSilentLoss, NoResurrection, OtpKept
<1> QED
  BY <1>2, <1>3, <1>4, <1>5

\* Ending a handler, or all of them, disturbs none of the conjuncts about the
\* handlers that go on, as long as the history only grows.
LEMMA EndKeeps ==
  ASSUME IInv, TypeOK', NEW E,
         req' = [s \in Req |-> IF s \in E THEN Idle ELSE req[s]],
         created' = created, cancelled' \subseteq accepted', accepted' \subseteq created,
         accepted \subseteq accepted',
         \A s \in Req \ E : req[s].op = "schedule" => req[s].arg \intersect accepted' = {},
         UNCHANGED <<sent, refused>>
  PROVE  (\A s \in Req : StepOfOp(req[s]))' /\ ArgOfOp' /\ FlushedWasSent'
<1> USE DEF IInv
<1>1. \A s \in Req : req'[s] = IF s \in E THEN Idle ELSE req[s]
  OBVIOUS
<1>2. Idle.pc = "idle" /\ Idle.op = "none"
  BY DEF Idle
<1>3. (\A s \in Req : StepOfOp(req[s]))'
  BY <1>1, <1>2 DEF StepOfOp
<1>4. ArgOfOp'
  BY <1>1, <1>2 DEF ArgOfOp
<1>5. FlushedWasSent'
  BY <1>1, <1>2 DEF FlushedWasSent
<1> QED
  BY <1>3, <1>4, <1>5

LEMMA InitIInv == Init => IInv
<1> SUFFICES ASSUME Init PROVE IInv
  OBVIOUS
<1>1. TypeOK
  BY IdleType, BoundAssumption DEF Init, TypeOK, Blank, Prefs
<1>2. \A r \in Req : req[r] = Idle
  BY DEF Init
<1> QED
  BY <1>1, <1>2 DEF Init, IInv, StepOfOp, ArgOfOp, FlushedWasSent, NoSilentLoss,
                    NoResurrection, OtpKept, Idle, Blank

LEMMA StepIInv == IInv /\ TypeOK' /\ [Next]_vars => IInv'
<1> SUFFICES ASSUME IInv, TypeOK', [Next]_vars PROVE IInv'
  OBVIOUS
<1>0. TypeOK
  BY DEF IInv
<1>1. ASSUME NEW r \in Req, NEW m \in Mail, ScheduleRead(r, m) PROVE IInv'
  <2> DEFINE l == [Idle EXCEPT !.pc = "schedule", !.op = "schedule",
                               !.seen = prefs.scheduled, !.arg = {m}]
  <2>1. req' = [req EXCEPT ![r] = l] /\ UNCHANGED <<prefs, history>>
    BY <1>1 DEF ScheduleRead
  <2>2. \A s \in Req : req'[s] = IF s = r THEN l ELSE req[s]
    BY <2>1, <1>0 DEF TypeOK
  <2>3. l.pc = "schedule" /\ l.op = "schedule" /\ l.arg = {m}
    BY DEF Idle
  <2> HIDE DEF l
  <2>4. m \notin created /\ created' = created \union {m}
    BY <1>1 DEF ScheduleRead
  <2>5. (\A s \in Req : StepOfOp(req[s]))'
    BY <2>2, <2>3 DEF IInv, StepOfOp
  <2>6. \A s \in Req : s # r /\ req[s].op = "schedule" => m \notin req[s].arg
    BY <2>4 DEF IInv, ArgOfOp
  <2>7. ArgOfOp'
    BY <2>1, <2>2, <2>3, <2>4, <2>6 DEF IInv, ArgOfOp, history
  <2>8. FlushedWasSent'
    BY <2>1, <2>2, <2>3 DEF IInv, FlushedWasSent, history
  <2>9. NoSilentLoss' /\ NoResurrection' /\ OtpKept'
    BY <2>1 DEF IInv, NoSilentLoss, NoResurrection, OtpKept, history
  <2> QED
    BY <2>5, <2>7, <2>8, <2>9 DEF IInv
<1>2. ASSUME NEW r \in Req, NEW m \in Mail, CancelRead(r, m) PROVE IInv'
  <2> DEFINE l == [Idle EXCEPT !.pc = "cancel", !.op = "cancel",
                               !.seen = prefs.scheduled, !.arg = {m}]
  <2>1. l \in Local /\ StepOfOp(l) /\ l.op = "cancel" /\ l.arg = {m}
    BY <1>0, IdleType DEF Idle, Local, StepOfOp, PC, TypeOK, Prefs
  <2>2. req[r].pc = "idle" /\ req' = [req EXCEPT ![r] = l] /\ m \in accepted
        /\ UNCHANGED <<prefs, created, history>>
    BY <1>2 DEF CancelRead, Begin
  <2> QED
    BY <2>1, <2>2, StartKeeps
<1>3. ASSUME NEW r \in Req, FlushRead(r) PROVE IInv'
  <2> DEFINE l == [Idle EXCEPT !.pc = "flush", !.op = "flush",
                               !.seen = prefs.scheduled,
                               !.arg = Due(prefs.scheduled),
                               !.todo = Due(prefs.scheduled)]
  <2>1. l \in Local /\ StepOfOp(l) /\ l.op = "flush" /\ l.arg = l.todo /\ l.pc = "flush"
    BY <1>0, IdleType DEF Idle, Local, StepOfOp, PC, TypeOK, Prefs, Due
  <2>2. req[r].pc = "idle" /\ req' = [req EXCEPT ![r] = l]
        /\ UNCHANGED <<prefs, created, history>>
    BY <1>3 DEF FlushRead, Begin
  <2> QED
    BY <2>1, <2>2, StartKeeps
<1>4. ASSUME NEW r \in Req, NEW on \in BOOLEAN, MfaRead(r, on) PROVE IInv'
  <2> DEFINE l == [Idle EXCEPT !.pc = "mfa", !.on = on, !.base = prefs]
  <2>1. l \in Local /\ StepOfOp(l) /\ l.op = "none"
    BY <1>0, IdleType DEF Idle, Local, StepOfOp, PC, TypeOK
  <2>2. req[r].pc = "idle" /\ req' = [req EXCEPT ![r] = l]
        /\ UNCHANGED <<prefs, created, history>>
    BY <1>4 DEF MfaRead, Begin
  <2> QED
    BY <2>1, <2>2, StartKeeps
<1>5. ASSUME NEW r \in Req, CleanRead(r) PROVE IInv'
  <2> DEFINE l == [Idle EXCEPT !.pc = "clean", !.base = prefs]
  <2>1. l \in Local /\ StepOfOp(l) /\ l.op = "none"
    BY <1>0, IdleType DEF Idle, Local, StepOfOp, PC, TypeOK
  <2>2. req[r].pc = "idle" /\ req' = [req EXCEPT ![r] = l]
        /\ UNCHANGED <<prefs, created, history>>
    BY <1>5 DEF CleanRead, Begin
  <2> QED
    BY <2>1, <2>2, StartKeeps
<1>6. ASSUME NEW r \in Req, NEW m \in Mail, FlushSend(r, m) PROVE IInv'
  <2>1. req' = [req EXCEPT ![r].todo = @ \ {m}] /\ req[r].pc = "flush" /\ m \in req[r].todo
        /\ UNCHANGED <<prefs, created, accepted, cancelled, otp, stale>>
    BY <1>6 DEF FlushSend
  <2>2. \A n \in Mail : /\ sent'[n] >= sent[n] /\ refused \subseteq refused'
                        /\ sent'[m] > 0 \/ m \in refused'
    BY <1>0, <1>6 DEF FlushSend, TypeOK
  <2>3. \A s \in Req : /\ req'[s].pc = req[s].pc /\ req'[s].op = req[s].op
                       /\ req'[s].arg = req[s].arg
                       /\ req'[s].todo = IF s = r THEN req[s].todo \ {m} ELSE req[s].todo
    BY <1>0, <2>1 DEF TypeOK, Local
  <2>4. (\A s \in Req : StepOfOp(req[s]))'
    BY <2>3 DEF IInv, StepOfOp
  <2>5. ArgOfOp'
    BY <2>1, <2>3 DEF IInv, ArgOfOp
  <2>6. ASSUME NEW n \in Mail, sent[n] > 0 \/ n \in refused PROVE sent'[n] > 0 \/ n \in refused'
    BY <1>0, <2>2, <2>6 DEF TypeOK
  <2>7. FlushedWasSent'
    <3> SUFFICES ASSUME NEW s \in Req, req'[s].op = "flush"
                 PROVE  /\ \A n \in req'[s].arg \ req'[s].todo : sent'[n] > 0 \/ n \in refused'
                        /\ req'[s].pc = "write" => req'[s].todo = {}
      BY DEF FlushedWasSent
    <3>1. req[s].arg \subseteq Mail
      BY <1>0, LocalFields DEF TypeOK
    <3>2. ASSUME NEW n \in req[s].arg, n \notin req'[s].todo PROVE sent'[n] > 0 \/ n \in refused'
      <4>1. CASE n = m
        BY <4>1, <2>2
      <4>2. CASE n # m
        <5>1. n \notin req[s].todo
          BY <3>2, <4>2, <2>3
        <5> QED
          BY <5>1, <2>3, <2>6, <3>1, <3>2 DEF IInv, FlushedWasSent
      <4> QED
        BY <4>1, <4>2
    <3>3. req'[s].pc = "write" => req'[s].todo = {}
      BY <2>3 DEF IInv, FlushedWasSent
    <3> QED
      BY <2>3, <3>2, <3>3
  <2>8. NoSilentLoss'
    BY <1>0, <2>1, <2>6 DEF IInv, NoSilentLoss, TypeOK
  <2>9. NoResurrection' /\ OtpKept'
    BY <2>1 DEF IInv, NoResurrection, OtpKept
  <2> QED
    BY <2>4, <2>5, <2>7, <2>8, <2>9 DEF IInv
<1>7. ASSUME NEW r \in Req, WriteRead(r) PROVE IInv'
  <2>1. req' = [req EXCEPT ![r] = [@ EXCEPT !.pc = "write", !.base = prefs]]
        /\ req[r].pc \in {"schedule", "cancel", "flush"} /\ req[r].todo = {}
        /\ UNCHANGED <<prefs, created, history>>
    BY <1>7 DEF WriteRead
  <2>2. \A s \in Req : /\ req'[s].pc = (IF s = r THEN "write" ELSE req[s].pc)
                       /\ req'[s].op = req[s].op /\ req'[s].arg = req[s].arg
                       /\ req'[s].todo = req[s].todo
    BY <1>0, <2>1 DEF TypeOK, Local
  <2>3. (\A s \in Req : StepOfOp(req[s]))'
    BY <2>1, <2>2 DEF IInv, StepOfOp
  <2>4. ArgOfOp'
    BY <2>1, <2>2 DEF IInv, ArgOfOp, history
  <2>5. FlushedWasSent'
    BY <2>1, <2>2 DEF IInv, FlushedWasSent, history
  <2>6. NoSilentLoss' /\ NoResurrection' /\ OtpKept'
    BY <2>1 DEF IInv, NoSilentLoss, NoResurrection, OtpKept, history
  <2> QED
    BY <2>3, <2>4, <2>5, <2>6 DEF IInv
<1>8. ASSUME NEW r \in Req, WriteUpsert(r) PROVE IInv'
  <2>1. /\ req[r].pc = "write"
        /\ req[r].op \in {"schedule", "cancel", "flush"}
        /\ req[r].base \in Prefs /\ req[r].arg \subseteq Mail
    BY <1>0, <1>8, LocalFields DEF WriteUpsert, IInv, StepOfOp, TypeOK
  <2>2. /\ prefs'.scheduled = NewList(req[r])
        /\ prefs'.emailOtp = req[r].base.emailOtp
        /\ UNCHANGED <<created, sent, refused, otp>>
    BY <1>8, <2>1 DEF WriteUpsert, Prefs
  <2>3. ~stale' => /\ ~stale /\ req[r].seen = prefs.scheduled
                   /\ req[r].base.emailOtp = prefs.emailOtp
    BY <1>8 DEF WriteUpsert
  <2>4. accepted' = IF req[r].op = "schedule" THEN accepted \union req[r].arg ELSE accepted
    BY <1>8 DEF WriteUpsert
  <2>5. cancelled' = IF req[r].op = "cancel" THEN cancelled \union req[r].arg ELSE cancelled
    BY <1>8 DEF WriteUpsert
  <2>6. req' = [s \in Req |-> IF s \in {r} THEN Idle ELSE req[s]]
    BY <1>0, <1>8 DEF WriteUpsert, TypeOK
  <2>7. \A s \in Req \ {r} : req[s].op = "schedule" => req[s].arg \intersect accepted' = {}
    BY <2>4 DEF IInv, ArgOfOp
  <2>8. cancelled' \subseteq accepted' /\ accepted' \subseteq created /\ accepted \subseteq accepted'
    BY <2>4, <2>5 DEF IInv, ArgOfOp
  <2>9. (\A s \in Req : StepOfOp(req[s]))' /\ ArgOfOp' /\ FlushedWasSent'
    BY <2>2, <2>6, <2>7, <2>8, EndKeeps
  <2>10. NoSilentLoss'
    <3> SUFFICES ASSUME ~stale', NEW m \in accepted' \ cancelled'
                 PROVE  m \in prefs'.scheduled \/ sent[m] > 0 \/ m \in refused
      BY <2>2 DEF NoSilentLoss
    <3>1. CASE req[r].op = "schedule"
      BY <3>1, <2>2, <2>3, <2>4, <2>5 DEF IInv, NoSilentLoss, NewList
    <3>2. CASE req[r].op = "cancel"
      BY <3>2, <2>2, <2>3, <2>4, <2>5 DEF IInv, NoSilentLoss, NewList
    <3>3. CASE req[r].op = "flush"
      BY <3>3, <2>1, <2>2, <2>3, <2>4, <2>5 DEF IInv, NoSilentLoss, NewList, FlushedWasSent
    <3> QED
      BY <2>1, <3>1, <3>2, <3>3
  <2>11. NoResurrection'
    BY <2>1, <2>2, <2>3, <2>5 DEF IInv, NoResurrection, NewList, ArgOfOp
  <2>12. OtpKept'
    BY <2>2, <2>3 DEF IInv, OtpKept
  <2> QED
    BY <2>9, <2>10, <2>11, <2>12 DEF IInv
<1>9. ASSUME NEW r \in Req, MfaUpsert(r) PROVE IInv'
  <2>1. req' = [s \in Req |-> IF s \in {r} THEN Idle ELSE req[s]]
        /\ UNCHANGED <<created, accepted, cancelled, sent, refused>>
    BY <1>0, <1>9 DEF MfaUpsert, TypeOK
  <2>2. (\A s \in Req : StepOfOp(req[s]))' /\ ArgOfOp' /\ FlushedWasSent'
    <3>1. cancelled' \subseteq accepted' /\ accepted' \subseteq created /\ accepted \subseteq accepted'
      BY <2>1 DEF IInv, ArgOfOp
    <3>2. \A s \in Req \ {r} : req[s].op = "schedule" => req[s].arg \intersect accepted' = {}
      BY <2>1 DEF IInv, ArgOfOp
    <3> QED
      BY <2>1, <3>1, <3>2, EndKeeps
  <2>3. prefs'.scheduled = req[r].base.scheduled /\ prefs'.emailOtp = otp'
    BY <1>0, <1>9, LocalFields DEF MfaUpsert, Prefs, TypeOK
  <2>4. ~stale' => ~stale /\ req[r].base = prefs
    BY <1>9 DEF MfaUpsert
  <2> QED
    BY <2>1, <2>2, <2>3, <2>4 DEF IInv, NoSilentLoss, NoResurrection, OtpKept
<1>10. ASSUME NEW r \in Req, CleanUpdate(r) PROVE IInv'
  <2>1. req' = [s \in Req |-> IF s \in {r} THEN Idle ELSE req[s]]
        /\ UNCHANGED <<created, accepted, cancelled, sent, refused, otp>>
    BY <1>0, <1>10 DEF CleanUpdate, TypeOK
  <2>2. (\A s \in Req : StepOfOp(req[s]))' /\ ArgOfOp' /\ FlushedWasSent'
    <3>1. cancelled' \subseteq accepted' /\ accepted' \subseteq created /\ accepted \subseteq accepted'
      BY <2>1 DEF IInv, ArgOfOp
    <3>2. \A s \in Req \ {r} : req[s].op = "schedule" => req[s].arg \intersect accepted' = {}
      BY <2>1 DEF IInv, ArgOfOp
    <3> QED
      BY <2>1, <3>1, <3>2, EndKeeps
  <2>3. prefs'.scheduled = req[r].base.scheduled /\ prefs'.emailOtp = req[r].base.emailOtp
    BY <1>0, <1>10, LocalFields DEF CleanUpdate, Prefs, TypeOK
  <2>4. ~stale' => ~stale /\ req[r].base = prefs
    BY <1>10 DEF CleanUpdate
  <2> QED
    BY <2>1, <2>2, <2>3, <2>4 DEF IInv, NoSilentLoss, NoResurrection, OtpKept
<1>11. CASE BrowserLoad \/ Tick \/ UNCHANGED vars
  BY <1>11 DEF BrowserLoad, Tick, vars, history, IInv, StepOfOp, ArgOfOp, FlushedWasSent,
               NoSilentLoss, NoResurrection, OtpKept
<1>12. CASE BrowserPut
  BY <1>12 DEF BrowserPut, IInv, StepOfOp, ArgOfOp, FlushedWasSent,
               NoSilentLoss, NoResurrection, OtpKept
<1>13. CASE Crash
  <2>1. req' = [s \in Req |-> IF s \in Req THEN Idle ELSE req[s]]
        /\ UNCHANGED <<prefs, created, history>>
    BY <1>13 DEF Crash
  <2>2. (\A s \in Req : StepOfOp(req[s]))' /\ ArgOfOp' /\ FlushedWasSent'
    BY <2>1, EndKeeps DEF IInv, ArgOfOp, history
  <2> QED
    BY <2>1, <2>2 DEF IInv, NoSilentLoss, NoResurrection, OtpKept, history
<1> QED
  BY <1>1, <1>2, <1>3, <1>4, <1>5, <1>6, <1>7, <1>8, <1>9, <1>10, <1>11, <1>12, <1>13
  DEF Next, Start, Continue

THEOREM Inductive == Spec => []IInv
<1>1. TypeOK /\ IInv /\ [Next]_vars /\ TypeOK' => IInv'
  BY StepIInv
<1> QED
  BY InitIInv, <1>1, TypeCorrect, PTL DEF Spec

\* No accepted message is lost but by an outdated write.
THEOREM NothingLost == Spec => []NoSilentLoss
<1>1. IInv => NoSilentLoss
  BY DEF IInv
<1> QED
  BY Inductive, <1>1, PTL

\* No cancelled message returns to the queue but by an outdated write.
THEOREM NothingReturns == Spec => []NoResurrection
<1>1. IInv => NoResurrection
  BY DEF IInv
<1> QED
  BY Inductive, <1>1, PTL

\* The second factor changes only when the user switches it, or by an
\* outdated write.
THEOREM SecondFactorKept == Spec => []OtpKept
<1>1. IInv => OtpKept
  BY DEF IInv
<1> QED
  BY Inductive, <1>1, PTL

-----------------------------------------------------------------------------
(* Timing.  What a flush still has to send was due when it read the list,  *)
(* and the clock does not go back.                                         *)

DueInv == NeverEarly /\ \A r \in Req : \A m \in req[r].todo : DueAt[m] <= now

LEMMA StepDueInv == TypeOK /\ DueInv /\ [Next]_vars => DueInv'
<1> SUFFICES ASSUME TypeOK, DueInv, [Next]_vars PROVE DueInv'
  OBVIOUS
<1>1. now \in Nat /\ (\A m \in Mail : DueAt[m] \in Nat) /\ \A r \in Req : req[r].todo \subseteq Mail
  BY DueAtAssumption, LocalFields DEF TypeOK
\* Nothing is handed to SMTP, and what a flush has to send was due before.
<1>2. ASSUME sent' = sent, refused' = refused, now' \in Nat, now' >= now,
             \A r \in Req : \A m \in req'[r].todo : m \in req[r].todo \/ (m \in Mail /\ DueAt[m] <= now)
      PROVE  DueInv'
  <2>1. \A m \in Mail : DueAt[m] <= now => DueAt[m] <= now'
    BY <1>1, <1>2
  <2> QED
    BY <1>1, <1>2, <2>1 DEF DueInv, NeverEarly
<1>3. Idle.todo = {}
  BY DEF Idle
<1>4. ASSUME NEW r \in Req, NEW m \in Mail, ScheduleRead(r, m) \/ CancelRead(r, m) PROVE DueInv'
  <2>1. /\ \A s \in Req : req'[s].todo \subseteq req[s].todo
        /\ sent' = sent /\ refused' = refused /\ now' = now
    BY <1>4 DEF ScheduleRead, CancelRead, Idle, history, TypeOK
  <2> QED
    BY <1>1, <1>2, <2>1
<1>5. ASSUME NEW r \in Req, FlushRead(r) PROVE DueInv'
  <2>1. /\ \A s \in Req : req'[s].todo \subseteq req[s].todo \union Due(prefs.scheduled)
        /\ sent' = sent /\ refused' = refused /\ now' = now
    BY <1>5 DEF FlushRead, Idle, history, TypeOK
  <2>2. \A m \in Due(prefs.scheduled) : m \in Mail /\ DueAt[m] <= now
    BY DEF Due, TypeOK, Prefs
  <2> QED
    BY <1>1, <1>2, <2>1, <2>2
<1>6. ASSUME NEW r \in Req, NEW m \in Mail, FlushSend(r, m) PROVE DueInv'
  <2>1. \A s \in Req : req'[s].todo \subseteq req[s].todo
    BY <1>6 DEF FlushSend, TypeOK
  <2>2. DueAt[m] <= now /\ now' = now
    BY <1>6 DEF FlushSend, DueInv
  <2>3. \A n \in Mail \ {m} : sent'[n] = sent[n] /\ (n \in refused' => n \in refused)
    BY <1>6 DEF FlushSend, TypeOK
  <2> QED
    BY <2>1, <2>2, <2>3 DEF DueInv, NeverEarly
<1>7. ASSUME NEW r \in Req,
             \/ \E on \in BOOLEAN : MfaRead(r, on)
             \/ CleanRead(r) \/ WriteRead(r) \/ WriteUpsert(r) \/ MfaUpsert(r) \/ CleanUpdate(r)
      PROVE DueInv'
  <2>1. sent' = sent /\ refused' = refused /\ now' = now
    BY <1>7 DEF MfaRead, CleanRead, WriteRead, WriteUpsert, MfaUpsert, CleanUpdate, history
  <2>2. \A s \in Req : req'[s].todo \subseteq req[s].todo
    <3>1. CASE WriteRead(r)
      BY <3>1 DEF WriteRead, TypeOK
    <3>2. CASE \E on \in BOOLEAN : MfaRead(r, on)
      BY <3>2 DEF MfaRead, Idle, TypeOK
    <3>3. CASE CleanRead(r)
      BY <3>3 DEF CleanRead, Idle, TypeOK
    <3>4. CASE WriteUpsert(r) \/ MfaUpsert(r) \/ CleanUpdate(r)
      BY <1>3, <3>4 DEF WriteUpsert, MfaUpsert, CleanUpdate, TypeOK
    <3> QED
      BY <1>7, <3>1, <3>2, <3>3, <3>4
  <2> QED
    BY <1>1, <1>2, <2>1, <2>2
<1>8. CASE Tick
  BY <1>1, <1>2, <1>8 DEF Tick, history
<1>9. CASE BrowserLoad \/ BrowserPut \/ UNCHANGED vars
  BY <1>1, <1>2, <1>9 DEF BrowserLoad, BrowserPut, history, vars
<1>10. CASE Crash
  <2>1. \A s \in Req : req'[s].todo = {}
    BY <1>10, <1>3 DEF Crash
  <2>2. sent' = sent /\ refused' = refused /\ now' = now
    BY <1>10 DEF Crash, history
  <2> QED
    BY <1>1, <1>2, <2>1, <2>2
<1> QED
  BY <1>4, <1>5, <1>6, <1>7, <1>8, <1>9, <1>10 DEF Next, Start, Continue

\* For any number of handlers and whatever outdated copies they write: no
\* message leaves before its time.
THEOREM NothingEarly == Spec => []NeverEarly
<1>1. Init => DueInv
  BY DEF Init, DueInv, NeverEarly, Idle
<1>2. DueInv => NeverEarly
  BY DEF DueInv
<1> QED
  BY <1>1, <1>2, StepDueInv, TypeCorrect, PTL DEF Spec

-----------------------------------------------------------------------------
(* One handler at a time, and no tab that saves an old copy.  What a       *)
(* handler has read is then what the row still holds when it writes.       *)

Current(l) ==
  /\ l.op # "none" => l.seen = prefs.scheduled
  /\ l.pc \in {"write", "mfa", "clean"} => l.base = prefs
  /\ l.op = "flush" => l.arg \subseteq l.seen /\ l.todo \subseteq l.arg
  /\ l.op \in {"schedule", "cancel"} => l.todo = {} /\ \E m \in Mail : l.arg = {m}

SerialInv ==
  /\ cancelled \intersect prefs.scheduled = {}
  /\ \A r \in Req : Current(req[r])

Serial == (\A r, s \in Req : r = s) /\ "put" \notin Ops

LEMMA StepSerialInv ==
  ASSUME Serial, TypeOK, IInv, SerialInv, [Next]_vars
  PROVE  SerialInv'
<1>1. Current(Idle)'
  BY DEF Current, Idle
\* A handler begins, or goes on, and the row stays.
<1>2. ASSUME NEW r \in Req, NEW l, req' = [req EXCEPT ![r] = l], prefs' = prefs,
             cancelled' = cancelled, Current(l)
      PROVE  SerialInv'
  <2>1. \A s \in Req : s = r /\ req'[s] = l
    BY <1>2 DEF Serial, TypeOK
  <2>2. Current(l)'
    BY <1>2 DEF Current
  <2> QED
    BY <1>2, <2>1, <2>2 DEF SerialInv
\* A handler writes and ends.
<1>3. ASSUME NEW r \in Req, req' = [req EXCEPT ![r] = Idle],
             cancelled' \intersect prefs'.scheduled = {}
      PROVE  SerialInv'
  <2>1. \A s \in Req : req'[s] = Idle
    BY <1>3 DEF Serial, TypeOK
  <2> QED
    BY <1>1, <1>3, <2>1 DEF SerialInv
<1>4. ASSUME NEW r \in Req, NEW m \in Mail, ScheduleRead(r, m) PROVE SerialInv'
  <2> DEFINE l == [Idle EXCEPT !.pc = "schedule", !.op = "schedule",
                               !.seen = prefs.scheduled, !.arg = {m}]
  <2>1. Current(l)
    BY DEF Current, Idle
  <2> QED
    BY <1>2, <1>4, <2>1 DEF ScheduleRead, history
<1>5. ASSUME NEW r \in Req, NEW m \in Mail, CancelRead(r, m) PROVE SerialInv'
  <2> DEFINE l == [Idle EXCEPT !.pc = "cancel", !.op = "cancel",
                               !.seen = prefs.scheduled, !.arg = {m}]
  <2>1. Current(l)
    BY DEF Current, Idle
  <2> QED
    BY <1>2, <1>5, <2>1 DEF CancelRead, history
<1>6. ASSUME NEW r \in Req, FlushRead(r) PROVE SerialInv'
  <2> DEFINE l == [Idle EXCEPT !.pc = "flush", !.op = "flush",
                               !.seen = prefs.scheduled, !.arg = Due(prefs.scheduled),
                               !.todo = Due(prefs.scheduled)]
  <2>1. Current(l)
    BY DEF Current, Idle, Due
  <2> QED
    BY <1>2, <1>6, <2>1 DEF FlushRead, history
<1>7. ASSUME NEW r \in Req, NEW on \in BOOLEAN, MfaRead(r, on) PROVE SerialInv'
  <2> DEFINE l == [Idle EXCEPT !.pc = "mfa", !.on = on, !.base = prefs]
  <2>1. Current(l)
    BY DEF Current, Idle
  <2> QED
    BY <1>2, <1>7, <2>1 DEF MfaRead, history
<1>8. ASSUME NEW r \in Req, CleanRead(r) PROVE SerialInv'
  <2> DEFINE l == [Idle EXCEPT !.pc = "clean", !.base = prefs]
  <2>1. Current(l)
    BY DEF Current, Idle
  <2> QED
    BY <1>2, <1>8, <2>1 DEF CleanRead, history
<1>9. ASSUME NEW r \in Req, NEW m \in Mail, FlushSend(r, m) PROVE SerialInv'
  <2> DEFINE l == [req[r] EXCEPT !.todo = @ \ {m}]
  <2>1. req[r] \in Local
    BY DEF TypeOK
  <2>2. /\ l.op = req[r].op /\ l.seen = req[r].seen /\ l.pc = req[r].pc
        /\ l.base = req[r].base /\ l.arg = req[r].arg /\ l.todo = req[r].todo \ {m}
    BY <2>1 DEF Local
  <2>3. req' = [req EXCEPT ![r] = l] /\ prefs' = prefs /\ cancelled' = cancelled
    BY <1>9 DEF FlushSend
  <2> HIDE DEF l
  <2>4. Current(l)
    BY <2>2 DEF SerialInv, Current
  <2> QED
    BY <1>2, <2>3, <2>4
<1>10. ASSUME NEW r \in Req, WriteRead(r) PROVE SerialInv'
  <2> DEFINE l == [req[r] EXCEPT !.pc = "write", !.base = prefs]
  <2>1. req[r] \in Local
    BY DEF TypeOK
  <2>2. /\ l.op = req[r].op /\ l.seen = req[r].seen
        /\ l.base = prefs /\ l.arg = req[r].arg /\ l.todo = req[r].todo
    BY <2>1 DEF Local
  <2>3. req' = [req EXCEPT ![r] = l] /\ prefs' = prefs /\ cancelled' = cancelled
    BY <1>10 DEF WriteRead, history
  <2> HIDE DEF l
  <2>4. Current(l)
    BY <2>2 DEF SerialInv, Current
  <2> QED
    BY <1>2, <2>3, <2>4
<1>11. ASSUME NEW r \in Req, WriteUpsert(r) PROVE SerialInv'
  <2>1. prefs'.scheduled = NewList(req[r]) /\ req' = [req EXCEPT ![r] = Idle]
    BY <1>11, LocalFields DEF WriteUpsert, TypeOK, Prefs
  <2>2. req[r].op \in {"schedule", "cancel", "flush"} /\ req[r].seen = prefs.scheduled
    BY <1>11, LocalFields DEF WriteUpsert, IInv, StepOfOp, SerialInv, Current, TypeOK
  <2>3. cancelled' \intersect NewList(req[r]) = {}
    <3>1. CASE req[r].op = "schedule"
      <4>1. cancelled' = cancelled /\ NewList(req[r]) = prefs.scheduled \union req[r].arg
        BY <1>11, <2>2, <3>1 DEF WriteUpsert, NewList
      <4>2. cancelled \intersect req[r].arg = {}
        BY <3>1 DEF IInv, ArgOfOp
      <4> QED
        BY <4>1, <4>2 DEF SerialInv
    <3>2. CASE req[r].op \in {"cancel", "flush"}
      <4>1. NewList(req[r]) = prefs.scheduled \ req[r].arg /\ cancelled' \subseteq cancelled \union req[r].arg
        BY <1>11, <2>2, <3>2 DEF WriteUpsert, NewList
      <4> QED
        BY <4>1 DEF SerialInv
    <3> QED
      BY <2>2, <3>1, <3>2
  <2> QED
    BY <1>3, <2>1, <2>3
<1>12. ASSUME NEW r \in Req, MfaUpsert(r) \/ CleanUpdate(r) PROVE SerialInv'
  <2>1. req[r].base = prefs
    BY <1>12 DEF MfaUpsert, CleanUpdate, SerialInv, Current
  <2>2. /\ prefs'.scheduled = prefs.scheduled /\ cancelled' = cancelled
        /\ req' = [req EXCEPT ![r] = Idle]
    BY <1>12, <2>1 DEF MfaUpsert, CleanUpdate, TypeOK, Prefs
  <2> QED
    BY <1>3, <2>2 DEF SerialInv
<1>13. CASE BrowserLoad \/ BrowserPut
  BY <1>13 DEF BrowserLoad, BrowserPut, Serial
<1>14. CASE Crash
  BY <1>1, <1>14 DEF Crash, SerialInv, history
<1>15. CASE Tick \/ UNCHANGED vars
  BY <1>15 DEF Tick, vars, SerialInv, Current, history
<1> QED
  BY <1>4, <1>5, <1>6, <1>7, <1>8, <1>9, <1>10, <1>11, <1>12, <1>13, <1>14, <1>15
  DEF Next, Start, Continue

\* Every step is a step of Outbox or changes nothing of it.
LEMMA StepQueue ==
  ASSUME Serial, TypeOK, IInv, SerialInv, [Next]_vars
  PROVE  [Queue!ONext]_(Queue!ovars)
<1> DEFINE Same == UNCHANGED <<prefs.scheduled, accepted, sent, refused>>
<1>1. Same => UNCHANGED Queue!ovars
  BY DEF Queue!ovars
<1>2. ASSUME NEW r \in Req, NEW m \in Mail, FlushSend(r, m) PROVE Queue!ONext
  <2>1. req[r].op = "flush"
    BY <1>2 DEF FlushSend, IInv, StepOfOp
  <2>2. m \in prefs.scheduled
    BY <1>2, <2>1 DEF FlushSend, SerialInv, Current
  <2>3. Queue!Deliver(m) \/ Queue!Refuse(m)
    BY <1>2, <2>2 DEF FlushSend, Queue!Deliver, Queue!Refuse
  <2> QED
    BY <2>3 DEF Queue!ONext
<1>3. ASSUME NEW r \in Req, WriteUpsert(r) PROVE Queue!ONext \/ Same
  <2>1. prefs'.scheduled = NewList(req[r]) /\ UNCHANGED <<sent, refused>>
    BY <1>3, LocalFields DEF WriteUpsert, TypeOK, Prefs
  <2>2. req[r].op \in {"schedule", "cancel", "flush"} /\ req[r].seen = prefs.scheduled
    BY <1>3, LocalFields DEF WriteUpsert, IInv, StepOfOp, SerialInv, Current, TypeOK
  <2>3. CASE req[r].op = "schedule"
    <3>1. PICK m \in Mail : req[r].arg = {m}
      BY <2>3 DEF SerialInv, Current
    <3>2. m \notin accepted
      BY <2>3, <3>1 DEF IInv, ArgOfOp
    <3>3. Queue!Accept(m)
      BY <1>3, <2>1, <2>2, <2>3, <3>1, <3>2 DEF WriteUpsert, NewList, Queue!Accept
    <3> QED
      BY <3>3 DEF Queue!ONext
  <2>4. CASE req[r].op = "cancel"
    <3>1. PICK m \in Mail : req[r].arg = {m}
      BY <2>4 DEF SerialInv, Current
    <3>2. prefs'.scheduled = prefs.scheduled \ {m} /\ accepted' = accepted
      BY <1>3, <2>1, <2>2, <2>4, <3>1 DEF WriteUpsert, NewList
    <3>3. CASE m \in prefs.scheduled
      BY <2>1, <3>2, <3>3 DEF Queue!Withdraw, Queue!ONext
    <3>4. CASE m \notin prefs.scheduled
      BY <2>1, <3>2, <3>4
    <3> QED
      BY <3>3, <3>4
  <2>5. CASE req[r].op = "flush"
    <3> DEFINE S == req[r].arg
    <3>1. prefs'.scheduled = prefs.scheduled \ S /\ accepted' = accepted
      BY <1>3, <2>1, <2>2, <2>5 DEF WriteUpsert, NewList
    <3>2. S \subseteq prefs.scheduled /\ S \in SUBSET Mail
      BY <2>5, LocalFields DEF SerialInv, Current, TypeOK
    <3>3. \A m \in S : sent[m] > 0 \/ m \in refused
      BY <1>3, <2>5 DEF WriteUpsert, IInv, FlushedWasSent
    <3>4. Queue!Settle(S)
      BY <2>1, <3>1, <3>2, <3>3 DEF Queue!Settle
    <3> QED
      BY <3>2, <3>4 DEF Queue!ONext
  <2> QED
    BY <2>2, <2>3, <2>4, <2>5
<1>4. ASSUME NEW r \in Req, MfaUpsert(r) \/ CleanUpdate(r) PROVE Same
  <2>1. req[r].base = prefs
    BY <1>4 DEF MfaUpsert, CleanUpdate, SerialInv, Current
  <2> QED
    BY <1>4, <2>1 DEF MfaUpsert, CleanUpdate, TypeOK, Prefs
<1>5. CASE BrowserLoad \/ BrowserPut
  BY <1>5 DEF BrowserLoad, BrowserPut, Serial
<1>6. ASSUME NEW r \in Req, Start(r) \/ WriteRead(r) PROVE Same
  BY <1>6 DEF Start, ScheduleRead, CancelRead, FlushRead, MfaRead, CleanRead, WriteRead, history
<1>7. ASSUME Tick \/ Crash \/ UNCHANGED vars PROVE Same
  BY <1>7 DEF Tick, Crash, vars, history
<1> HIDE DEF Same
<1> QED
  BY <1>1, <1>2, <1>3, <1>4, <1>5, <1>6, <1>7 DEF Next, Continue

LEMMA InitSerial == Init => SerialInv /\ Queue!OInit
  BY DEF Init, SerialInv, Current, Idle, Blank, Queue!OInit

\* Handlers that do not overlap implement the abstract queue, for any number
\* of messages, SMTP errors and restarts.
THEOREM SerialOutbox ==
  ASSUME Serial
  PROVE  Spec => OutboxSpec
<1>1. TypeOK /\ IInv /\ SerialInv /\ [Next]_vars => SerialInv' /\ [Queue!ONext]_(Queue!ovars)
  BY StepSerialInv, StepQueue
<1> QED
  BY <1>1, InitSerial, TypeCorrect, Inductive, PTL DEF Spec, OutboxSpec, Queue!OSpec

\* With one handler at a time no copy of a message leaves after its
\* cancellation was acknowledged.
THEOREM SerialCancelWins ==
  ASSUME Serial
  PROVE  Spec => CancelWins
<1>1. ASSUME TypeOK, IInv, SerialInv, [Next]_vars
      PROVE  SerialInv' /\ [\A m \in cancelled : sent'[m] = sent[m]]_vars
  <2>1. ASSUME NEW r \in Req, NEW m \in Mail, FlushSend(r, m), NEW n \in cancelled
        PROVE  sent'[n] = sent[n]
    <3>1. req[r].op = "flush"
      BY <1>1, <2>1 DEF FlushSend, IInv, StepOfOp
    <3>2. m \in prefs.scheduled
      BY <1>1, <2>1, <3>1 DEF FlushSend, SerialInv, Current
    <3>3. n # m /\ n \in Mail
      BY <1>1, <2>1, <3>2 DEF SerialInv, TypeOK
    <3> QED
      BY <1>1, <2>1, <3>3 DEF FlushSend, TypeOK
  <2>2. ASSUME \A r \in Req : \A m \in Mail : ~FlushSend(r, m) PROVE sent' = sent
    BY <1>1, <2>2 DEF Next, Start, Continue, ScheduleRead, CancelRead, FlushRead, MfaRead,
       CleanRead, WriteRead, WriteUpsert, MfaUpsert, CleanUpdate, BrowserLoad, BrowserPut,
       Tick, Crash, vars, history
  <2> QED
    BY <1>1, <2>1, <2>2, StepSerialInv
<1>2. Init => SerialInv
  BY InitSerial
<1> QED
  BY <1>1, <1>2, TypeCorrect, Inductive, PTL DEF Spec, CancelWins

=============================================================================
