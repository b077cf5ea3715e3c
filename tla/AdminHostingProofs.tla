------------------------- MODULE AdminHostingProofs -------------------------
(***************************************************************************)
(* Proofs about MailboxQuota, for any number of concurrent requests, any   *)
(* limits and any files; about RegistrarSync, for any hosts; about         *)
(* Tenancy, for any accounts, domains, requests and caps; and about        *)
(* AdminPages, for any number of requests under way, pages opened and      *)
(* answers lost.                                                           *)
(***************************************************************************)
EXTENDS MailboxQuota, RegistrarSync, Tenancy, AdminPages, FiniteSetTheorems, TLAPS

(***************************************************************************)
(* MailboxQuota.                                                           *)
(***************************************************************************)

\* A request that works on a row has one.
HasRow ==
  \A r \in Req : req[r].pc \in {"unique", "count", "insert", "insertRow"} => req[r].rows # <<>>

WellFormed == TypeOK /\ HasRow

LEMMA IdleType == Idle \in Local /\ Idle.pc = "idle" /\ Idle.max = 0
BY DEF Idle, Local, PC

LEMMA HeadTail ==
  ASSUME NEW s \in Seq(FileRow), s # <<>>
  PROVE  Head(s) \in FileRow /\ Tail(s) \in Seq(FileRow)
OBVIOUS

\* Dropping a row leaves a well-formed request without a row in hand.
LEMMA DropType ==
  ASSUME WellFormed, NEW r \in Req, NEW n \in Int, req[r].rows # <<>>, Drop(r, n)
  PROVE  /\ req' \in [Req -> Local]
         /\ req'[r].pc = "row"
         /\ req'[r].remaining = req[r].remaining - n
         /\ req'[r].max = req[r].max
         /\ \A q \in Req \ {r} : req'[q] = req[q]
<1> DEFINE l == [pc |-> "row", max |-> req[r].max, rows |-> Tail(req[r].rows),
                 seen |-> req[r].seen \union {Current(r).addr},
                 remaining |-> req[r].remaining - n]
<1>1. req[r] \in Local
  BY DEF WellFormed, TypeOK
<1>2. Tail(req[r].rows) \in Seq(FileRow) /\ Current(r).addr \in Addr
  BY <1>1, HeadTail DEF Local, Current, FileRow
<1>3. l \in Local /\ l.pc = "row" /\ l.remaining = req[r].remaining - n /\ l.max = req[r].max
  BY <1>1, <1>2 DEF Local, PC
<1>4. req' = [req EXCEPT ![r] = l]
  BY DEF Drop
<1> HIDE DEF l
<1> QED
  BY <1>3, <1>4 DEF WellFormed, TypeOK

LEMMA GotoType ==
  ASSUME WellFormed, NEW r \in Req, NEW p \in PC, Goto(r, p)
  PROVE  /\ req' \in [Req -> Local]
         /\ req'[r].pc = p /\ req'[r].rows = req[r].rows
         /\ req'[r].remaining = req[r].remaining /\ req'[r].max = req[r].max
         /\ \A q \in Req \ {r} : req'[q] = req[q]
<1> DEFINE l == [req[r] EXCEPT !.pc = p]
<1>1. req[r] \in Local
  BY DEF WellFormed, TypeOK
<1>2. l \in Local /\ l.pc = p /\ l.rows = req[r].rows /\ l.remaining = req[r].remaining
      /\ l.max = req[r].max
  BY <1>1 DEF Local
<1>3. req' = [req EXCEPT ![r] = l]
  BY DEF Goto
<1> HIDE DEF l
<1> QED
  BY <1>2, <1>3 DEF WellFormed, TypeOK

LEMMA AnswerType ==
  ASSUME WellFormed, NEW r \in Req, Answer(r)
  PROVE  /\ req' \in [Req -> Local]
         /\ req'[r] = Idle
         /\ \A q \in Req \ {r} : req'[q] = req[q]
BY IdleType DEF Answer, WellFormed, TypeOK

LEMMA AskType ==
  ASSUME WellFormed, NEW r \in Req, NEW p \in PC, NEW f \in Seq(FileRow), Ask(r, p, f)
  PROVE  /\ req' \in [Req -> Local]
         /\ req'[r].pc = p /\ req'[r].rows = f
         /\ req'[r].max = domain.maxMailboxes
         /\ \A q \in Req \ {r} : req'[q] = req[q]
<1> DEFINE l == [req[r] EXCEPT !.pc = p, !.max = domain.maxMailboxes, !.rows = f]
<1>1. req[r] \in Local /\ domain.maxMailboxes \in Nat
  BY QuotaAssumption DEF WellFormed, TypeOK, Domain
<1>2. l \in Local /\ l.pc = p /\ l.rows = f /\ l.max = domain.maxMailboxes
  BY <1>1 DEF Local
<1>3. req' = [req EXCEPT ![r] = l]
  BY DEF Ask
<1> HIDE DEF l
<1> QED
  BY <1>2, <1>3 DEF WellFormed, TypeOK

LEMMA CurrentType ==
  ASSUME WellFormed, NEW r \in Req, req[r].rows # <<>>
  PROVE  Current(r).addr \in Addr
BY HeadTail DEF WellFormed, TypeOK, Local, Current, FileRow

LEMMA CountType ==
  ASSUME TypeOK
  PROVE  IsFiniteSet(boxes) /\ Cardinality(boxes) \in Nat
BY QuotaAssumption, FS_Subset, FS_CardinalityType DEF TypeOK

LEMMA StepWellFormed == WellFormed /\ [Next]_vars => WellFormed'
<1> SUFFICES ASSUME WellFormed, [Next]_vars PROVE WellFormed'
  OBVIOUS
<1>r. ASSUME NEW r \in Req, \A q \in Req \ {r} : req'[q] = req[q],
             req' \in [Req -> Local],
             \/ req'[r].pc \in {"idle", "total", "row"}
             \/ req'[r].rows # <<>>,
             domain' = domain, peak' = peak, boxes' \subseteq Addr
      PROVE  WellFormed'
  BY <1>r DEF WellFormed, TypeOK, HasRow
<1>b. boxes \subseteq Addr
  BY DEF WellFormed, TypeOK
<1>1. ASSUME NEW r \in Req, NEW a \in Addr, AskCreate(r, a) PROVE WellFormed'
  <2> DEFINE f == <<[addr |-> a, ok |-> TRUE]>>
  <2>1. f \in Seq(FileRow) /\ f # <<>> /\ "unique" \in PC
    BY DEF FileRow, PC
  <2>2. Ask(r, "unique", f)
    BY <1>1 DEF AskCreate
  <2> HIDE DEF f
  <2>3. /\ req' \in [Req -> Local] /\ req'[r].rows # <<>>
        /\ \A q \in Req \ {r} : req'[q] = req[q]
    BY <2>1, <2>2, AskType
  <2>4. domain' = domain /\ peak' = peak /\ boxes' = boxes
    BY <2>2 DEF Ask
  <2> QED
    BY <2>3, <2>4, <1>r, <1>b
<1>2. ASSUME NEW r \in Req, NEW f \in Files, AskImport(r, f) PROVE WellFormed'
  <2>1. f \in Seq(FileRow) /\ "total" \in PC /\ Ask(r, "total", f)
    BY <1>2, QuotaAssumption DEF PC, AskImport
  <2> QED
    BY <2>1, AskType, <1>r, <1>b DEF Ask
<1>3. ASSUME NEW r \in Req, CheckUnique(r) PROVE WellFormed'
  <2>1. "count" \in PC /\ req[r].rows # <<>>
    BY <1>3 DEF PC, CheckUnique, WellFormed, HasRow
  <2>2. CASE Answer(r)
    BY <1>3, <2>2, AnswerType, IdleType, <1>r, <1>b DEF CheckUnique
  <2>3. CASE Goto(r, "count")
    BY <1>3, <2>1, <2>3, GotoType, <1>r, <1>b DEF CheckUnique
  <2> QED
    BY <1>3, <2>2, <2>3 DEF CheckUnique
<1>4. ASSUME NEW r \in Req, CheckCap(r) PROVE WellFormed'
  <2>1. "insert" \in PC /\ req[r].rows # <<>>
    BY <1>4 DEF PC, CheckCap, WellFormed, HasRow
  <2>2. CASE Answer(r)
    BY <1>4, <2>2, AnswerType, IdleType, <1>r, <1>b DEF CheckCap
  <2>3. CASE Goto(r, "insert")
    BY <1>4, <2>1, <2>3, GotoType, <1>r, <1>b DEF CheckCap
  <2> QED
    BY <1>4, <2>2, <2>3 DEF CheckCap
<1>5. ASSUME NEW r \in Req, Insert(r) PROVE WellFormed'
  <2>1. Current(r).addr \in Addr
    BY <1>5, CurrentType DEF Insert, WellFormed, HasRow
  <2>2. boxes' \subseteq Addr
    BY <1>5, <2>1, <1>b DEF Insert
  <2> QED
    BY <1>5, <2>2, AnswerType, IdleType, <1>r DEF Insert
<1>6. ASSUME NEW r \in Req, CountRemaining(r) PROVE WellFormed'
  <2> DEFINE n == req[r].max - Cardinality(boxes)
             l == [req[r] EXCEPT !.pc = "row", !.remaining = n]
  <2>1. req[r] \in Local /\ n \in Int
    BY CountType DEF WellFormed, TypeOK, Local
  <2>2. l \in Local /\ l.pc = "row"
    <3> HIDE DEF n
    <3> QED
      BY <2>1 DEF Local, PC
  <2>3. req' = [req EXCEPT ![r] = l]
    BY <1>6 DEF CountRemaining
  <2> HIDE DEF l
  <2>4. req' \in [Req -> Local] /\ req'[r].pc = "row" /\ \A q \in Req \ {r} : req'[q] = req[q]
    BY <2>2, <2>3 DEF WellFormed, TypeOK
  <2> QED
    BY <1>6, <2>4, <1>r, <1>b DEF CountRemaining
<1>7. ASSUME NEW r \in Req, ReportRow(r) PROVE WellFormed'
  BY <1>7, DropType, <1>r, <1>b DEF ReportRow
<1>8. ASSUME NEW r \in Req, LookUpRow(r) PROVE WellFormed'
  <2>1. CASE Drop(r, 0)
    BY <1>8, <2>1, DropType, <1>r, <1>b DEF LookUpRow
  <2>2. CASE Goto(r, "insertRow")
    <3>1. "insertRow" \in PC
      BY DEF PC
    <3> QED
      BY <1>8, <2>2, <3>1, GotoType, <1>r, <1>b DEF LookUpRow
  <2> QED
    BY <1>8, <2>1, <2>2 DEF LookUpRow
<1>9. ASSUME NEW r \in Req, InsertRow(r) PROVE WellFormed'
  <2>1. req[r].rows # <<>>
    BY <1>9 DEF InsertRow, WellFormed, HasRow
  <2>2. CASE boxes' = boxes /\ Answer(r)
    BY <1>9, <2>2, AnswerType, IdleType, <1>r, <1>b DEF InsertRow
  <2>3. CASE boxes' = boxes \union {Current(r).addr} /\ Drop(r, 1)
    <3>1. boxes' \subseteq Addr
      BY <2>1, <2>3, CurrentType, <1>b
    <3> QED
      BY <1>9, <2>1, <2>3, <3>1, DropType, <1>r DEF InsertRow
  <2> QED
    BY <1>9, <2>2, <2>3 DEF InsertRow
<1>10. ASSUME NEW r \in Req, EndImport(r) PROVE WellFormed'
  BY <1>10, AnswerType, IdleType, <1>r, <1>b DEF EndImport
<1>11. ASSUME NEW a \in Addr, DeleteMailbox(a) PROVE WellFormed'
  BY <1>11 DEF DeleteMailbox, WellFormed, TypeOK, HasRow
<1>12. ASSUME NEW c \in Caps, UpdateDomain(c) PROVE WellFormed'
  BY <1>12, QuotaAssumption DEF UpdateDomain, WellFormed, TypeOK, HasRow, Domain
<1>13. CASE DeleteDomain
  BY <1>13 DEF DeleteDomain, WellFormed, TypeOK, HasRow, Domain
<1>14. CASE UNCHANGED vars
  BY <1>14 DEF vars, WellFormed, TypeOK, HasRow
<1> QED
  BY <1>1, <1>2, <1>3, <1>4, <1>5, <1>6, <1>7, <1>8, <1>9, <1>10, <1>11, <1>12, <1>13, <1>14
     DEF Next, Continue

LEMMA InitWellFormed == Init => WellFormed
<1> SUFFICES ASSUME Init PROVE WellFormed
  OBVIOUS
<1>1. domain \in Domain /\ peak \in Nat
  BY QuotaAssumption DEF Init, Domain
<1> QED
  BY <1>1, IdleType DEF Init, WellFormed, TypeOK, HasRow

LEMMA AlwaysWellFormed == Spec => []WellFormed
BY InitWellFormed, StepWellFormed, PTL DEF Spec

\* Every reachable state is well typed.
THEOREM TypeCorrect == Spec => []TypeOK
<1>1. WellFormed => TypeOK
  BY DEF WellFormed
<1> QED
  BY <1>1, AlwaysWellFormed, PTL

-----------------------------------------------------------------------------
(* The bound.  A request that has counted holds claims to mailboxes it may *)
(* still make: one for a create, the remaining ones for an import.  When a *)
(* request counts, the mailboxes and its own claims fit under the limit it *)
(* has read; the others hold at most the limit each; from then on a claim  *)
(* is given up for every mailbox made.                                     *)

Claim(r) ==
  IF req[r].pc = "insert" THEN {1}
  ELSE IF req[r].pc \in {"row", "insertRow"} THEN 1 .. req[r].remaining
  ELSE {}

Claimed == {c \in Req \X (1 .. peak) : c[2] \in Claim(c[1])}

\* No request holds more claims than the highest limit so far.
LimitsRead ==
  /\ domain.maxMailboxes <= peak
  /\ \A r \in Req :
       /\ req[r].max <= peak
       /\ req[r].pc = "insert" => 1 <= peak
       /\ req[r].pc \in {"row", "insertRow"} => req[r].remaining <= peak
       /\ req[r].pc = "insertRow" => 1 <= req[r].remaining

Covered == Cardinality(boxes) + Cardinality(Claimed) <= Cardinality(Req) * peak

IInv == WellFormed /\ LimitsRead /\ Covered

LEMMA ClaimsFinite ==
  ASSUME TypeOK
  PROVE  IsFiniteSet(Claimed) /\ Cardinality(Claimed) \in Nat
<1>1. IsFiniteSet(1 .. peak)
  BY FS_Interval DEF TypeOK
<1>2. IsFiniteSet(Req \X (1 .. peak))
  BY <1>1, FS_Product, QuotaAssumption
<1> QED
  BY <1>2, FS_Subset, FS_CardinalityType DEF Claimed

LEMMA ReqCount == Cardinality(Req) \in Nat \ {0}
BY QuotaAssumption, FS_CardinalityType, FS_EmptySet

\* The claims of a request alone change when its variables alone change.
LEMMA ClaimsOf ==
  ASSUME NEW r \in Req, peak' = peak, \A q \in Req \ {r} : req'[q] = req[q]
  PROVE  Claimed' = {c \in Claimed : c[1] # r}
                   \union {c \in {r} \X (1 .. peak) : c[2] \in Claim(r)'}
BY DEF Claimed, Claim

\* Fewer claims, or fewer mailboxes.
LEMMA Fewer ==
  ASSUME TypeOK, TypeOK', Covered, peak' = peak, Claimed' \subseteq Claimed, boxes' \subseteq boxes
  PROVE  Covered'
<1>1. Cardinality(Claimed') <= Cardinality(Claimed) /\ Cardinality(boxes') <= Cardinality(boxes)
  BY ClaimsFinite, CountType, FS_Subset
<1>2. /\ Cardinality(Claimed') \in Nat /\ Cardinality(boxes') \in Nat
      /\ Cardinality(Claimed) \in Nat /\ Cardinality(boxes) \in Nat
  <2>1. IsFiniteSet(Claimed') /\ IsFiniteSet(boxes')
    BY ClaimsFinite, CountType, FS_Subset
  <2> QED
    BY <2>1, ClaimsFinite, CountType, FS_CardinalityType
<1>3. Cardinality(Req) * peak \in Nat
  BY ReqCount DEF TypeOK
<1> QED
  BY <1>1, <1>2, <1>3 DEF Covered

\* A claim is given up for the mailbox that is made.
LEMMA Used ==
  ASSUME TypeOK, Covered, peak' = peak, NEW x \in Claimed, NEW a,
         Claimed' \subseteq Claimed \ {x}, boxes' \subseteq boxes \union {a}
  PROVE  Covered'
<1>1. /\ IsFiniteSet(Claimed \ {x}) /\ Cardinality(Claimed \ {x}) = Cardinality(Claimed) - 1
      /\ IsFiniteSet(boxes \union {a}) /\ Cardinality(boxes \union {a}) <= Cardinality(boxes) + 1
  <2>1. IsFiniteSet(Claimed \ {x}) /\ Cardinality(Claimed \ {x}) = Cardinality(Claimed) - 1
    BY ClaimsFinite, FS_RemoveElement
  <2>2. /\ IsFiniteSet(boxes \union {a})
        /\ \/ Cardinality(boxes \union {a}) = Cardinality(boxes)
           \/ Cardinality(boxes \union {a}) = Cardinality(boxes) + 1
    BY CountType, FS_AddElement
  <2> QED
    BY <2>1, <2>2, CountType
<1>2. /\ IsFiniteSet(Claimed') /\ Cardinality(Claimed') <= Cardinality(Claimed \ {x})
      /\ IsFiniteSet(boxes') /\ Cardinality(boxes') <= Cardinality(boxes \union {a})
  BY <1>1, FS_Subset
<1>3. /\ Cardinality(Claimed') \in Nat /\ Cardinality(boxes') \in Nat
      /\ Cardinality(Claimed \ {x}) \in Nat /\ Cardinality(boxes \union {a}) \in Nat
      /\ Cardinality(Claimed) \in Nat /\ Cardinality(boxes) \in Nat
      /\ Cardinality(Req) * peak \in Nat
  BY <1>1, <1>2, ClaimsFinite, CountType, FS_CardinalityType, ReqCount DEF TypeOK
<1> QED
  BY <1>1, <1>2, <1>3 DEF Covered

\* A request that counts claims what its limit leaves; the others hold at
\* most the highest limit each.
LEMMA Granted ==
  ASSUME TypeOK, peak' = peak, boxes' = boxes, NEW r \in Req, NEW n \in Nat,
         Cardinality(boxes) + n <= peak,
         Claimed' \subseteq ((Req \ {r}) \X (1 .. peak)) \union ({r} \X (1 .. n))
  PROVE  Covered'
<1> DEFINE A == (Req \ {r}) \X (1 .. peak)
           B == {r} \X (1 .. n)
           k == Cardinality(Req)
<1>1. IsFiniteSet(Req \ {r}) /\ Cardinality(Req \ {r}) = k - 1
  BY QuotaAssumption, FS_RemoveElement
<1>2. /\ IsFiniteSet(1 .. peak) /\ Cardinality(1 .. peak) = peak
      /\ IsFiniteSet(1 .. n) /\ Cardinality(1 .. n) = n
  BY FS_Interval DEF TypeOK
<1>3. IsFiniteSet(A) /\ Cardinality(A) = (k - 1) * peak
  <2>1. /\ IsFiniteSet((Req \ {r}) \X (1 .. peak))
        /\ Cardinality((Req \ {r}) \X (1 .. peak)) = Cardinality(Req \ {r}) * Cardinality(1 .. peak)
    BY <1>1, <1>2, FS_Product, ZenonT(20)
  <2>2. Cardinality(Req \ {r}) * Cardinality(1 .. peak) = (k - 1) * peak
    BY <1>1, <1>2, Zenon
  <2> QED
    BY <2>1, <2>2, Zenon
<1>4. IsFiniteSet(B) /\ Cardinality(B) = n
  <2>1. IsFiniteSet({r}) /\ Cardinality({r}) = 1
    BY FS_Singleton
  <2>2. /\ IsFiniteSet({r} \X (1 .. n))
        /\ Cardinality({r} \X (1 .. n)) = Cardinality({r}) * Cardinality(1 .. n)
    BY <2>1, <1>2, FS_Product, ZenonT(20)
  <2>3. Cardinality({r}) * Cardinality(1 .. n) = 1 * n /\ 1 * n = n
    BY <2>1, <1>2
  <2> QED
    BY <2>2, <2>3, Zenon
<1>5. k \in Nat \ {0} /\ peak \in Nat /\ Cardinality(boxes) \in Nat
  BY ReqCount, CountType DEF TypeOK
<1> HIDE DEF A, B, k
<1>6. IsFiniteSet(A \union B) /\ Cardinality(A \union B) <= (k - 1) * peak + n
  <2>1. /\ IsFiniteSet(A \union B)
        /\ Cardinality(A \union B) = Cardinality(A) + Cardinality(B) - Cardinality(A \intersect B)
    BY <1>3, <1>4, FS_Union
  <2>2. Cardinality(A \intersect B) \in Nat
    BY <1>3, FS_Intersection, FS_CardinalityType
  <2>3. (k - 1) * peak \in Nat
    BY <1>5
  <2> QED
    BY <1>3, <1>4, <2>1, <2>2, <2>3
<1>7. /\ IsFiniteSet(Claimed') /\ Cardinality(Claimed') <= Cardinality(A \union B)
      /\ Cardinality(Claimed') \in Nat /\ Cardinality(A \union B) \in Nat
  BY <1>6, FS_Subset, FS_CardinalityType DEF A, B
<1>8. (k - 1) * peak + peak = k * peak /\ (k - 1) * peak \in Nat
  BY <1>5
<1>9. Cardinality(boxes) + Cardinality(Claimed') <= k * peak
  BY <1>5, <1>6, <1>7, <1>8
<1> QED
  BY <1>9 DEF Covered, k

LEMMA StepIInv == IInv /\ [Next]_vars => IInv'
<1> SUFFICES ASSUME IInv, [Next]_vars PROVE IInv'
  OBVIOUS
<1>w. WellFormed /\ WellFormed' /\ TypeOK /\ TypeOK' /\ LimitsRead /\ Covered
  BY StepWellFormed DEF IInv, WellFormed
\* A request r that ends up with fewer claims of its own, or as many.
<1>r. ASSUME NEW r \in Req, \A q \in Req \ {r} : req'[q] = req[q],
             domain' = domain, peak' = peak, req'[r].max <= peak,
             Claim(r)' \subseteq Claim(r), boxes' \subseteq boxes,
             /\ req'[r].pc = "insert" => 1 <= peak
             /\ req'[r].pc \in {"row", "insertRow"} => req'[r].remaining <= peak
             /\ req'[r].pc = "insertRow" => 1 <= req'[r].remaining
      PROVE  IInv'
  <2>1. LimitsRead'
    BY <1>r, <1>w DEF LimitsRead
  <2>2. Claimed' \subseteq Claimed
    BY <1>r DEF Claimed, Claim
  <2>3. Covered'
    BY <1>r, <1>w, <2>2, Fewer
  <2> QED
    BY <1>w, <2>1, <2>3 DEF IInv
\* In particular one that is answered.
<1>i. ASSUME NEW r \in Req, Answer(r), domain' = domain, peak' = peak, boxes' \subseteq boxes
      PROVE  IInv'
  <2>1. req'[r] = Idle /\ \A q \in Req \ {r} : req'[q] = req[q]
    BY <1>i, <1>w, AnswerType
  <2>2. Claim(r)' = {}
    BY <2>1, IdleType DEF Claim
  <2>3. Idle.max <= peak
    BY <1>w, IdleType DEF TypeOK
  <2> QED
    BY <1>i, <2>1, <2>2, <2>3, <1>r, IdleType
<1>d. ASSUME NEW r \in Req, req[r].pc \in {"row", "insertRow"}, req[r].rows # <<>>, Drop(r, 0),
             UNCHANGED <<domain, boxes, peak>>
      PROVE  IInv'
  <2>0. req[r].remaining \in Int
    BY <1>w DEF TypeOK, Local
  <2>1. /\ \A q \in Req \ {r} : req'[q] = req[q]
        /\ req'[r].pc = "row" /\ req'[r].max = req[r].max
        /\ req'[r].remaining = req[r].remaining
    BY <1>d, <1>w, <2>0, DropType
  <2>2. Claim(r)' = Claim(r)
    BY <1>d, <2>1 DEF Claim
  <2>3. req[r].max <= peak /\ req[r].remaining <= peak
    BY <1>w, <1>d DEF LimitsRead
  <2> QED
    BY <1>d, <2>1, <2>2, <2>3, <1>r
<1>a. ASSUME NEW r \in Req, NEW p \in {"unique", "total"}, NEW f \in Seq(FileRow), Ask(r, p, f)
      PROVE  IInv'
  <2>1. p \in PC
    BY DEF PC
  <2>2. /\ req'[r].pc = p /\ req'[r].max = domain.maxMailboxes
        /\ \A q \in Req \ {r} : req'[q] = req[q]
    BY <1>a, <1>w, <2>1, AskType
  <2>3. Claim(r)' = {}
    BY <2>2 DEF Claim
  <2>4. domain.maxMailboxes <= peak /\ domain' = domain /\ peak' = peak /\ boxes' = boxes
    BY <1>w, <1>a DEF LimitsRead, Ask
  <2> QED
    BY <2>2, <2>3, <2>4, <1>r
\* One that counted n more mailboxes to make.
<1>g. ASSUME NEW r \in Req, \A q \in Req \ {r} : req'[q] = req[q], NEW n \in Int,
             UNCHANGED <<domain, boxes, peak>>, Claim(r) = {}, Claim(r)' \subseteq 1 .. n,
             n + Cardinality(boxes) <= peak
      PROVE  Covered'
  <2>1. CASE n < 0
    <3>1. Claim(r)' = {}
      BY <1>g, <2>1
    <3>2. Claimed' \subseteq Claimed
      BY <1>g, <3>1 DEF Claimed, Claim
    <3> QED
      BY <1>g, <1>w, <3>2, Fewer
  <2>2. CASE n >= 0
    <3>1. Claimed' \subseteq ((Req \ {r}) \X (1 .. peak)) \union ({r} \X (1 .. n))
      BY <1>g DEF Claimed
    <3>2. n \in Nat /\ Cardinality(boxes) + n <= peak
      BY <1>g, <2>2, <1>w, CountType DEF TypeOK
    <3> QED
      BY <1>g, <1>w, <3>1, <3>2, Granted
  <2> QED
    BY <2>1, <2>2
<1>1. ASSUME NEW r \in Req, NEW a \in Addr, AskCreate(r, a) PROVE IInv'
  <2> DEFINE f == <<[addr |-> a, ok |-> TRUE]>>
  <2>1. f \in Seq(FileRow)
    BY DEF FileRow
  <2> QED
    BY <1>1, <2>1, <1>a DEF AskCreate
<1>2. ASSUME NEW r \in Req, NEW f \in Files, AskImport(r, f) PROVE IInv'
  <2>1. f \in Seq(FileRow)
    BY QuotaAssumption
  <2> QED
    BY <1>2, <2>1, <1>a DEF AskImport
<1>3. ASSUME NEW r \in Req, CheckUnique(r) PROVE IInv'
  <2>1. CASE Answer(r)
    BY <1>3, <2>1, <1>i DEF CheckUnique
  <2>2. CASE Goto(r, "count")
    <3>1. "count" \in PC
      BY DEF PC
    <3>2. /\ req'[r].pc = "count" /\ req'[r].max = req[r].max
          /\ \A q \in Req \ {r} : req'[q] = req[q]
      BY <2>2, <3>1, <1>w, GotoType
    <3>3. Claim(r)' = {} /\ req[r].max <= peak
      BY <3>2, <1>w DEF Claim, LimitsRead
    <3> QED
      BY <1>3, <3>2, <3>3, <1>r DEF CheckUnique
  <2> QED
    BY <1>3, <2>1, <2>2 DEF CheckUnique
<1>4. ASSUME NEW r \in Req, CheckCap(r) PROVE IInv'
  <2>1. CASE Answer(r)
    BY <1>4, <2>1, <1>i DEF CheckCap
  <2>2. CASE Goto(r, "insert") /\ ~(Cardinality(boxes) >= req[r].max)
    <3>1. "insert" \in PC
      BY DEF PC
    <3>2. /\ req'[r].pc = "insert" /\ req'[r].max = req[r].max
          /\ \A q \in Req \ {r} : req'[q] = req[q]
      BY <2>2, <3>1, <1>w, GotoType
    <3>3. req[r].max <= peak /\ req[r].max \in Nat /\ peak \in Nat /\ Cardinality(boxes) \in Nat
      BY <1>w, CountType DEF LimitsRead, TypeOK, Local
    <3>4. 1 + Cardinality(boxes) <= peak /\ 1 <= peak
      BY <2>2, <3>3
    <3>5. Claim(r) = {} /\ Claim(r)' \subseteq 1 .. 1
      BY <1>4, <3>2 DEF Claim, CheckCap
    <3>6. UNCHANGED <<domain, boxes, peak>>
      BY <1>4 DEF CheckCap
    <3>7. Covered'
      BY <3>2, <3>4, <3>5, <3>6, <1>g
    <3>8. LimitsRead'
      BY <1>w, <3>2, <3>3, <3>4, <3>6 DEF LimitsRead
    <3> QED
      BY <1>w, <3>7, <3>8 DEF IInv
  <2> QED
    BY <1>4, <2>1, <2>2 DEF CheckCap
<1>5. ASSUME NEW r \in Req, Insert(r) PROVE IInv'
  <2>1. req'[r] = Idle /\ \A q \in Req \ {r} : req'[q] = req[q]
    BY <1>5, <1>w, AnswerType DEF Insert
  <2>2. Claim(r) = {1} /\ Claim(r)' = {} /\ peak' = peak /\ domain' = domain
    BY <1>5, <2>1, IdleType DEF Claim, Insert
  <2>3. <<r, 1>> \in Claimed
    <3>1. 1 \in 1 .. peak
      BY <1>5, <1>w DEF Insert, LimitsRead, TypeOK
    <3> QED
      BY <2>2, <3>1 DEF Claimed
  <2>4. Claimed' \subseteq Claimed \ {<<r, 1>>}
    BY <2>1, <2>2, ClaimsOf
  <2>5. boxes' \subseteq boxes \union {Current(r).addr}
    BY <1>5 DEF Insert
  <2>6. Covered'
    BY <1>w, <2>2, <2>3, <2>4, <2>5, Used
  <2>7. LimitsRead'
    <3>1. Idle.max <= peak
      BY <1>w, IdleType DEF TypeOK
    <3> QED
      BY <1>w, <2>1, <2>2, <3>1, IdleType DEF LimitsRead
  <2> QED
    BY <1>w, <2>6, <2>7 DEF IInv
<1>6. ASSUME NEW r \in Req, CountRemaining(r) PROVE IInv'
  <2> DEFINE n == req[r].max - Cardinality(boxes)
  <2>1. /\ req[r].max \in Nat /\ req[r].max <= peak /\ peak \in Nat
        /\ Cardinality(boxes) \in Nat /\ n \in Int
    BY <1>w, CountType DEF LimitsRead, TypeOK, Local
  <2>2. n <= peak /\ n + Cardinality(boxes) <= peak
    BY <2>1
  <2>3. req' = [req EXCEPT ![r] = [@ EXCEPT !.pc = "row", !.remaining = n]]
    BY <1>6 DEF CountRemaining
  <2> HIDE DEF n
  <2>4. /\ req'[r].pc = "row" /\ req'[r].remaining = n /\ req'[r].max = req[r].max
        /\ \A q \in Req \ {r} : req'[q] = req[q]
    BY <2>3, <1>w DEF TypeOK, Local
  <2>5. Claim(r) = {} /\ Claim(r)' \subseteq 1 .. n /\ UNCHANGED <<domain, boxes, peak>>
    BY <1>6, <2>4 DEF Claim, CountRemaining
  <2>6. Covered'
    BY <2>1, <2>2, <2>4, <2>5, <1>g
  <2>7. LimitsRead'
    BY <1>w, <2>1, <2>2, <2>4, <2>5 DEF LimitsRead
  <2> QED
    BY <1>w, <2>6, <2>7 DEF IInv
<1>7. ASSUME NEW r \in Req, ReportRow(r) PROVE IInv'
  BY <1>7, <1>d DEF ReportRow
<1>8. ASSUME NEW r \in Req, LookUpRow(r) PROVE IInv'
  <2>1. CASE Drop(r, 0)
    BY <1>8, <2>1, <1>d DEF LookUpRow
  <2>2. CASE Goto(r, "insertRow")
    <3>1. "insertRow" \in PC
      BY DEF PC
    <3>2. /\ req'[r].pc = "insertRow" /\ req'[r].max = req[r].max
          /\ req'[r].remaining = req[r].remaining
          /\ \A q \in Req \ {r} : req'[q] = req[q]
      BY <2>2, <3>1, <1>w, GotoType
    <3>3. Claim(r)' = Claim(r)
      BY <1>8, <3>2 DEF Claim, LookUpRow
    <3>4. /\ req[r].max <= peak /\ req[r].remaining <= peak
          /\ req[r].remaining \in Int /\ 1 <= req[r].remaining
      BY <1>8, <1>w DEF LimitsRead, LookUpRow, TypeOK, Local
    <3>5. domain' = domain /\ peak' = peak /\ boxes' = boxes
      BY <1>8 DEF LookUpRow
    <3> QED
      BY <3>2, <3>3, <3>4, <3>5, <1>r
  <2> QED
    BY <1>8, <2>1, <2>2 DEF LookUpRow
<1>9. ASSUME NEW r \in Req, InsertRow(r) PROVE IInv'
  <2>1. CASE boxes' = boxes /\ Answer(r)
    BY <1>9, <2>1, <1>i DEF InsertRow
  <2>2. CASE boxes' = boxes \union {Current(r).addr} /\ Drop(r, 1)
    <3> DEFINE n == req[r].remaining
    <3>1. n \in Int /\ 1 <= n /\ n <= peak /\ req[r].max <= peak /\ peak \in Nat
      BY <1>9, <1>w DEF LimitsRead, InsertRow, TypeOK, Local
    <3>2. /\ req'[r].pc = "row" /\ req'[r].max = req[r].max /\ req'[r].remaining = n - 1
          /\ \A q \in Req \ {r} : req'[q] = req[q]
      <4>1. req[r].rows # <<>>
        BY <1>9, <1>w DEF InsertRow, WellFormed, HasRow
      <4> QED
        BY <2>2, <4>1, <1>w, DropType
    <3>3. Claim(r) = 1 .. n /\ Claim(r)' = 1 .. (n - 1)
      BY <1>9, <3>2 DEF Claim, InsertRow
    <3>4. peak' = peak /\ domain' = domain
      BY <1>9 DEF InsertRow
    <3> HIDE DEF n
    <3>5. <<r, n>> \in Claimed
      BY <3>1, <3>3 DEF Claimed
    <3>6. Claimed' \subseteq Claimed \ {<<r, n>>}
      <4>1. 1 .. (n - 1) \subseteq (1 .. n) \ {n}
        BY <3>1
      <4>2. ASSUME NEW c \in Claimed' PROVE c \in Claimed /\ c # <<r, n>>
        <5>1. c \in Req \X (1 .. peak) /\ c[2] \in Claim(c[1])'
          BY <3>4 DEF Claimed
        <5>2. CASE c[1] = r
          <6>1. c[2] \in 1 .. (n - 1)
            BY <5>1, <5>2, <3>2 DEF Claim
          <6>2. c[2] \in 1 .. n /\ c[2] # n
            BY <6>1, <4>1
          <6>3. c[2] \in Claim(c[1])
            BY <5>2, <6>2, <3>3
          <6> QED
            BY <5>1, <6>2, <6>3 DEF Claimed
        <5>3. CASE c[1] # r
          BY <5>1, <5>3, <3>2 DEF Claimed, Claim
        <5> QED
          BY <5>2, <5>3
      <4> QED
        BY <4>2
    <3>7. Covered'
      BY <1>w, <2>2, <3>4, <3>5, <3>6, Used
    <3>8. LimitsRead'
      BY <1>w, <3>1, <3>2, <3>4 DEF LimitsRead
    <3> QED
      BY <1>w, <3>7, <3>8 DEF IInv
  <2> QED
    BY <1>9, <2>1, <2>2 DEF InsertRow
<1>10. ASSUME NEW r \in Req, EndImport(r) PROVE IInv'
  BY <1>10, <1>i DEF EndImport
<1>11. ASSUME NEW a \in Addr, DeleteMailbox(a) PROVE IInv'
  <2>1. Claimed' = Claimed /\ boxes' \subseteq boxes /\ peak' = peak
    BY <1>11 DEF DeleteMailbox, Claimed, Claim
  <2>2. LimitsRead'
    BY <1>11, <1>w DEF DeleteMailbox, LimitsRead
  <2> QED
    BY <1>w, <2>1, <2>2, Fewer DEF IInv
<1>12. ASSUME NEW c \in Caps, UpdateDomain(c) PROVE IInv'
  <2>1. /\ peak \in Nat /\ c \in Nat /\ peak' \in Nat /\ peak <= peak' /\ c <= peak'
        /\ req' = req /\ boxes' = boxes /\ domain'.maxMailboxes = c
    BY <1>12, <1>w, QuotaAssumption DEF UpdateDomain, TypeOK, Domain
  <2>2. LimitsRead'
    <3>1. \A r \in Req : req[r].max \in Nat /\ req[r].remaining \in Int
      BY <1>w DEF TypeOK, Local
    <3> QED
      BY <1>w, <2>1, <3>1 DEF LimitsRead
  <2>3. Claimed' = Claimed
    <3>1. \A r \in Req : Claim(r) \subseteq 1 .. peak
      <4> SUFFICES ASSUME NEW r \in Req PROVE Claim(r) \subseteq 1 .. peak
        OBVIOUS
      <4>1. req[r].remaining \in Int
        BY <1>w DEF TypeOK, Local
      <4> QED
        BY <1>w, <2>1, <4>1 DEF Claim, LimitsRead
    <3>2. \A r \in Req : Claim(r)' = Claim(r)
      BY <2>1 DEF Claim
    <3>3. 1 .. peak \subseteq 1 .. peak'
      BY <2>1
    <3> QED
      BY <3>1, <3>2, <3>3 DEF Claimed
  <2>4. Cardinality(Req) * peak <= Cardinality(Req) * peak'
    BY <2>1, ReqCount
  <2>5. Covered'
    <3>1. /\ Cardinality(Req) * peak \in Nat /\ Cardinality(Req) * peak' \in Nat
          /\ Cardinality(boxes) \in Nat /\ Cardinality(Claimed) \in Nat
      BY <2>1, ReqCount, <1>w, CountType, ClaimsFinite
    <3> QED
      BY <1>w, <2>1, <2>3, <2>4, <3>1 DEF Covered
  <2> QED
    BY <1>w, <2>2, <2>5 DEF IInv
<1>13. CASE DeleteDomain
  <2>1. Claimed' = Claimed /\ boxes' \subseteq boxes /\ peak' = peak
    BY <1>13 DEF DeleteDomain, Claimed, Claim
  <2>2. LimitsRead'
    BY <1>13, <1>w DEF DeleteDomain, LimitsRead, TypeOK, Domain
  <2> QED
    BY <1>w, <2>1, <2>2, Fewer DEF IInv
<1>14. CASE UNCHANGED vars
  BY <1>14 DEF vars, IInv, WellFormed, TypeOK, HasRow, LimitsRead, Covered, Claimed, Claim
<1> QED
  BY <1>1, <1>2, <1>3, <1>4, <1>5, <1>6, <1>7, <1>8, <1>9, <1>10, <1>11, <1>12, <1>13, <1>14
     DEF Next, Continue

LEMMA InitIInv == Init => IInv
<1> SUFFICES ASSUME Init PROVE IInv
  OBVIOUS
<1>1. WellFormed /\ TypeOK
  BY InitWellFormed DEF WellFormed
<1>2. LimitsRead
  BY <1>1, IdleType, QuotaAssumption DEF Init, LimitsRead, TypeOK, Domain
<1>3. Claimed = {}
  BY IdleType DEF Init, Claimed, Claim
<1>4. Covered
  <2>1. Cardinality(Claimed) = 0
    BY <1>3, FS_EmptySet
  <2>2. Cardinality(boxes) <= peak /\ Cardinality(boxes) \in Nat /\ peak \in Nat
    BY <1>1, CountType DEF Init, TypeOK
  <2>3. peak <= Cardinality(Req) * peak /\ Cardinality(Req) * peak \in Nat
    BY <2>2, ReqCount
  <2> QED
    BY <2>1, <2>2, <2>3 DEF Covered
<1> QED
  BY <1>1, <1>2, <1>4 DEF IInv

\* Concurrent requests pass the limit by no more than one limit each, for any
\* number of requests, any limits, however they change, and any files.
THEOREM BoundKept == Spec => []Overshoot
<1>1. IInv => Overshoot
  <2> SUFFICES ASSUME IInv PROVE Overshoot
    OBVIOUS
  <2>1. /\ Cardinality(boxes) \in Nat /\ Cardinality(Claimed) \in Nat
        /\ Cardinality(Req) * peak \in Nat
    BY CountType, ClaimsFinite, ReqCount DEF IInv, WellFormed, TypeOK
  <2> QED
    BY <2>1 DEF IInv, Covered, Overshoot
<1> QED
  BY <1>1, InitIInv, StepIInv, PTL DEF Spec

\* With one request at a time the limit is enforced.
THEOREM OneAtATime ==
  ASSUME Cardinality(Req) = 1
  PROVE  Spec => []CapEnforced
<1>1. TypeOK /\ Overshoot => CapEnforced
  BY DEF Overshoot, CapEnforced, TypeOK
<1> QED
  BY <1>1, BoundKept, TypeCorrect, PTL

-----------------------------------------------------------------------------
(***************************************************************************)
(* RegistrarSync.                                                          *)
(***************************************************************************)

Lists == [hosts : SUBSET Host, moved : SUBSET Host]

Stages ==
  {NotApplied} \cup [phase : {"listed"}, list : Lists, merged : SUBSET Host]
  \cup [phase : {"kept"}, list : Lists, merged : SUBSET Host, snapshot : Lists]
  \cup [phase : {"applied"}, snapshot : Lists]

\* Two lists hold the same unrelated hosts, but for some.
Same(list, now, but) == \A h \in OtherHost \ but : h \in list <=> h \in now

\* What an apply has yet to write is what the registrar has, but for hosts that
\* moved since, or are known to have been undone.
StageSame(s, now, but) ==
  /\ s.phase \in {"listed", "kept"} => Same(s.merged, now, s.list.moved \cup but)
  /\ s.phase \in {"kept", "applied"} => Same(s.snapshot.hosts, now, s.snapshot.moved \cup but)

RegistrarInv ==
  /\ RegistrarType /\ UnrelatedKept
  /\ apply \in [Apply -> Stages]
  /\ \A a \in Apply : StageSame(apply[a], hosts, undone)

LEMMA OursAreNotOthers == \A h \in OtherHost : h.kind \notin Managed /\ h \notin Desired
BY RegistrarAssumption DEF OtherHost, Desired

LEMMA StagePhase == \A s \in Stages : s.phase \in {"rest", "listed", "kept", "applied"}
BY DEF Stages, NotApplied

LEMMA RegistrarInitInv == RegistrarInit => RegistrarInv
<1> SUFFICES ASSUME RegistrarInit PROVE RegistrarInv
  OBVIOUS
<1>1. \A a \in Apply : apply[a].phase = "rest"
  BY DEF RegistrarInit, NotApplied
<1>2. RegistrarType /\ UnrelatedKept
  BY <1>1, RegistrarAssumption DEF RegistrarInit, RegistrarType, UnrelatedKept
<1>3. apply \in [Apply -> Stages] /\ \A a \in Apply : StageSame(apply[a], hosts, undone)
  BY <1>1 DEF RegistrarInit, Stages, StageSame
<1>4. QED
  BY <1>2, <1>3 DEF RegistrarInv

\* A list that is held, once the hosts are others.
LEMMA OlderSame ==
  ASSUME RegistrarInv, NEW now \in SUBSET Host, NEW but \in SUBSET OtherHost,
         undone \subseteq but \cup Changed(now), NEW list \in Lists, NEW S \in SUBSET Host
  PROVE  /\ Older(list, now) \in Lists
         /\ Older(list, now).hosts = list.hosts
         /\ Same(S, hosts, list.moved \cup undone) =>
              Same(S, now, Older(list, now).moved \cup but)
<1>1. Older(list, now) = [hosts |-> list.hosts, moved |-> list.moved \cup Changed(now)]
  BY DEF Older, Lists
<1>2. Changed(now) \in SUBSET Host
  BY DEF Changed, RegistrarInv, RegistrarType
<1>3. Older(list, now) \in Lists /\ Older(list, now).hosts = list.hosts
  BY <1>1, <1>2 DEF Lists
<1>4. \A h \in OtherHost : h \notin Changed(now) => (h \in now <=> h \in hosts)
  BY DEF Changed
<1>5. Same(S, hosts, list.moved \cup undone) => Same(S, now, Older(list, now).moved \cup but)
  BY <1>1, <1>4 DEF Same
<1>6. QED
  BY <1>3, <1>5

\* What the applies under way hold once the hosts are others.
LEMMA OutdatedSame ==
  ASSUME RegistrarInv, NEW now \in SUBSET Host, NEW but \in SUBSET OtherHost,
         undone \subseteq but \cup Changed(now)
  PROVE  /\ Outdated(now) \in [Apply -> Stages]
         /\ \A a \in Apply : StageSame(Outdated(now)[a], now, but)
<1>1. ASSUME NEW a \in Apply
      PROVE  Outdated(now)[a] \in Stages /\ StageSame(Outdated(now)[a], now, but)
  <2>0. apply[a] \in Stages /\ StageSame(apply[a], hosts, undone)
    BY DEF RegistrarInv
  <2>1. CASE apply[a].phase = "rest"
    <3>1. Outdated(now)[a] = NotApplied
      BY <2>1 DEF Outdated
    <3>2. QED
      BY <2>1, <3>1 DEF Stages, NotApplied, StageSame
  <2>2. CASE apply[a].phase = "listed"
    <3>1. apply[a] \in [phase : {"listed"}, list : Lists, merged : SUBSET Host]
      BY <2>0, <2>2 DEF Stages, NotApplied
    <3>2. Outdated(now)[a] = [phase |-> "listed", list |-> Older(apply[a].list, now),
                              merged |-> apply[a].merged]
      BY <2>2, <3>1 DEF Outdated
    <3>3. /\ Older(apply[a].list, now) \in Lists
          /\ Same(apply[a].merged, now, Older(apply[a].list, now).moved \cup but)
      BY <2>0, <2>2, <3>1, OlderSame DEF StageSame
    <3>4. QED
      BY <3>1, <3>2, <3>3 DEF Stages, StageSame
  <2>3. CASE apply[a].phase = "kept"
    <3>1. apply[a] \in [phase : {"kept"}, list : Lists, merged : SUBSET Host, snapshot : Lists]
      BY <2>0, <2>3 DEF Stages, NotApplied
    <3>2. Outdated(now)[a] = [phase |-> "kept", list |-> Older(apply[a].list, now),
                              merged |-> apply[a].merged,
                              snapshot |-> Older(apply[a].snapshot, now)]
      BY <2>3, <3>1 DEF Outdated
    <3>3. /\ Older(apply[a].list, now) \in Lists
          /\ Same(apply[a].merged, now, Older(apply[a].list, now).moved \cup but)
      BY <2>0, <2>3, <3>1, OlderSame DEF StageSame
    <3>4. /\ apply[a].snapshot \in Lists /\ apply[a].snapshot.hosts \in SUBSET Host
          /\ Same(apply[a].snapshot.hosts, hosts, apply[a].snapshot.moved \cup undone)
      BY <2>0, <2>3, <3>1 DEF StageSame, Lists
    <3>5. /\ Older(apply[a].snapshot, now) \in Lists
          /\ Older(apply[a].snapshot, now).hosts = apply[a].snapshot.hosts
          /\ Same(apply[a].snapshot.hosts, now, Older(apply[a].snapshot, now).moved \cup but)
      BY <3>4, OlderSame
    <3>6. QED
      BY <3>1, <3>2, <3>3, <3>5 DEF Stages, StageSame
  <2>4. CASE apply[a].phase = "applied"
    <3>1. apply[a] \in [phase : {"applied"}, snapshot : Lists]
      BY <2>0, <2>4 DEF Stages, NotApplied
    <3>2. Outdated(now)[a] = [phase |-> "applied", snapshot |-> Older(apply[a].snapshot, now)]
      BY <2>4, <3>1 DEF Outdated
    <3>3. /\ apply[a].snapshot \in Lists /\ apply[a].snapshot.hosts \in SUBSET Host
          /\ Same(apply[a].snapshot.hosts, hosts, apply[a].snapshot.moved \cup undone)
      BY <2>0, <2>4, <3>1 DEF StageSame, Lists
    <3>4. /\ Older(apply[a].snapshot, now) \in Lists
          /\ Older(apply[a].snapshot, now).hosts = apply[a].snapshot.hosts
          /\ Same(apply[a].snapshot.hosts, now, Older(apply[a].snapshot, now).moved \cup but)
      BY <3>3, OlderSame
    <3>5. QED
      BY <3>2, <3>4 DEF Stages, StageSame
  <2>5. QED
    BY <2>1, <2>2, <2>3, <2>4, StagePhase DEF RegistrarInv
<1>2. Outdated(now) = [a \in Apply |-> Outdated(now)[a]]
  BY DEF Outdated
<1>3. QED
  BY <1>1, <1>2

\* One apply moves on, from what they all held or from what became of it.
LEMMA StageMoves ==
  ASSUME NEW a \in Apply, NEW s \in Stages, NEW before \in [Apply -> Stages],
         StageSame(s, hosts', undone'),
         \A b \in Apply : StageSame(before[b], hosts', undone'),
         apply' = [before EXCEPT ![a] = s]
  PROVE  /\ apply' \in [Apply -> Stages]
         /\ \A b \in Apply : StageSame(apply'[b], hosts', undone')
         /\ \A b \in Apply : apply'[b].phase \in {"rest", "listed", "kept", "applied"}
<1>1. apply' \in [Apply -> Stages] /\ \A b \in Apply : apply'[b] = IF b = a THEN s ELSE before[b]
  OBVIOUS
<1>2. QED
  BY <1>1, StagePhase

\* The owner changes one host.
LEMMA OwnerKeeps ==
  ASSUME RegistrarInv, NEW h \in Host, OwnerEdits(h)
  PROVE  RegistrarInv'
<1>1. hosts' \in SUBSET Host /\ theirs' \in SUBSET OtherHost /\ undone' \in SUBSET OtherHost
  BY DEF OwnerEdits, RegistrarInv, RegistrarType
<1>2. UnrelatedKept'
  BY DEF OwnerEdits, RegistrarInv, RegistrarType, UnrelatedKept
<1>3. apply' = Outdated(hosts') /\ steps' \in 0..MaxSteps
  BY RegistrarAssumption DEF OwnerEdits, RegistrarInv, RegistrarType
<1>4. undone \subseteq undone' \cup Changed(hosts')
  BY DEF OwnerEdits, Changed
<1>5. apply' \in [Apply -> Stages] /\ \A a \in Apply : StageSame(apply'[a], hosts', undone')
  BY <1>1, <1>3, <1>4, OutdatedSame
<1>6. QED
  BY <1>1, <1>2, <1>3, <1>5, StagePhase DEF RegistrarInv, RegistrarType

\* An apply has worked out its list.
LEMMA ListKeeps ==
  ASSUME RegistrarInv, NEW a \in Apply, ListHosts(a)
  PROVE  RegistrarInv'
<1>1. PICK claimed \in Claims(hosts) :
        apply' = [apply EXCEPT ![a] = [phase |-> "listed", list |-> Listed,
                                       merged |-> Merged(hosts, claimed)]]
  BY DEF ListHosts
<1> DEFINE s == [phase |-> "listed", list |-> Listed, merged |-> Merged(hosts, claimed)]
<1>2. /\ hosts \in SUBSET Host /\ UNCHANGED <<hosts, theirs, undone>>
      /\ steps' \in 0..MaxSteps
  BY RegistrarAssumption DEF ListHosts, RegistrarInv, RegistrarType
<1>3. claimed \subseteq {h \in hosts : h.kind \in Managed}
  BY DEF Claims
<1>4. Merged(hosts, claimed) \in SUBSET Host
  <2>1. Desired \in SUBSET Host
    BY DEF Desired, Host, MailHost, Value
  <2>2. QED
    BY <1>2, <2>1 DEF Merged
<1>5. Same(Merged(hosts, claimed), hosts, {})
  BY <1>3, OursAreNotOthers DEF Merged, Same
<1>6. s \in Stages /\ StageSame(s, hosts', undone')
  <2>1. Listed \in Lists
    BY <1>2 DEF Listed, Lists
  <2>2. QED
    BY <1>2, <1>4, <1>5, <2>1 DEF Stages, StageSame, Same
<1>7. apply' = [apply EXCEPT ![a] = s]
  BY <1>1
<1>8. apply \in [Apply -> Stages] /\ \A b \in Apply : StageSame(apply[b], hosts', undone')
  BY <1>2 DEF RegistrarInv
<1> HIDE DEF s
<1>9. /\ apply' \in [Apply -> Stages]
      /\ \A b \in Apply : StageSame(apply'[b], hosts', undone')
      /\ \A b \in Apply : apply'[b].phase \in {"rest", "listed", "kept", "applied"}
  BY <1>6, <1>7, <1>8, StageMoves
<1>10. QED
  BY <1>2, <1>9 DEF RegistrarInv, RegistrarType, UnrelatedKept

\* The snapshot is taken.
LEMMA SnapshotKeeps ==
  ASSUME RegistrarInv, NEW a \in Apply, KeepSnapshot(a)
  PROVE  RegistrarInv'
<1> DEFINE s == [phase |-> "kept", list |-> apply[a].list, merged |-> apply[a].merged,
                 snapshot |-> Listed]
<1>1. UNCHANGED <<hosts, steps, theirs, undone>> /\ apply' = [apply EXCEPT ![a] = s]
  BY DEF KeepSnapshot
<1>2. /\ apply[a] \in [phase : {"listed"}, list : Lists, merged : SUBSET Host]
      /\ StageSame(apply[a], hosts, undone)
  BY DEF KeepSnapshot, RegistrarInv, Stages, NotApplied
<1>3. Listed \in Lists /\ Listed.hosts = hosts
  BY DEF Listed, Lists, RegistrarInv, RegistrarType
<1>4. s \in Stages
  BY <1>2, <1>3 DEF Stages
<1>5. StageSame(s, hosts', undone')
  BY <1>1, <1>2, <1>3 DEF StageSame, Same
<1>6. apply \in [Apply -> Stages] /\ \A b \in Apply : StageSame(apply[b], hosts', undone')
  BY <1>1 DEF RegistrarInv
<1> HIDE DEF s
<1>7. /\ apply' \in [Apply -> Stages]
      /\ \A b \in Apply : StageSame(apply'[b], hosts', undone')
      /\ \A b \in Apply : apply'[b].phase \in {"rest", "listed", "kept", "applied"}
  BY <1>1, <1>4, <1>5, <1>6, StageMoves
<1>8. QED
  BY <1>1, <1>7 DEF RegistrarInv, RegistrarType, UnrelatedKept

\* An apply is over, and the hosts stay as they are.
LEMMA EndKeeps ==
  ASSUME RegistrarInv, NEW a \in Apply, ApplyFails(a) \/ LeaveWizard(a)
  PROVE  RegistrarInv'
<1>1. UNCHANGED <<hosts, steps, theirs, undone>> /\ apply' = [apply EXCEPT ![a] = NotApplied]
  BY DEF ApplyFails, LeaveWizard
<1>2. NotApplied \in Stages /\ StageSame(NotApplied, hosts', undone')
  BY DEF Stages, StageSame, NotApplied
<1>3. apply \in [Apply -> Stages] /\ \A b \in Apply : StageSame(apply[b], hosts', undone')
  BY <1>1 DEF RegistrarInv
<1>4. /\ apply' \in [Apply -> Stages]
      /\ \A b \in Apply : StageSame(apply'[b], hosts', undone')
      /\ \A b \in Apply : apply'[b].phase \in {"rest", "listed", "kept", "applied"}
  BY <1>1, <1>2, <1>3, StageMoves
<1>5. QED
  BY <1>1, <1>4 DEF RegistrarInv, RegistrarType, UnrelatedKept

\* The merged list replaces the hosts.  A host that moved before the snapshot
\* is in undone from here on, so the snapshot needs no new mark.
LEMMA SetKeeps ==
  ASSUME RegistrarInv, NEW a \in Apply, SetHosts(a)
  PROVE  RegistrarInv'
<1> DEFINE s == [phase |-> "applied", snapshot |-> apply[a].snapshot]
<1>1. /\ apply[a] \in [phase : {"kept"}, list : Lists, merged : SUBSET Host, snapshot : Lists]
      /\ Same(apply[a].merged, hosts, apply[a].list.moved \cup undone)
      /\ Same(apply[a].snapshot.hosts, hosts, apply[a].snapshot.moved \cup undone)
  BY DEF SetHosts, RegistrarInv, Stages, NotApplied, StageSame
<1>2. /\ hosts' = apply[a].merged /\ hosts' \in SUBSET Host
      /\ undone' = undone \cup (apply[a].list.moved \cap OtherHost)
      /\ UNCHANGED <<steps, theirs>>
      /\ apply' = [Outdated(hosts') EXCEPT ![a] = s]
  BY <1>1 DEF SetHosts
<1>3. undone' \in SUBSET OtherHost /\ undone \subseteq undone' \cup Changed(hosts')
  BY <1>2 DEF RegistrarInv, RegistrarType
<1>4. UnrelatedKept'
  BY <1>1, <1>2 DEF RegistrarInv, UnrelatedKept, Same
<1>5. s \in Stages /\ StageSame(s, hosts', undone')
  BY <1>1, <1>2 DEF Stages, StageSame, Same
<1>6. /\ Outdated(hosts') \in [Apply -> Stages]
      /\ \A b \in Apply : StageSame(Outdated(hosts')[b], hosts', undone')
  BY <1>2, <1>3, OutdatedSame
<1> HIDE DEF s
<1>7. /\ apply' \in [Apply -> Stages]
      /\ \A b \in Apply : StageSame(apply'[b], hosts', undone')
      /\ \A b \in Apply : apply'[b].phase \in {"rest", "listed", "kept", "applied"}
  BY <1>2, <1>5, <1>6, StageMoves
<1>8. QED
  BY <1>2, <1>3, <1>4, <1>7 DEF RegistrarInv, RegistrarType

\* The snapshot replaces the hosts.
LEMMA RollbackKeeps ==
  ASSUME RegistrarInv, NEW a \in Apply, Rollback(a)
  PROVE  RegistrarInv'
<1>1. /\ apply[a] \in [phase : {"applied"}, snapshot : Lists]
      /\ Same(apply[a].snapshot.hosts, hosts, apply[a].snapshot.moved \cup undone)
  <2>1. apply[a] \in Stages /\ StageSame(apply[a], hosts, undone) /\ apply[a].phase = "applied"
    BY DEF Rollback, RegistrarInv
  <2>2. QED
    BY <2>1 DEF Stages, NotApplied, StageSame
<1>2. /\ hosts' = apply[a].snapshot.hosts /\ hosts' \in SUBSET Host
      /\ undone' = undone \cup (apply[a].snapshot.moved \cap OtherHost)
      /\ UNCHANGED <<steps, theirs>>
      /\ apply' = [Outdated(hosts') EXCEPT ![a] = NotApplied]
  BY <1>1 DEF Rollback, Lists
<1>3. undone' \in SUBSET OtherHost /\ undone \subseteq undone' \cup Changed(hosts')
  BY <1>2 DEF RegistrarInv, RegistrarType
<1>4. UnrelatedKept'
  BY <1>1, <1>2 DEF RegistrarInv, UnrelatedKept, Same
<1>5. NotApplied \in Stages /\ StageSame(NotApplied, hosts', undone')
  BY DEF Stages, StageSame, NotApplied
<1>6. /\ Outdated(hosts') \in [Apply -> Stages]
      /\ \A b \in Apply : StageSame(Outdated(hosts')[b], hosts', undone')
  BY <1>2, <1>3, OutdatedSame
<1>7. /\ apply' \in [Apply -> Stages]
      /\ \A b \in Apply : StageSame(apply'[b], hosts', undone')
      /\ \A b \in Apply : apply'[b].phase \in {"rest", "listed", "kept", "applied"}
  BY <1>2, <1>5, <1>6, StageMoves
<1>8. QED
  BY <1>2, <1>3, <1>4, <1>7 DEF RegistrarInv, RegistrarType

LEMMA RegistrarNextInv == RegistrarInv /\ [RegistrarNext]_registrarVars => RegistrarInv'
<1> SUFFICES ASSUME RegistrarInv, [RegistrarNext]_registrarVars PROVE RegistrarInv'
  OBVIOUS
<1>1. ASSUME NEW h \in Host, OwnerEdits(h) PROVE RegistrarInv'
  BY <1>1, OwnerKeeps
<1>2. ASSUME NEW a \in Apply, ListHosts(a) PROVE RegistrarInv'
  BY <1>2, ListKeeps
<1>3. ASSUME NEW a \in Apply, KeepSnapshot(a) PROVE RegistrarInv'
  BY <1>3, SnapshotKeeps
<1>4. ASSUME NEW a \in Apply, SetHosts(a) PROVE RegistrarInv'
  BY <1>4, SetKeeps
<1>5. ASSUME NEW a \in Apply, ApplyFails(a) \/ LeaveWizard(a) PROVE RegistrarInv'
  BY <1>5, EndKeeps
<1>6. ASSUME NEW a \in Apply, Rollback(a) PROVE RegistrarInv'
  BY <1>6, RollbackKeeps
<1>7. CASE UNCHANGED registrarVars
  BY <1>7 DEF registrarVars, RegistrarInv, RegistrarType, UnrelatedKept
<1>8. QED
  BY <1>1, <1>2, <1>3, <1>4, <1>5, <1>6, <1>7 DEF RegistrarNext

\* The invariant of the registrar's list: at every stage what will be written
\* holds the unrelated hosts there are, but for those that changed since.
THEOREM RegistrarInvariant == RegistrarSpec => []RegistrarInv
BY RegistrarInitInv, RegistrarNextInv, PTL DEF RegistrarSpec

\* "Nothing else on the domain is touched."
THEOREM UnrelatedStay == RegistrarSpec => []UnrelatedKept
<1>1. RegistrarInv => UnrelatedKept
  BY DEF RegistrarInv
<1>2. QED
  BY <1>1, RegistrarInvariant, PTL

(***************************************************************************)
(* Tenancy.                                                                *)
(***************************************************************************)

Row == [role : {"none", "reseller", "customer", "gone"}, parent : Acct \cup {Nobody},
        active : BOOLEAN, cap : Limits \cup {Nobody}]
Holding == [owner : Acct \cup {Nobody}, active : BOOLEAN]
Making == [at : {"reseller", "count", "insert", "find"}, by : Acct \cup {Root},
           id : Acct, parent : Acct \cup {Nobody}, cap : Limits \cup {Nobody},
           left : SUBSET Dom, next : Dom \cup {Nobody}]
Giving == [at : {"assign"}, by : Acct \cup {Root}, id : Acct, parent : Acct \cup {Nobody},
           cap : Limits \cup {Nobody}, left : SUBSET Dom, next : Dom]
Acting == [at : {"scope", "suspend", "reactivate", "delete"}, by : Acct \cup {Root},
           id : Acct, op : {"suspend", "reactivate", "delete"}]

TenancyTyped ==
  /\ account \in [Acct -> Row] /\ held \in [Dom -> Holding]
  /\ job \in [Work -> {Rest} \cup Making \cup Giving \cup Acting]
  /\ highest \in [Acct -> Limits \cup {Nobody}] /\ loose \subseteq Dom

\* The requests about to make a customer under r that a cap has let through.
Let(r) == {w \in Work : job[w].at = "insert" /\ job[w].parent = r /\ job[w].cap # Nobody}

\* A request that has found its reseller: that one is no customer since.
Found(w) == job[w].at \in {"count", "insert"} /\ job[w].parent # Nobody
ParentsFound ==
  \A w \in Work : /\ job[w].at = "reseller" => job[w].parent # Nobody
                  /\ Found(w) => account[job[w].parent].role \in {"reseller", "gone"}

\* The caps a reseller and the requests under it go by are no higher than the
\* highest it has had.
Within(c, most) == most # Nobody => c # Nobody /\ c <= most
CapsWithin ==
  /\ \A r \in Acct : account[r].role = "reseller" => Within(account[r].cap, highest[r])
  /\ \A w \in Work : /\ job[w].at = "count" => job[w].parent # Nobody /\ job[w].cap # Nobody
                     /\ Found(w) /\ account[job[w].parent].role = "reseller"
                          => Within(job[w].cap, highest[job[w].parent])

TenancyInv ==
  /\ TenancyTyped /\ TwoLevels /\ ParentsFound /\ CapsWithin /\ CapPassedByRacesOnly
  /\ DomainsFrozen

-----------------------------------------------------------------------------

LEMMA TenancyInitInv == TenancyInit => TenancyInv
<1> SUFFICES ASSUME TenancyInit PROVE TenancyInv
  OBVIOUS
<1>0. NoAccount \in Row /\ NoAccount.role = "none" /\ NoAccount.parent = Nobody
  BY DEF NoAccount, Row
<1>1. TenancyTyped
  BY <1>0 DEF TenancyInit, TenancyTyped, Holding, Rest
<1>2. TwoLevels /\ CapPassedByRacesOnly
  BY <1>0 DEF TenancyInit, TwoLevels, CapPassedByRacesOnly
<1>3. ParentsFound /\ CapsWithin /\ DomainsFrozen
  BY <1>0 DEF TenancyInit, ParentsFound, CapsWithin, Found, DomainsFrozen, Rest
<1> QED
  BY <1>1, <1>2, <1>3 DEF TenancyInv

\* Rest is neither kind of request.
LEMMA Kinds ==
  /\ Rest.at = "rest"
  /\ \A j \in Making : j.at \in {"reseller", "count", "insert", "find"}
  /\ \A j \in Giving : j.at = "assign"
  /\ \A j \in Acting : j.at \in {"scope", "suspend", "reactivate", "delete"}
BY DEF Rest, Making, Giving, Acting

LEMMA Counts ==
  ASSUME NEW S \in SUBSET Acct, NEW T \in SUBSET Work
  PROVE  /\ IsFiniteSet(S) /\ Cardinality(S) \in Nat
         /\ IsFiniteSet(T) /\ Cardinality(T) \in Nat /\ Cardinality(T) <= Cardinality(Work)
         /\ Cardinality(Work) \in Nat \ {0}
<1>1. IsFiniteSet(Acct) /\ IsFiniteSet(Work) /\ Work # {}
  BY TenancyAssumption
<1> QED
  BY <1>1, FS_Subset, FS_CardinalityType, FS_EmptySet

-----------------------------------------------------------------------------
(* What one step does to a request.                                        *)

LEMMA Stopping ==
  ASSUME TenancyTyped, NEW w \in Work, Stop(w)
  PROVE  /\ job'[w] = Rest /\ \A v \in Work \ {w} : job'[v] = job[v]
         /\ job' \in [Work -> {Rest} \cup Making \cup Giving \cup Acting]
         /\ \A v \in Work : job'[v] \in {Rest, job[v]}
BY DEF TenancyTyped, Stop

\* The requests that found their reseller, from one step to the next.
LEMMA LetFewer ==
  ASSUME \A v \in Work : job'[v] = job[v] \/ job'[v].at \notin {"reseller", "count", "insert"}
  PROVE  /\ \A v \in Work : Found(v)' => Found(v) /\ job'[v] = job[v]
         /\ \A r : Let(r)' \subseteq Let(r)
         /\ \A v \in Work : job'[v].at \in {"reseller", "count"} => job'[v] = job[v]
BY DEF Found, Let

\* Fewer customers and requests under a reseller, and a cap no lower.
LEMMA PassedKept ==
  ASSUME TenancyTyped, TenancyTyped', CapPassedByRacesOnly,
         \A r \in Acct : account'[r].role = "reseller" /\ highest'[r] # Nobody =>
           /\ account[r].role = "reseller" /\ highest[r] # Nobody /\ highest[r] <= highest'[r]
           /\ Customers(r)' \subseteq Customers(r) /\ Let(r)' \subseteq Let(r)
  PROVE  CapPassedByRacesOnly'
<1> SUFFICES ASSUME NEW r \in Acct, account'[r].role = "reseller", highest'[r] # Nobody
             PROVE  Cardinality(Customers(r)') + Cardinality(Let(r)')
                      <= highest'[r] + Cardinality(Work) - 1
  BY DEF CapPassedByRacesOnly, Let
<1>1. Cardinality(Customers(r)) + Cardinality(Let(r)) <= highest[r] + Cardinality(Work) - 1
  BY DEF CapPassedByRacesOnly, Let
<1>2. Customers(r) \subseteq Acct /\ Let(r) \subseteq Work
  BY DEF Customers, Let
<1>3. IsFiniteSet(Customers(r)) /\ IsFiniteSet(Let(r))
  BY <1>2, Counts
<1>4. /\ Cardinality(Customers(r)') <= Cardinality(Customers(r))
      /\ Cardinality(Let(r)') <= Cardinality(Let(r))
  BY <1>3, FS_Subset
<1>5. Cardinality(Customers(r)') \in Nat /\ Cardinality(Let(r)') \in Nat
      /\ Cardinality(Customers(r)) \in Nat /\ Cardinality(Let(r)) \in Nat
      /\ Cardinality(Work) \in Nat
  BY <1>2, <1>3, FS_Subset, FS_CardinalityType, Counts
<1>6. highest[r] \in Nat /\ highest'[r] \in Nat /\ highest[r] <= highest'[r]
  BY TenancyAssumption DEF TenancyTyped
<1> QED
  BY <1>1, <1>4, <1>5, <1>6

\* A step that leaves the accounts and the caps alone, and finds no reseller.
LEMMA AccountsKept ==
  ASSUME TenancyInv, TenancyTyped', UNCHANGED <<account, highest>>,
         \A v \in Work : job'[v] = job[v] \/ job'[v].at \notin {"reseller", "count", "insert"}
  PROVE  TwoLevels' /\ ParentsFound' /\ CapsWithin' /\ CapPassedByRacesOnly'
<1>1. TwoLevels'
  BY DEF TenancyInv, TwoLevels
<1>2. ParentsFound'
  BY LetFewer DEF TenancyInv, ParentsFound
<1>3. CapsWithin'
  <2>1. CapsWithin
    BY DEF TenancyInv
  <2> QED
    BY <2>1, LetFewer DEF CapsWithin
<1>4. CapPassedByRacesOnly'
  <2>1. \A r \in Acct : Customers(r)' = Customers(r) /\ Let(r)' \subseteq Let(r)
    BY LetFewer DEF Customers
  <2>2. \A r \in Acct : highest[r] # Nobody => highest[r] \in Nat
    BY TenancyAssumption DEF TenancyInv, TenancyTyped
  <2>3. \A r \in Acct : highest[r] # Nobody => highest[r] <= highest[r]
    BY <2>2
  <2> QED
    BY <2>1, <2>3, PassedKept DEF TenancyInv
<1> QED
  BY <1>1, <1>2, <1>3, <1>4

LEMMA FrozenKept ==
  ASSUME DomainsFrozen, UNCHANGED <<held, loose>>,
         \A a \in Acct \cup {Nobody} : account'[a].active \in {TRUE, account[a].active},
         held \in [Dom -> Holding]
  PROVE  DomainsFrozen'
BY DEF DomainsFrozen, Holding

-----------------------------------------------------------------------------
(* Customers.                                                              *)

LEMMA AskCustomerStep ==
  ASSUME TenancyInv, NEW w \in Work, NEW by \in Acct \cup {Root}, NEW a \in Acct,
         NEW under \in Acct \cup {Nobody}, NEW ds \in SUBSET Dom,
         AskCustomer(w, by, a, under, ds)
  PROVE  TenancyInv'
<1> DEFINE parent == IF by = Root THEN under ELSE by
           start == [at |-> IF parent = Nobody THEN "insert" ELSE "reseller",
                     by |-> by, id |-> a, parent |-> parent, cap |-> Nobody, left |-> ds,
                     next |-> Nobody]
<1>1. parent \in Acct \cup {Nobody}
  BY DEF AskCustomer, Managers
<1>2. start \in Making /\ start.at \in {"insert", "reseller"} /\ start.cap = Nobody
      /\ (start.at = "insert" <=> start.parent = Nobody)
  BY <1>1 DEF Making
<1>3. job' = [job EXCEPT ![w] = start] /\ UNCHANGED <<account, held, highest, loose>>
  BY DEF AskCustomer
<1> HIDE DEF start
<1>4. job \in [Work -> {Rest} \cup Making \cup Giving \cup Acting]
  BY DEF TenancyInv, TenancyTyped
<1>5. job'[w] = start /\ \A v \in Work \ {w} : job'[v] = job[v]
  BY <1>3, <1>4
<1>6. TenancyTyped'
  BY <1>2, <1>3, <1>4 DEF TenancyInv, TenancyTyped
<1>7. \A v \in Work : Found(v)' => Found(v) /\ job'[v] = job[v]
  BY <1>2, <1>5 DEF Found
<1>8. ParentsFound'
  <2>1. \A v \in Work : job'[v].at = "reseller" => job'[v].parent # Nobody
    BY <1>2, <1>5 DEF TenancyInv, ParentsFound
  <2> QED
    BY <1>3, <1>7, <2>1 DEF TenancyInv, ParentsFound
<1>9. CapsWithin'
  <2>1. \A v \in Work : job'[v].at = "count" => job'[v] = job[v]
    BY <1>2, <1>5
  <2>2. CapsWithin
    BY DEF TenancyInv
  <2> QED
    BY <1>3, <1>7, <2>1, <2>2 DEF CapsWithin
<1>10. CapPassedByRacesOnly'
  <2>1. \A r \in Acct : Customers(r)' = Customers(r) /\ Let(r)' \subseteq Let(r)
    BY <1>2, <1>3, <1>5 DEF Customers, Let
  <2>2. \A r \in Acct : highest[r] # Nobody => highest[r] \in Nat
    BY TenancyAssumption DEF TenancyInv, TenancyTyped
  <2>3. \A r \in Acct : highest[r] # Nobody => highest[r] <= highest'[r]
    BY <1>3, <2>2
  <2> QED
    BY <1>3, <1>6, <2>1, <2>3, PassedKept DEF TenancyInv
<1>11. TwoLevels' /\ DomainsFrozen'
  BY <1>3 DEF TenancyInv, TwoLevels, DomainsFrozen
<1> QED
  BY <1>6, <1>8, <1>9, <1>10, <1>11 DEF TenancyInv

LEMMA FindResellerStep ==
  ASSUME TenancyInv, NEW w \in Work, FindReseller(w)
  PROVE  TenancyInv'
<1> DEFINE p == job[w].parent
           c == account[job[w].parent].cap
<1>0. job \in [Work -> {Rest} \cup Making \cup Giving \cup Acting] /\ TenancyTyped
  BY DEF TenancyInv, TenancyTyped
<1>1. job[w] \in Making /\ UNCHANGED <<account, held, highest, loose>> /\ p # Nobody
  BY <1>0, Kinds DEF FindReseller, TenancyInv, ParentsFound
<1>2. CASE account[job[w].parent].role # "reseller"
  <2>1. Stop(w)
    BY <1>2 DEF FindReseller
  <2>2. /\ \A v \in Work : job'[v] = job[v] \/ job'[v].at \notin {"reseller", "count", "insert"}
        /\ job' \in [Work -> {Rest} \cup Making \cup Giving \cup Acting]
    BY <1>0, <2>1, Stopping, Kinds
  <2>3. TenancyTyped' /\ DomainsFrozen'
    BY <1>1, <2>2 DEF TenancyInv, TenancyTyped, DomainsFrozen
  <2> QED
    BY <1>1, <2>2, <2>3, AccountsKept DEF TenancyInv
<1>3. CASE account[job[w].parent].role = "reseller"
  <2> DEFINE after == [job[w] EXCEPT !.at = IF c = Nobody THEN "insert" ELSE "count", !.cap = c]
  <2>1. job' = [job EXCEPT ![w] = after]
    BY <1>3 DEF FindReseller
  <2>2. p \in Acct /\ c \in Limits \cup {Nobody}
    BY <1>0, <1>1, <1>3 DEF TenancyTyped, Making, Row
  <2>3. /\ after \in Making /\ after.parent = p /\ after.cap = c
        /\ after.at = IF c = Nobody THEN "insert" ELSE "count"
    BY <1>1, <2>2 DEF Making
  <2> HIDE DEF after
  <2>4. job'[w] = after /\ \A v \in Work \ {w} : job'[v] = job[v]
    BY <1>0, <2>1
  <2>5. TenancyTyped'
    BY <1>0, <1>1, <2>1, <2>3 DEF TenancyTyped
  <2>6. ParentsFound'
    <3>1. \A v \in Work : job'[v].at = "reseller" => job'[v].parent # Nobody
      BY <2>3, <2>4 DEF TenancyInv, ParentsFound
    <3> SUFFICES ASSUME NEW v \in Work, Found(v)'
                 PROVE  account[job'[v].parent].role \in {"reseller", "gone"}
      BY <1>1, <3>1 DEF ParentsFound
    <3>2. CASE v = w
      BY <1>3, <2>3, <2>4, <3>2
    <3>3. CASE v # w
      BY <2>4, <3>3 DEF Found, TenancyInv, ParentsFound
    <3> QED
      BY <3>2, <3>3
  <2>7. Within(c, highest[p])
    BY <1>3, <2>2 DEF TenancyInv, CapsWithin
  <2>8. CapsWithin'
    <3>1. \A r \in Acct : account'[r].role = "reseller" => Within(account'[r].cap, highest'[r])
      BY <1>1 DEF TenancyInv, CapsWithin
    <3>2. ASSUME NEW v \in Work
          PROVE  /\ job'[v].at = "count" => job'[v].parent # Nobody /\ job'[v].cap # Nobody
                 /\ Found(v)' /\ account'[job'[v].parent].role = "reseller"
                      => Within(job'[v].cap, highest'[job'[v].parent])
      <4>1. CASE v = w
        BY <1>1, <1>3, <2>3, <2>4, <2>7, <4>1
      <4>2. CASE v # w
        BY <1>1, <2>4, <4>2 DEF TenancyInv, CapsWithin, Found
      <4> QED
        BY <4>1, <4>2
    <3> QED
      BY <3>1, <3>2 DEF CapsWithin
  <2>9. CapPassedByRacesOnly'
    <3>1. \A r \in Acct : Customers(r)' = Customers(r) /\ Let(r)' \subseteq Let(r)
      BY <1>1, <2>3, <2>4 DEF Customers, Let
    <3>2. \A r \in Acct : highest[r] # Nobody => highest[r] \in Nat
      BY TenancyAssumption DEF TenancyInv, TenancyTyped
    <3>3. \A r \in Acct : highest[r] # Nobody => highest[r] <= highest'[r]
      BY <1>1, <3>2
    <3> QED
      BY <1>1, <2>5, <3>1, <3>3, PassedKept DEF TenancyInv
  <2>10. TwoLevels' /\ DomainsFrozen'
    BY <1>1 DEF TenancyInv, TwoLevels, DomainsFrozen
  <2> QED
    BY <2>5, <2>6, <2>8, <2>9, <2>10 DEF TenancyInv
<1> QED
  BY <1>2, <1>3

LEMMA CountCustomersStep ==
  ASSUME TenancyInv, NEW w \in Work, CountCustomers(w)
  PROVE  TenancyInv'
<1> DEFINE p == job[w].parent
<1>0. job \in [Work -> {Rest} \cup Making \cup Giving \cup Acting] /\ TenancyTyped
  BY DEF TenancyInv, TenancyTyped
<1>1. job[w] \in Making /\ UNCHANGED <<account, held, highest, loose>> /\ job[w].at = "count"
  BY <1>0, Kinds DEF CountCustomers
<1>2. p # Nobody /\ job[w].cap # Nobody
  BY <1>1 DEF TenancyInv, CapsWithin
<1>3. CASE Cardinality(Customers(p)) >= job[w].cap
  <2>1. Stop(w)
    BY <1>3 DEF CountCustomers
  <2>2. /\ \A v \in Work : job'[v] = job[v] \/ job'[v].at \notin {"reseller", "count", "insert"}
        /\ job' \in [Work -> {Rest} \cup Making \cup Giving \cup Acting]
    BY <1>0, <2>1, Stopping, Kinds
  <2>3. TenancyTyped' /\ DomainsFrozen'
    BY <1>1, <2>2 DEF TenancyInv, TenancyTyped, DomainsFrozen
  <2> QED
    BY <1>1, <2>2, <2>3, AccountsKept DEF TenancyInv
<1>4. CASE ~(Cardinality(Customers(p)) >= job[w].cap)
  <2> DEFINE after == [job[w] EXCEPT !.at = "insert"]
  <2>1. job' = [job EXCEPT ![w] = after]
    BY <1>4 DEF CountCustomers, Go
  <2>2. p \in Acct /\ job[w].cap \in Limits
    BY <1>0, <1>1, <1>2 DEF Making
  <2>3. /\ after \in Making /\ after.parent = p /\ after.cap = job[w].cap
        /\ after.at = "insert"
    BY <1>1, <2>2 DEF Making
  <2> HIDE DEF after
  <2>4. job'[w] = after /\ \A v \in Work \ {w} : job'[v] = job[v]
    BY <1>0, <2>1
  <2>5. TenancyTyped'
    BY <1>0, <1>1, <2>1, <2>3 DEF TenancyTyped
  <2>6. \A v \in Work : Found(v)' => /\ Found(v) /\ job'[v].parent = job[v].parent
                                     /\ job'[v].cap = job[v].cap
    BY <1>1, <1>2, <2>3, <2>4 DEF Found
  <2>7. ParentsFound'
    <3>1. \A v \in Work : job'[v].at = "reseller" => job'[v].parent # Nobody
      BY <2>3, <2>4 DEF TenancyInv, ParentsFound
    <3> QED
      BY <1>1, <2>6, <3>1 DEF TenancyInv, ParentsFound
  <2>8. CapsWithin'
    <3>1. CapsWithin
      BY DEF TenancyInv
    <3>2. \A v \in Work : job'[v].at = "count" => job'[v] = job[v]
      BY <2>3, <2>4
    <3> QED
      BY <1>1, <2>6, <3>1, <3>2 DEF CapsWithin
  <2>9. CapPassedByRacesOnly'
    <3> SUFFICES ASSUME NEW r \in Acct, account[r].role = "reseller", highest[r] # Nobody
                 PROVE  Cardinality(Customers(r)) + Cardinality(Let(r)')
                          <= highest[r] + Cardinality(Work) - 1
      BY <1>1 DEF CapPassedByRacesOnly, Let, Customers
    <3>1. CASE r = p
      <4>1. job[w].cap <= highest[r]
        BY <1>1, <1>2, <3>1 DEF TenancyInv, CapsWithin, Found, Within
      <4>2. /\ Cardinality(Customers(r)) \in Nat /\ Cardinality(Let(r)') \in Nat
            /\ Cardinality(Let(r)') <= Cardinality(Work) /\ Cardinality(Work) \in Nat
        <5>1. Customers(r) \in SUBSET Acct /\ Let(r)' \in SUBSET Work
          BY DEF Customers, Let
        <5> QED
          BY <5>1, Counts
      <4>3. job[w].cap \in Nat /\ highest[r] \in Nat
        BY <1>0, <2>2, TenancyAssumption DEF TenancyTyped
      <4>4. ~(Cardinality(Customers(r)) >= job[w].cap)
        BY <1>4, <3>1
      <4> QED
        BY <4>1, <4>2, <4>3, <4>4
    <3>2. CASE r # p
      <4>1. Let(r)' = Let(r)
        BY <1>1, <2>3, <2>4, <3>2 DEF Let
      <4> QED
        BY <4>1 DEF TenancyInv, CapPassedByRacesOnly, Let
    <3> QED
      BY <3>1, <3>2
  <2>10. TwoLevels' /\ DomainsFrozen'
    BY <1>1 DEF TenancyInv, TwoLevels, DomainsFrozen
  <2> QED
    BY <2>5, <2>7, <2>8, <2>9, <2>10 DEF TenancyInv
<1> QED
  BY <1>3, <1>4

\* A request that goes on past what AccountsKept is about.
LEMMA MovesOn ==
  ASSUME TenancyTyped, NEW w \in Work, NEW after, job' = [job EXCEPT ![w] = after],
         after \in Making \cup Giving \cup Acting, after.at \notin {"reseller", "count", "insert"}
  PROVE  /\ job' \in [Work -> {Rest} \cup Making \cup Giving \cup Acting]
         /\ \A v \in Work : job'[v] = job[v] \/ job'[v].at \notin {"reseller", "count", "insert"}
BY DEF TenancyTyped

LEMMA StopsOn ==
  ASSUME TenancyTyped, NEW w \in Work, Stop(w)
  PROVE  /\ job' \in [Work -> {Rest} \cup Making \cup Giving \cup Acting]
         /\ \A v \in Work : job'[v] = job[v] \/ job'[v].at \notin {"reseller", "count", "insert"}
BY Stopping, Kinds

LEMMA InsertCustomerStep ==
  ASSUME TenancyInv, NEW w \in Work, InsertCustomer(w)
  PROVE  TenancyInv'
<1> DEFINE a == job[w].id
           p == job[w].parent
           new == [role |-> "customer", parent |-> p, active |-> TRUE, cap |-> Nobody]
<1>0. job \in [Work -> {Rest} \cup Making \cup Giving \cup Acting] /\ TenancyTyped
  BY DEF TenancyInv, TenancyTyped
<1>1. job[w] \in Making /\ UNCHANGED <<held, highest, loose>> /\ job[w].at = "insert"
  BY <1>0, Kinds DEF InsertCustomer
<1>2. a \in Acct /\ p \in Acct \cup {Nobody}
  BY <1>1 DEF Making
<1>3. /\ job' \in [Work -> {Rest} \cup Making \cup Giving \cup Acting]
      /\ \A v \in Work : job'[v] = job[v] \/ job'[v].at \notin {"reseller", "count", "insert"}
      /\ job'[w].at # "insert" /\ \A v \in Work \ {w} : job'[v] = job[v]
  <2>1. CASE Stop(w)
    BY <1>0, <2>1, StopsOn, Stopping, Kinds
  <2>2. CASE Go(w, "find")
    <3> DEFINE after == [job[w] EXCEPT !.at = "find"]
    <3>1. job' = [job EXCEPT ![w] = after]
      BY <2>2 DEF Go
    <3>2. after \in Making /\ after.at = "find"
      BY <1>1 DEF Making
    <3> HIDE DEF after
    <3> QED
      BY <1>0, <3>1, <3>2, MovesOn
  <2> QED
    BY <2>1, <2>2 DEF InsertCustomer
<1>4. CASE account' = account
  <2>1. TenancyTyped' /\ DomainsFrozen'
    BY <1>1, <1>3, <1>4 DEF TenancyInv, TenancyTyped, DomainsFrozen
  <2> QED
    BY <1>1, <1>3, <1>4, <2>1, AccountsKept DEF TenancyInv
<1>5. CASE account' # account
  <2>1. /\ account' = [account EXCEPT ![a] = new]
        /\ account[a].role = "none" /\ (p = Nobody \/ Exists(p))
    BY <1>5 DEF InsertCustomer
  <2>2. /\ new \in Row /\ new.role = "customer" /\ new.parent = p /\ new.active = TRUE
    BY <1>2 DEF Row
  <2> HIDE DEF new
  <2>3. account'[a] = new /\ \A b \in Acct \ {a} : account'[b] = account[b]
    BY <1>0, <1>2, <2>1 DEF TenancyTyped
  <2>4. TenancyTyped'
    BY <1>0, <1>1, <1>3, <2>1, <2>2 DEF TenancyTyped
  <2>5. p # Nobody => p \in Acct \ {a} /\ account[p].role = "reseller" /\ account[p].parent = Nobody
    <3>1. p # Nobody => account[p].role \in {"reseller", "gone"}
      BY <1>1 DEF TenancyInv, ParentsFound, Found
    <3>2. p # Nobody => account[p].role = "reseller" /\ p # a
      BY <2>1, <3>1 DEF Exists
    <3> QED
      BY <1>0, <1>2, <3>2 DEF TenancyInv, TwoLevels, TenancyTyped, Row
  <2>6. \A b \in Acct : account[b].parent \in Acct \cup {Nobody} /\ account[b].parent # a
    <3>1. \A b \in Acct : account[b].parent \in Acct \cup {Nobody}
      BY <1>0 DEF TenancyTyped, Row
    <3>2. a # Nobody
      BY <1>2, TenancyAssumption
    <3> QED
      BY <1>2, <2>1, <3>1, <3>2 DEF TenancyInv, TwoLevels
  <2>7. TwoLevels'
    <3> SUFFICES ASSUME NEW b \in Acct, account'[b].parent # Nobody
                 PROVE  LET r == account'[account'[b].parent] IN
                          account'[b].role = "customer" /\ r.role = "reseller" /\ r.parent = Nobody
      BY DEF TwoLevels
    <3>1. CASE b = a
      BY <2>2, <2>3, <2>5, <3>1
    <3>2. CASE b # a
      <4>1. account'[b] = account[b] /\ account[b].parent \in Acct \ {a}
        BY <2>3, <2>6, <3>2
      <4> QED
        BY <2>3, <4>1 DEF TenancyInv, TwoLevels
    <3> QED
      BY <3>1, <3>2
  <2>8. \A v \in Work : Found(v)' => /\ Found(v) /\ job'[v] = job[v]
                                     /\ account'[job[v].parent] = account[job[v].parent]
    <3> SUFFICES ASSUME NEW v \in Work, Found(v)'
                 PROVE  /\ Found(v) /\ job'[v] = job[v]
                        /\ account'[job[v].parent] = account[job[v].parent]
      OBVIOUS
    <3>1. Found(v) /\ job'[v] = job[v]
      BY <1>3 DEF Found
    <3>2. job[v].parent \in Acct
      BY <1>0, <3>1, Kinds DEF Found, Making
    <3>3. account[job[v].parent].role # "none"
      BY <3>1 DEF TenancyInv, ParentsFound
    <3> QED
      BY <2>1, <2>3, <3>1, <3>2, <3>3
  <2>9. ParentsFound'
    <3>1. \A v \in Work : job'[v].at = "reseller" => job'[v] = job[v]
      BY <1>3
    <3> QED
      BY <2>8, <3>1 DEF TenancyInv, ParentsFound
  <2>10. CapsWithin'
    <3>1. \A v \in Work : job'[v].at = "count" => job'[v] = job[v]
      BY <1>3
    <3>2. \A r \in Acct : account'[r].role = "reseller" => account'[r] = account[r]
      BY <2>2, <2>3
    <3>3. CapsWithin
      BY DEF TenancyInv
    <3> QED
      BY <1>1, <2>8, <3>1, <3>2, <3>3 DEF CapsWithin
  <2>11. CapPassedByRacesOnly'
    <3> SUFFICES ASSUME NEW r \in Acct, account'[r].role = "reseller", highest[r] # Nobody
                 PROVE  Cardinality(Customers(r)') + Cardinality(Let(r)')
                          <= highest[r] + Cardinality(Work) - 1
      BY <1>1 DEF CapPassedByRacesOnly, Let
    <3>1. r # a /\ account[r].role = "reseller"
      BY <2>2, <2>3
    <3>2. Cardinality(Customers(r)) + Cardinality(Let(r)) <= highest[r] + Cardinality(Work) - 1
      BY <3>1 DEF TenancyInv, CapPassedByRacesOnly, Let
    <3>3. Customers(r) \subseteq Acct /\ Let(r) \subseteq Work /\ Let(r)' \subseteq Let(r)
      BY <1>3, LetFewer DEF Customers, Let
    <3>4. IsFiniteSet(Customers(r)) /\ IsFiniteSet(Let(r))
      BY <3>3, Counts
    <3>5. /\ Cardinality(Customers(r)) \in Nat /\ Cardinality(Let(r)) \in Nat
          /\ Cardinality(Let(r)') \in Nat /\ Cardinality(Let(r)') <= Cardinality(Let(r))
          /\ Cardinality(Work) \in Nat
      BY <3>3, <3>4, FS_Subset, FS_CardinalityType, Counts
    <3>6. highest[r] \in Nat
      BY <1>0, TenancyAssumption DEF TenancyTyped
    <3>7. CASE r = p
      <4>1. w \in Let(r) /\ Let(r)' \subseteq Let(r) \ {w}
        <5>1. job[w].cap # Nobody
          BY <1>1, <3>1, <3>7, TenancyAssumption DEF TenancyInv, CapsWithin, Found, Within
        <5> QED
          BY <1>1, <1>3, <3>3, <3>7, <5>1 DEF Let
      <4>2. Cardinality(Let(r)') <= Cardinality(Let(r)) - 1
        <5>1. /\ IsFiniteSet(Let(r) \ {w})
              /\ Cardinality(Let(r) \ {w}) = Cardinality(Let(r)) - 1
          BY <3>4, <4>1, FS_RemoveElement
        <5> QED
          BY <4>1, <5>1, FS_Subset
      <4>3. Customers(r)' = Customers(r) \cup {a} /\ a \notin Customers(r)
        BY <1>2, <2>1, <2>2, <2>3, <3>7 DEF Customers
      <4>4. Cardinality(Customers(r)') = Cardinality(Customers(r)) + 1
        BY <3>4, <4>3, FS_AddElement
      <4> QED
        BY <3>2, <3>5, <3>6, <4>2, <4>4
    <3>8. CASE r # p
      <4>1. Customers(r)' = Customers(r)
        BY <1>2, <2>1, <2>2, <2>3, <3>8 DEF Customers
      <4> QED
        BY <3>2, <3>5, <3>6, <4>1
    <3> QED
      BY <3>7, <3>8
  <2>12. DomainsFrozen'
    BY <1>0, <1>1, <2>2, <2>3 DEF TenancyInv, DomainsFrozen, TenancyTyped, Holding
  <2> QED
    BY <2>4, <2>7, <2>9, <2>10, <2>11, <2>12 DEF TenancyInv
<1> QED
  BY <1>4, <1>5

LEMMA FindDomainStep ==
  ASSUME TenancyInv, NEW w \in Work, NEW d \in Dom, FindDomain(w, d)
  PROVE  TenancyInv'
<1>0. job \in [Work -> {Rest} \cup Making \cup Giving \cup Acting] /\ TenancyTyped
  BY DEF TenancyInv, TenancyTyped
<1>1. job[w] \in Making /\ UNCHANGED <<account, held, highest, loose>>
  BY <1>0, Kinds DEF FindDomain
<1>2. /\ job' \in [Work -> {Rest} \cup Making \cup Giving \cup Acting]
      /\ \A v \in Work : job'[v] = job[v] \/ job'[v].at \notin {"reseller", "count", "insert"}
  <2>1. CASE Stop(w)
    BY <1>0, <2>1, StopsOn
  <2>2. CASE ~Stop(w)
    <3> DEFINE after == [job[w] EXCEPT !.at = "assign", !.next = d]
    <3>1. job' = [job EXCEPT ![w] = after]
      BY <2>2 DEF FindDomain
    <3>2. after \in Giving /\ after.at = "assign"
      BY <1>1 DEF Making, Giving
    <3> HIDE DEF after
    <3> QED
      BY <1>0, <3>1, <3>2, MovesOn
  <2> QED
    BY <2>1, <2>2
<1>3. TenancyTyped' /\ DomainsFrozen'
  BY <1>1, <1>2 DEF TenancyInv, TenancyTyped, DomainsFrozen
<1> QED
  BY <1>1, <1>2, <1>3, AccountsKept DEF TenancyInv

\* A domain that changes hands or is turned on or off.
LEMMA HandingOver ==
  ASSUME TenancyTyped, DomainsFrozen, NEW d \in Dom, NEW o \in Acct \cup {Nobody},
         NEW on \in BOOLEAN, account' = account,
         held' = [held EXCEPT ![d] = [owner |-> o, active |-> on]],
         loose' = (loose \ {d}) \cup Loosened(d, o, on)
  PROVE  DomainsFrozen' /\ held' \in [Dom -> Holding] /\ loose' \subseteq Dom
<1>1. /\ held'[d].owner = o /\ held'[d].active = on
      /\ \A e \in Dom \ {d} : held'[e] = held[e]
  BY DEF TenancyTyped
<1>2. held' \in [Dom -> Holding] /\ loose' \subseteq Dom
  BY DEF TenancyTyped, Holding, Loosened
<1>3. DomainsFrozen'
  <2> SUFFICES ASSUME NEW e \in Dom, held'[e].owner # Nobody,
                      ~account[held'[e].owner].active, e \notin loose'
               PROVE  ~held'[e].active
    BY DEF DomainsFrozen
  <2>1. CASE e = d
    BY <1>1, <2>1 DEF Loosened
  <2>2. CASE e # d
    BY <1>1, <2>2 DEF DomainsFrozen
  <2> QED
    BY <2>1, <2>2
<1> QED
  BY <1>2, <1>3

LEMMA AssignDomainStep ==
  ASSUME TenancyInv, NEW w \in Work, AssignDomain(w)
  PROVE  TenancyInv'
<1>0. job \in [Work -> {Rest} \cup Making \cup Giving \cup Acting] /\ TenancyTyped
  BY DEF TenancyInv, TenancyTyped
<1>1. job[w] \in Giving /\ UNCHANGED <<account, highest>>
  BY <1>0, Kinds DEF AssignDomain
<1>2. /\ job' \in [Work -> {Rest} \cup Making \cup Giving \cup Acting]
      /\ \A v \in Work : job'[v] = job[v] \/ job'[v].at \notin {"reseller", "count", "insert"}
  <2>1. CASE Stop(w)
    BY <1>0, <2>1, StopsOn
  <2>2. CASE ~Stop(w)
    <3> DEFINE after == [job[w] EXCEPT !.at = "find", !.left = @ \ {job[w].next}]
    <3>1. job' = [job EXCEPT ![w] = after]
      BY <2>2 DEF AssignDomain, Stop
    <3>2. after \in Making /\ after.at = "find"
      BY <1>1 DEF Making, Giving
    <3> HIDE DEF after
    <3> QED
      BY <1>0, <3>1, <3>2, MovesOn
  <2> QED
    BY <2>1, <2>2
<1>3. held' \in [Dom -> Holding] /\ loose' \subseteq Dom /\ DomainsFrozen'
  <2>1. CASE UNCHANGED <<held, loose>>
    BY <1>1, <2>1 DEF TenancyInv, TenancyTyped, DomainsFrozen
  <2>2. CASE ~UNCHANGED <<held, loose>>
    <3> DEFINE d == job[w].next
               a == job[w].id
    <3>1. /\ held' = [held EXCEPT ![d].owner = a]
          /\ loose' = (loose \ {d}) \cup Loosened(d, a, held[d].active)
      BY <2>2 DEF AssignDomain
    <3>2. a \in Acct /\ d \in Dom
      BY <1>1 DEF Giving
    <3> HIDE DEF d, a
    <3>3. held[d] \in Holding
      BY <1>0, <3>2 DEF TenancyTyped
    <3>4. [held[d] EXCEPT !.owner = a] = [owner |-> a, active |-> held[d].active]
      BY <3>3 DEF Holding
    <3>5. held' = [held EXCEPT ![d] = [owner |-> a, active |-> held[d].active]]
      BY <3>1, <3>4
    <3>6. held[d].active \in BOOLEAN
      BY <3>3 DEF Holding
    <3> QED
      BY <1>0, <1>1, <3>1, <3>2, <3>5, <3>6, HandingOver DEF TenancyInv
  <2> QED
    BY <2>1, <2>2
<1>4. TenancyTyped'
  BY <1>1, <1>2, <1>3 DEF TenancyInv, TenancyTyped
<1> QED
  BY <1>1, <1>2, <1>3, <1>4, AccountsKept DEF TenancyInv

-----------------------------------------------------------------------------
(* Suspending and deleting, resellers, domains.                            *)

LEMMA AskStep ==
  ASSUME TenancyInv, NEW w \in Work, NEW by \in Acct \cup {Root},
         NEW op \in {"suspend", "reactivate", "delete"}, NEW a \in Acct, AskToChange(w, by, op, a)
  PROVE  TenancyInv'
<1> DEFINE after == [at |-> "scope", by |-> by, id |-> a, op |-> op]
<1>1. after \in Acting /\ after.at = "scope"
  BY DEF Acting
<1>2. job' = [job EXCEPT ![w] = after] /\ UNCHANGED <<account, held, highest, loose>>
  BY DEF AskToChange
<1> HIDE DEF after
<1>3. /\ job' \in [Work -> {Rest} \cup Making \cup Giving \cup Acting]
      /\ \A v \in Work : job'[v] = job[v] \/ job'[v].at \notin {"reseller", "count", "insert"}
  BY <1>1, <1>2, MovesOn DEF TenancyInv
<1>4. TenancyTyped' /\ DomainsFrozen'
  BY <1>2, <1>3 DEF TenancyInv, TenancyTyped, DomainsFrozen
<1> QED
  BY <1>2, <1>3, <1>4, AccountsKept DEF TenancyInv

LEMMA CheckScopeStep ==
  ASSUME TenancyInv, NEW w \in Work, CheckScope(w)
  PROVE  TenancyInv'
<1>0. job \in [Work -> {Rest} \cup Making \cup Giving \cup Acting] /\ TenancyTyped
  BY DEF TenancyInv, TenancyTyped
<1>1. job[w] \in Acting /\ UNCHANGED <<account, held, highest, loose>>
  BY <1>0, Kinds DEF CheckScope
<1>2. /\ job' \in [Work -> {Rest} \cup Making \cup Giving \cup Acting]
      /\ \A v \in Work : job'[v] = job[v] \/ job'[v].at \notin {"reseller", "count", "insert"}
  <2>1. CASE Stop(w)
    BY <1>0, <2>1, StopsOn
  <2>2. CASE ~Stop(w)
    <3> DEFINE after == [job[w] EXCEPT !.at = job[w].op]
    <3>1. job' = [job EXCEPT ![w] = after]
      BY <2>2 DEF CheckScope, Go
    <3>2. after \in Acting /\ after.at \in {"suspend", "reactivate", "delete"}
      BY <1>1 DEF Acting
    <3> HIDE DEF after
    <3> QED
      BY <1>0, <3>1, <3>2, MovesOn
  <2> QED
    BY <2>1, <2>2
<1>3. TenancyTyped' /\ DomainsFrozen'
  BY <1>1, <1>2 DEF TenancyInv, TenancyTyped, DomainsFrozen
<1> QED
  BY <1>1, <1>2, <1>3, AccountsKept DEF TenancyInv

\* A step on the accounts that no request under way is disturbed by: nobody comes
\* under a reseller, resellers stay resellers or go, and caps get no lower.
Undisturbed ==
  \A b \in Acct :
    /\ account'[b].parent \in {Nobody, account[b].parent}
    /\ account'[b].parent # Nobody =>
         /\ account'[b].role = account[b].role
         /\ account'[account[b].parent].role = "reseller"
         /\ account'[account[b].parent].parent = account[account[b].parent].parent
    /\ account[b].role \in {"reseller", "gone"} => account'[b].role \in {"reseller", "gone"}
    /\ account'[b].role = "customer" => account[b].role = "customer"
    /\ account'[b].role = "reseller" /\ highest'[b] # Nobody =>
         \/ /\ account[b].role = "reseller" /\ highest[b] # Nobody /\ highest[b] <= highest'[b]
            /\ account'[b].cap # Nobody /\ account'[b].cap <= highest'[b]
         \/ account[b].role \in {"none", "customer"} /\ account'[b].cap = highest'[b]

LEMMA AccountsMoved ==
  ASSUME TenancyInv, TenancyTyped',
         \A v \in Work : job'[v] = job[v] \/ job'[v].at \notin {"reseller", "count", "insert"},
         Undisturbed
  PROVE  TwoLevels' /\ ParentsFound' /\ CapsWithin' /\ CapPassedByRacesOnly'
<1>0. TenancyTyped
  BY DEF TenancyInv
<1>1. TwoLevels'
  <2> SUFFICES ASSUME NEW b \in Acct, account'[b].parent # Nobody
               PROVE  LET r == account'[account'[b].parent] IN
                        account'[b].role = "customer" /\ r.role = "reseller" /\ r.parent = Nobody
    BY DEF TwoLevels
  <2>1. account'[b].parent = account[b].parent
    BY DEF Undisturbed
  <2> QED
    BY <2>1 DEF TenancyInv, TwoLevels, Undisturbed
<1>2. \A v \in Work : Found(v)' => /\ Found(v) /\ job'[v] = job[v] /\ job[v].parent \in Acct
                                   /\ account[job[v].parent].role \in {"reseller", "gone"}
  BY <1>0, LetFewer, Kinds DEF Found, TenancyTyped, Making, TenancyInv, ParentsFound
<1>3. ParentsFound'
  BY <1>2, LetFewer DEF TenancyInv, ParentsFound, Undisturbed
<1>4. \A b \in Acct : highest'[b] # Nobody => highest'[b] \in Nat
  BY TenancyAssumption DEF TenancyTyped
<1>5. \A b \in Acct : highest[b] # Nobody => highest[b] \in Nat
  BY <1>0, TenancyAssumption DEF TenancyTyped
<1>6. CapsWithin'
  <2>1. ASSUME NEW b \in Acct, account'[b].role = "reseller"
        PROVE  Within(account'[b].cap, highest'[b])
    BY <1>4, <2>1 DEF Within, Undisturbed
  <2>2. ASSUME NEW v \in Work
        PROVE  /\ job'[v].at = "count" => job'[v].parent # Nobody /\ job'[v].cap # Nobody
               /\ Found(v)' /\ account'[job'[v].parent].role = "reseller"
                    => Within(job'[v].cap, highest'[job'[v].parent])
    <3>1. job'[v].at = "count" => job'[v].parent # Nobody /\ job'[v].cap # Nobody
      BY LetFewer DEF TenancyInv, CapsWithin
    <3>2. ASSUME Found(v)', account'[job'[v].parent].role = "reseller",
                 highest'[job'[v].parent] # Nobody
          PROVE  job'[v].cap # Nobody /\ job'[v].cap <= highest'[job'[v].parent]
      <4> DEFINE p == job[v].parent
      <4>1. Found(v) /\ job'[v] = job[v] /\ p \in Acct /\ account[p].role \in {"reseller", "gone"}
        BY <1>2, <3>2
      <4> HIDE DEF p
      <4>2. account[p].role = "reseller" /\ highest[p] # Nobody /\ highest[p] <= highest'[p]
        BY <3>2, <4>1 DEF p, Undisturbed
      <4>3. job[v].cap # Nobody /\ job[v].cap <= highest[p]
        BY <4>1, <4>2 DEF p, TenancyInv, CapsWithin, Within
      <4>4. job[v].cap \in Nat
        BY <1>0, <4>1, <4>3, Kinds, TenancyAssumption DEF Found, TenancyTyped, Making
      <4> QED
        BY <1>4, <1>5, <3>2, <4>1, <4>2, <4>3, <4>4 DEF p
    <3> QED
      BY <3>1, <3>2 DEF Within
  <2> QED
    BY <2>1, <2>2 DEF CapsWithin
<1>7. ASSUME NEW r \in Acct
      PROVE  Customers(r)' \subseteq Customers(r) /\ Let(r)' \subseteq Let(r)
  <2>1. r # Nobody
    BY TenancyAssumption
  <2> QED
    BY <2>1, LetFewer DEF Customers, Undisturbed
<1>8. CapPassedByRacesOnly'
  <2> SUFFICES ASSUME NEW r \in Acct, account'[r].role = "reseller", highest'[r] # Nobody
               PROVE  Cardinality(Customers(r)') + Cardinality(Let(r)')
                        <= highest'[r] + Cardinality(Work) - 1
    BY DEF CapPassedByRacesOnly, Let
  <2>0. /\ Cardinality(Work) \in Nat \ {0} /\ highest'[r] \in Nat
        /\ IsFiniteSet(Customers(r)) /\ IsFiniteSet(Let(r))
    <3>1. Customers(r) \in SUBSET Acct /\ Let(r) \in SUBSET Work
      BY DEF Customers, Let
    <3> QED
      BY <1>4, <3>1, Counts
  <2>1. CASE account[r].role \in {"none", "customer"}
    <3>1. Customers(r) = {}
      BY <1>0, <2>1, TenancyAssumption DEF Customers, TenancyInv, TwoLevels
    <3>2. Let(r) = {}
      BY <2>1, TenancyAssumption DEF Let, TenancyInv, ParentsFound, Found
    <3>3. Customers(r)' = {} /\ Let(r)' = {}
      BY <1>7, <3>1, <3>2
    <3>4. Cardinality(Customers(r)') = 0 /\ Cardinality(Let(r)') = 0
      BY <3>3, FS_EmptySet
    <3> QED
      BY <2>0, <3>4
  <2>2. CASE ~(account[r].role \in {"none", "customer"})
    <3>1. highest[r] # Nobody /\ highest[r] <= highest'[r] /\ account[r].role = "reseller"
      BY <2>2 DEF Undisturbed
    <3>2. Cardinality(Customers(r)) + Cardinality(Let(r)) <= highest[r] + Cardinality(Work) - 1
      BY <3>1 DEF TenancyInv, CapPassedByRacesOnly, Let
    <3>3. /\ Cardinality(Customers(r)') <= Cardinality(Customers(r))
          /\ Cardinality(Let(r)') <= Cardinality(Let(r))
          /\ IsFiniteSet(Customers(r)') /\ IsFiniteSet(Let(r)')
      BY <1>7, <2>0, FS_Subset
    <3>4. /\ Cardinality(Customers(r)') \in Nat /\ Cardinality(Let(r)') \in Nat
          /\ Cardinality(Customers(r)) \in Nat /\ Cardinality(Let(r)) \in Nat
      BY <2>0, <3>3, FS_CardinalityType
    <3> QED
      BY <1>5, <2>0, <3>1, <3>2, <3>3, <3>4
  <2> QED
    BY <2>1, <2>2
<1> QED
  BY <1>1, <1>3, <1>6, <1>8

\* Who is under an account is a reseller under nobody.
LEMMA Parents ==
  ASSUME TenancyInv, NEW b \in Acct, account[b].parent # Nobody
  PROVE  /\ account[b].parent \in Acct /\ account[b].role = "customer"
         /\ account[account[b].parent].role = "reseller"
         /\ account[account[b].parent].parent = Nobody
<1>1. account[b].parent \in Acct \cup {Nobody}
  BY DEF TenancyInv, TenancyTyped, Row
<1> QED
  BY <1>1 DEF TenancyInv, TwoLevels

LEMMA CapsFit ==
  ASSUME TenancyInv, NEW b \in Acct
  PROVE  /\ highest[b] # Nobody => highest[b] \in Nat /\ highest[b] <= highest[b]
         /\ account[b].cap # Nobody => account[b].cap \in Nat
         /\ account[b].role = "reseller" /\ highest[b] # Nobody =>
              account[b].cap # Nobody /\ account[b].cap <= highest[b]
<1>1. highest[b] \in Limits \cup {Nobody} /\ account[b].cap \in Limits \cup {Nobody}
  BY DEF TenancyInv, TenancyTyped, Row
<1>2. highest[b] # Nobody => highest[b] \in Nat /\ highest[b] <= highest[b]
  <2>1. highest[b] # Nobody => highest[b] \in Nat
    BY <1>1, TenancyAssumption
  <2> QED
    BY <2>1
<1>3. account[b].cap # Nobody => account[b].cap \in Nat
  BY <1>1, TenancyAssumption
<1>4. account[b].role = "reseller" => Within(account[b].cap, highest[b])
  BY DEF TenancyInv, CapsWithin
<1> QED
  BY <1>2, <1>3, <1>4 DEF Within

LEMMA SetUserSuspendedStep ==
  ASSUME TenancyInv, NEW w \in Work, SetUserSuspended(w)
  PROVE  TenancyInv'
<1> DEFINE a == job[w].id
           on == job[w].at = "reactivate"
<1>0. job \in [Work -> {Rest} \cup Making \cup Giving \cup Acting] /\ TenancyTyped
  BY DEF TenancyInv, TenancyTyped
<1>1. a \in Acct /\ Stop(w) /\ UNCHANGED highest
  BY <1>0, Kinds DEF SetUserSuspended, Acting
<1>2. /\ job' \in [Work -> {Rest} \cup Making \cup Giving \cup Acting]
      /\ \A v \in Work : job'[v] = job[v] \/ job'[v].at \notin {"reseller", "count", "insert"}
  BY <1>0, <1>1, StopsOn
<1>3. CASE ~Exists(a)
  <2>1. UNCHANGED <<account, held, loose>>
    BY <1>3 DEF SetUserSuspended
  <2>2. TenancyTyped' /\ DomainsFrozen'
    BY <1>1, <1>2, <2>1 DEF TenancyInv, TenancyTyped, DomainsFrozen
  <2> QED
    BY <1>1, <1>2, <2>1, <2>2, AccountsKept DEF TenancyInv
<1>4. CASE Exists(a)
  <2> DEFINE row == [account[a] EXCEPT !.active = on]
  <2>1. /\ account' = [account EXCEPT ![a] = row]
        /\ held' = [d \in Dom |-> IF held[d].owner = a THEN [owner |-> a, active |-> on]
                                  ELSE held[d]]
        /\ loose' = {d \in loose : held[d].owner # a}
    BY <1>4 DEF SetUserSuspended
  <2>2. on \in BOOLEAN /\ account[a] \in Row
    BY <1>0, <1>1 DEF TenancyTyped
  <2> HIDE DEF on
  <2>3. /\ row \in Row /\ row.role = account[a].role /\ row.parent = account[a].parent
        /\ row.cap = account[a].cap /\ row.active = on
    BY <2>2 DEF Row
  <2> HIDE DEF row, a
  <2>4. account'[a] = row /\ \A b \in Acct \ {a} : account'[b] = account[b]
    BY <1>0, <1>1, <2>1 DEF TenancyTyped
  <2>5. TenancyTyped'
    BY <1>0, <1>1, <1>2, <2>1, <2>2, <2>3 DEF TenancyTyped, Holding
  <2>6. \A b \in Acct : /\ account'[b].role = account[b].role
                        /\ account'[b].parent = account[b].parent
                        /\ account'[b].cap = account[b].cap
    BY <2>3, <2>4
  <2>7. Undisturbed
    <3>1. \A b \in Acct : account[b].role = "reseller" /\ highest[b] # Nobody =>
            account[b].cap # Nobody /\ account[b].cap <= highest[b] /\ highest[b] <= highest[b]
      BY CapsFit
    <3> QED
      BY <1>1, <2>6, <3>1, Parents DEF Undisturbed
  <2>8. DomainsFrozen'
    <3> SUFFICES ASSUME NEW d \in Dom, held'[d].owner # Nobody,
                        ~account'[held'[d].owner].active, d \notin loose'
                 PROVE  ~held'[d].active
      BY DEF DomainsFrozen
    <3>1. CASE held[d].owner = a
      BY <2>1, <2>3, <2>4, <3>1
    <3>2. CASE held[d].owner # a
      <4>1. held'[d] = held[d] /\ d \notin loose
        BY <2>1, <3>2
      <4>2. held[d].owner \in Acct \cup {Nobody}
        BY <1>0 DEF TenancyTyped, Holding
      <4> QED
        BY <2>4, <3>2, <4>1, <4>2 DEF TenancyInv, DomainsFrozen
    <3> QED
      BY <3>1, <3>2
  <2> QED
    BY <1>2, <2>5, <2>7, <2>8, AccountsMoved DEF TenancyInv
<1> QED
  BY <1>3, <1>4

LEMMA DeleteUserStep ==
  ASSUME TenancyInv, NEW w \in Work, DeleteUser(w)
  PROVE  TenancyInv'
<1> DEFINE a == job[w].id
           row == [NoAccount EXCEPT !.role = "gone"]
<1>0. job \in [Work -> {Rest} \cup Making \cup Giving \cup Acting] /\ TenancyTyped
  BY DEF TenancyInv, TenancyTyped
<1>1. a \in Acct /\ Stop(w) /\ UNCHANGED <<highest, loose>>
  BY <1>0, Kinds DEF DeleteUser, Acting
<1>2. /\ job' \in [Work -> {Rest} \cup Making \cup Giving \cup Acting]
      /\ \A v \in Work : job'[v] = job[v] \/ job'[v].at \notin {"reseller", "count", "insert"}
  BY <1>0, <1>1, StopsOn
<1>3. CASE ~Exists(a)
  <2>1. UNCHANGED <<account, held>>
    BY <1>3 DEF DeleteUser
  <2>2. TenancyTyped' /\ DomainsFrozen'
    BY <1>1, <1>2, <2>1 DEF TenancyInv, TenancyTyped, DomainsFrozen
  <2> QED
    BY <1>1, <1>2, <2>1, <2>2, AccountsKept DEF TenancyInv
<1>4. CASE Exists(a)
  <2>1. /\ account' = [b \in Acct |->
             IF b = a THEN row
             ELSE IF account[b].parent = a THEN [account[b] EXCEPT !.parent = Nobody]
             ELSE account[b]]
        /\ held' = [d \in Dom |-> IF held[d].owner = a THEN [held[d] EXCEPT !.owner = Nobody]
                                  ELSE held[d]]
    BY <1>4 DEF DeleteUser
  <2>2. row \in Row /\ row.role = "gone" /\ row.parent = Nobody /\ row.active = TRUE
    BY DEF Row, NoAccount
  <2> HIDE DEF row, a
  <2>3. ASSUME NEW b \in Acct
        PROVE  /\ account[b] \in Row /\ [account[b] EXCEPT !.parent = Nobody] \in Row
               /\ [account[b] EXCEPT !.parent = Nobody].role = account[b].role
               /\ [account[b] EXCEPT !.parent = Nobody].parent = Nobody
               /\ [account[b] EXCEPT !.parent = Nobody].active = account[b].active
               /\ [account[b] EXCEPT !.parent = Nobody].cap = account[b].cap
    <3>1. account[b] \in Row
      BY <1>0 DEF TenancyTyped
    <3> QED
      BY <3>1 DEF Row
  <2>4. account'[a] = row
    BY <1>1, <2>1
  <2>5. \A b \in Acct \ {a} :
          /\ account'[b].role = account[b].role /\ account'[b].active = account[b].active
          /\ account'[b].parent = IF account[b].parent = a THEN Nobody ELSE account[b].parent
          /\ account'[b].cap = account[b].cap
    BY <2>1, <2>3
  <2>6. ASSUME NEW d \in Dom
        PROVE  /\ held[d] \in Holding /\ held'[d] \in Holding /\ held'[d].active = held[d].active
               /\ held'[d].owner = IF held[d].owner = a THEN Nobody ELSE held[d].owner
    <3>1. held[d] \in Holding
      BY <1>0 DEF TenancyTyped
    <3> QED
      BY <2>1, <3>1 DEF Holding
  <2>7. TenancyTyped'
    <3>1. account' \in [Acct -> Row]
      BY <2>1, <2>2, <2>3
    <3>2. held' \in [Dom -> Holding]
      BY <2>1, <2>6
    <3> QED
      BY <1>0, <1>1, <1>2, <3>1, <3>2 DEF TenancyTyped
  <2>8. Undisturbed
    <3>1. \A b \in Acct : account[b].role = "reseller" /\ highest[b] # Nobody =>
            account[b].cap # Nobody /\ account[b].cap <= highest[b] /\ highest[b] <= highest[b]
      BY CapsFit
    <3>2. a # Nobody
      BY <1>1, TenancyAssumption
    <3>3. \A b \in Acct : account'[b].parent # Nobody => b # a /\ account[b].parent # a
      BY <2>2, <2>4, <2>5
    <3>4. \A b \in Acct : account'[b].parent # Nobody =>
            /\ account'[b].role = account[b].role
            /\ account'[account[b].parent].role = "reseller"
            /\ account'[account[b].parent].parent = Nobody
            /\ account[account[b].parent].parent = Nobody
      BY <2>5, <3>2, <3>3, Parents
    <3>5. \A b \in Acct :
            /\ account'[b].parent \in {Nobody, account[b].parent}
            /\ account[b].role \in {"reseller", "gone"} => account'[b].role \in {"reseller", "gone"}
            /\ account'[b].role = "customer" => account[b].role = "customer"
      BY <2>2, <2>4, <2>5
    <3>6. \A b \in Acct : account'[b].role = "reseller" /\ highest'[b] # Nobody =>
            /\ account[b].role = "reseller" /\ highest[b] # Nobody /\ highest[b] <= highest'[b]
            /\ account'[b].cap # Nobody /\ account'[b].cap <= highest'[b]
      BY <1>1, <2>2, <2>4, <2>5, <3>1
    <3> QED
      BY <3>4, <3>5, <3>6 DEF Undisturbed
  <2>9. DomainsFrozen'
    <3> SUFFICES ASSUME NEW d \in Dom, held'[d].owner # Nobody,
                        ~account'[held'[d].owner].active, d \notin loose'
                 PROVE  ~held'[d].active
      BY DEF DomainsFrozen
    <3>1. held[d].owner \in Acct \ {a} /\ held'[d].owner = held[d].owner
      BY <2>6 DEF Holding
    <3> QED
      BY <1>1, <2>5, <2>6, <3>1 DEF TenancyInv, DomainsFrozen
  <2> QED
    BY <1>2, <2>7, <2>8, <2>9, AccountsMoved DEF TenancyInv
<1> QED
  BY <1>3, <1>4

\* One account gets another row, with no parent, and no domain is touched.
LEMMA OneRow ==
  ASSUME TenancyInv, NEW a \in Acct, NEW row \in Row, UNCHANGED <<held, job, loose>>,
         account' = [account EXCEPT ![a] = row], NEW c \in Limits \cup {Nobody},
         highest' = [highest EXCEPT ![a] = c],
         row.parent \in {Nobody, account[a].parent},
         row.parent # Nobody => row.role = account[a].role,
         account[a].role \in {"reseller", "gone"} => row.role \in {"reseller", "gone"},
         row.role = "customer" => account[a].role = "customer",
         account[a].role = "reseller" => row.role = "reseller",
         row.role = "reseller" /\ c # Nobody =>
           \/ /\ account[a].role = "reseller" /\ highest[a] # Nobody /\ highest[a] <= c
              /\ row.cap # Nobody /\ row.cap <= c
           \/ account[a].role \in {"none", "customer"} /\ row.cap = c,
         row.active \in {TRUE, account[a].active}
  PROVE  TenancyInv'
<1>0. TenancyTyped
  BY DEF TenancyInv
<1>1. /\ account'[a] = row /\ \A b \in Acct \ {a} : account'[b] = account[b]
      /\ highest'[a] = c /\ \A b \in Acct \ {a} : highest'[b] = highest[b]
  BY <1>0 DEF TenancyTyped
<1>2. TenancyTyped'
  BY <1>0 DEF TenancyTyped
<1>3. Undisturbed
  <2> SUFFICES ASSUME NEW b \in Acct
               PROVE  /\ account'[b].parent \in {Nobody, account[b].parent}
                      /\ account'[b].parent # Nobody =>
                           /\ account'[b].role = account[b].role
                           /\ account'[account[b].parent].role = "reseller"
                           /\ account'[account[b].parent].parent = account[account[b].parent].parent
                      /\ account[b].role \in {"reseller", "gone"}
                           => account'[b].role \in {"reseller", "gone"}
                      /\ account'[b].role = "customer" => account[b].role = "customer"
                      /\ account'[b].role = "reseller" /\ highest'[b] # Nobody =>
                           \/ /\ account[b].role = "reseller" /\ highest[b] # Nobody
                              /\ highest[b] <= highest'[b]
                              /\ account'[b].cap # Nobody /\ account'[b].cap <= highest'[b]
                           \/ account[b].role \in {"none", "customer"} /\ account'[b].cap = highest'[b]
    BY DEF Undisturbed
  <2>1. account'[b].parent \in {Nobody, account[b].parent}
    BY <1>1
  <2>2. ASSUME account'[b].parent # Nobody
        PROVE  /\ account'[b].role = account[b].role
               /\ account'[account[b].parent].role = "reseller"
               /\ account'[account[b].parent].parent = account[account[b].parent].parent
    <3> DEFINE p == account[b].parent
    <3>1. /\ p \in Acct /\ account[p].role = "reseller" /\ account[p].parent = Nobody
      BY <2>1, <2>2, Parents
    <3>2. account'[p].role = "reseller" /\ account'[p].parent = Nobody
      BY <1>1, <3>1
    <3> QED
      BY <1>1, <2>2, <3>1, <3>2
  <2>3. /\ account[b].role \in {"reseller", "gone"} => account'[b].role \in {"reseller", "gone"}
        /\ account'[b].role = "customer" => account[b].role = "customer"
    BY <1>1
  <2>4. ASSUME account'[b].role = "reseller", highest'[b] # Nobody
        PROVE  \/ /\ account[b].role = "reseller" /\ highest[b] # Nobody /\ highest[b] <= highest'[b]
                  /\ account'[b].cap # Nobody /\ account'[b].cap <= highest'[b]
               \/ account[b].role \in {"none", "customer"} /\ account'[b].cap = highest'[b]
    <3>1. CASE b = a
      BY <1>1, <2>4, <3>1
    <3>2. CASE b # a
      BY <1>1, <2>4, <3>2, CapsFit
    <3> QED
      BY <3>1, <3>2
  <2> QED
    BY <2>1, <2>2, <2>3, <2>4
<1>4. DomainsFrozen'
  <2> SUFFICES ASSUME NEW d \in Dom, held[d].owner # Nobody,
                      ~account'[held[d].owner].active, d \notin loose
               PROVE  ~held[d].active
    BY DEF DomainsFrozen
  <2>1. held[d].owner \in Acct
    BY <1>0 DEF TenancyTyped, Holding
  <2>2. ~account[held[d].owner].active
    BY <1>1, <2>1
  <2> QED
    BY <2>2 DEF TenancyInv, DomainsFrozen
<1> QED
  BY <1>2, <1>3, <1>4, AccountsMoved DEF TenancyInv

LEMMA CreateResellerStep ==
  ASSUME TenancyInv, NEW a \in Acct, NEW c \in Limits \cup {Nobody}, CreateReseller(a, c)
  PROVE  TenancyInv'
<1> DEFINE row == [role |-> "reseller", parent |-> Nobody, active |-> TRUE, cap |-> c]
<1>1. /\ row \in Row /\ row.role = "reseller" /\ row.parent = Nobody /\ row.active = TRUE
      /\ row.cap = c
  BY DEF Row
<1>2. /\ account' = [account EXCEPT ![a] = row] /\ highest' = [highest EXCEPT ![a] = c]
      /\ account[a].role = "none" /\ UNCHANGED <<held, job, loose>>
  BY DEF CreateReseller
<1> HIDE DEF row
<1> QED
  BY <1>1, <1>2, OneRow

LEMMA Highest ==
  ASSUME TenancyInv, NEW a \in Acct, NEW c \in Limits \cup {Nobody}
  PROVE  /\ Higher(highest[a], c) \in Limits \cup {Nobody}
         /\ Higher(highest[a], c) # Nobody =>
              /\ highest[a] # Nobody /\ highest[a] <= Higher(highest[a], c)
              /\ c # Nobody /\ c <= Higher(highest[a], c)
<1>1. highest[a] \in Limits \cup {Nobody}
  BY DEF TenancyInv, TenancyTyped
<1>2. CASE Nobody \in {highest[a], c}
  BY <1>2 DEF Higher
<1>3. CASE Nobody \notin {highest[a], c}
  <2>1. highest[a] \in Limits /\ c \in Limits /\ highest[a] \in Nat /\ c \in Nat
    BY <1>1, <1>3, TenancyAssumption
  <2> QED
    BY <1>3, <2>1 DEF Higher
<1> QED
  BY <1>2, <1>3

LEMMA PromoteToResellerStep ==
  ASSUME TenancyInv, NEW a \in Acct, NEW c \in Limits \cup {Nobody}, PromoteToReseller(a, c)
  PROVE  TenancyInv'
<1> DEFINE cap == IF c = Nobody THEN account[a].cap ELSE c
           row == [account[a] EXCEPT !.role = "reseller", !.parent = Nobody, !.cap = cap]
           top == IF account[a].role = "customer" THEN cap ELSE Higher(highest[a], cap)
<1>1. account[a] \in Row /\ account[a].role \in {"reseller", "customer"}
      /\ UNCHANGED <<held, job, loose>>
  BY DEF TenancyInv, TenancyTyped, PromoteToReseller, Exists
<1>2. cap \in Limits \cup {Nobody}
  BY <1>1 DEF Row
<1>3. account' = [account EXCEPT ![a] = row]
  BY DEF PromoteToReseller
<1>4. /\ row \in Row /\ row.role = "reseller" /\ row.parent = Nobody
      /\ row.active = account[a].active /\ row.cap = cap
  BY <1>1, <1>2 DEF Row
<1> HIDE DEF cap, row
<1>5. account'[a] = row
  BY <1>3 DEF TenancyInv, TenancyTyped
<1>6. highest' = [highest EXCEPT ![a] = top]
  <2>1. account'[a].cap = cap
    BY <1>4, <1>5
  <2>2. highest' = [highest EXCEPT ![a] = IF account[a].role = "customer" THEN account'[a].cap
                                    ELSE Higher(highest[a], account'[a].cap)]
    BY DEF PromoteToReseller
  <2> QED
    BY <2>1, <2>2
<1>7. /\ top \in Limits \cup {Nobody}
      /\ top # Nobody =>
           \/ /\ account[a].role = "reseller" /\ highest[a] # Nobody /\ highest[a] <= top
              /\ row.cap # Nobody /\ row.cap <= top
           \/ account[a].role \in {"none", "customer"} /\ row.cap = top
  BY <1>1, <1>2, <1>4, Highest
<1> HIDE DEF top
<1> QED
  BY <1>1, <1>3, <1>4, <1>6, <1>7, OneRow

LEMMA UpdateResellerStep ==
  ASSUME TenancyInv, NEW a \in Acct, NEW c \in Limits \cup {Nobody}, UpdateReseller(a, c)
  PROVE  TenancyInv'
<1> DEFINE row == [account[a] EXCEPT !.cap = c]
           top == Higher(highest[a], c)
<1>1. account[a] \in Row /\ account[a].role \in {"reseller", "customer"}
      /\ UNCHANGED <<held, job, loose>>
  BY DEF TenancyInv, TenancyTyped, UpdateReseller, Exists
<1>2. account' = [account EXCEPT ![a] = row] /\ highest' = [highest EXCEPT ![a] = top]
  BY DEF UpdateReseller
<1>3. /\ row \in Row /\ row.role = account[a].role /\ row.parent = account[a].parent
      /\ row.active = account[a].active /\ row.cap = c
  BY <1>1 DEF Row
<1> HIDE DEF row, top
<1>4. /\ top \in Limits \cup {Nobody}
      /\ row.role = "reseller" /\ top # Nobody =>
           \/ /\ account[a].role = "reseller" /\ highest[a] # Nobody /\ highest[a] <= top
              /\ row.cap # Nobody /\ row.cap <= top
           \/ account[a].role \in {"none", "customer"} /\ row.cap = top
  BY <1>3, Highest DEF top
<1> QED
  BY <1>1, <1>2, <1>3, <1>4, OneRow

LEMMA HandedOver ==
  ASSUME TenancyInv, NEW d \in Dom, NEW o \in Acct \cup {Nobody}, NEW on \in BOOLEAN,
         held' = [held EXCEPT ![d] = [owner |-> o, active |-> on]],
         loose' = (loose \ {d}) \cup Loosened(d, o, on), UNCHANGED <<account, job, highest>>
  PROVE  TenancyInv'
<1>1. DomainsFrozen' /\ held' \in [Dom -> Holding] /\ loose' \subseteq Dom
  BY HandingOver DEF TenancyInv
<1>2. TenancyTyped'
  BY <1>1 DEF TenancyInv, TenancyTyped
<1>3. \A v \in Work : job'[v] = job[v] \/ job'[v].at \notin {"reseller", "count", "insert"}
  OBVIOUS
<1> QED
  BY <1>1, <1>2, <1>3, AccountsKept DEF TenancyInv

LEMMA ReassignDomainStep ==
  ASSUME TenancyInv, NEW by \in Acct \cup {Root}, NEW d \in Dom, NEW o \in Acct \cup {Nobody},
         ReassignDomain(by, d, o)
  PROVE  TenancyInv'
<1>1. held[d] \in Holding
  BY DEF TenancyInv, TenancyTyped
<1>2. /\ [held[d] EXCEPT !.owner = o] = [owner |-> o, active |-> held[d].active]
      /\ held[d].active \in BOOLEAN
  BY <1>1 DEF Holding
<1>3. held' = [held EXCEPT ![d] = [owner |-> o, active |-> held[d].active]]
  BY <1>2 DEF ReassignDomain
<1> QED
  BY <1>2, <1>3, HandedOver DEF ReassignDomain

LEMMA SetDomainSuspendedStep ==
  ASSUME TenancyInv, NEW by \in Acct \cup {Root}, NEW d \in Dom, NEW suspended \in BOOLEAN,
         SetDomainSuspended(by, d, suspended)
  PROVE  TenancyInv'
<1>1. held[d] \in Holding
  BY DEF TenancyInv, TenancyTyped
<1> DEFINE on == ~suspended
<1>2. /\ held' = [held EXCEPT ![d].active = on] /\ on \in BOOLEAN
      /\ loose' = (loose \ {d}) \cup Loosened(d, held[d].owner, on)
      /\ UNCHANGED <<account, job, highest>>
  BY DEF SetDomainSuspended
<1> HIDE DEF on
<1>3. /\ [held[d] EXCEPT !.active = on] = [owner |-> held[d].owner, active |-> on]
      /\ held[d].owner \in Acct \cup {Nobody}
  BY <1>1 DEF Holding
<1>4. held' = [held EXCEPT ![d] = [owner |-> held[d].owner, active |-> on]]
  BY <1>2, <1>3
<1> QED
  BY <1>2, <1>3, <1>4, HandedOver

-----------------------------------------------------------------------------

LEMMA TenancyStep == TenancyInv /\ [TenancyNext]_tenancyVars => TenancyInv'
<1> SUFFICES ASSUME TenancyInv, [TenancyNext]_tenancyVars PROVE TenancyInv'
  OBVIOUS
<1>1. ASSUME NEW w \in Work, JobStep(w) PROVE TenancyInv'
  BY <1>1, FindResellerStep, CountCustomersStep, InsertCustomerStep, FindDomainStep,
     AssignDomainStep, CheckScopeStep, SetUserSuspendedStep, DeleteUserStep DEF JobStep
<1>2. ASSUME NEW w \in Work, NEW by \in Acct \cup {Root}, NEW a \in Acct,
             \/ \E under \in Acct \cup {Nobody}, ds \in SUBSET Dom : AskCustomer(w, by, a, under, ds)
             \/ \E seen \in BOOLEAN : Toggle(w, by, a, seen)
             \/ Remove(w, by, a)
      PROVE  TenancyInv'
  <2>1. CASE \E under \in Acct \cup {Nobody}, ds \in SUBSET Dom : AskCustomer(w, by, a, under, ds)
    BY <2>1, AskCustomerStep
  <2>2. CASE \E seen \in BOOLEAN : Toggle(w, by, a, seen)
    <3> PICK seen \in BOOLEAN : Toggle(w, by, a, seen)
      BY <2>2
    <3>1. \E op \in {"suspend", "reactivate", "delete"} : AskToChange(w, by, op, a)
      BY DEF Toggle
    <3> QED
      BY <3>1, AskStep
  <2>3. CASE Remove(w, by, a)
    BY <2>3, AskStep DEF Remove
  <2> QED
    BY <1>2, <2>1, <2>2, <2>3
<1>3. ASSUME NEW a \in Acct, NEW c \in Limits \cup {Nobody},
             CreateReseller(a, c) \/ PromoteToReseller(a, c) \/ UpdateReseller(a, c)
      PROVE  TenancyInv'
  BY <1>3, CreateResellerStep, PromoteToResellerStep, UpdateResellerStep
<1>4. ASSUME NEW by \in Acct \cup {Root}, NEW d \in Dom,
             \/ \E o \in Acct \cup {Nobody} : ReassignDomain(by, d, o)
             \/ \E suspended \in BOOLEAN : SetDomainSuspended(by, d, suspended)
      PROVE  TenancyInv'
  BY <1>4, ReassignDomainStep, SetDomainSuspendedStep
<1>5. CASE UNCHANGED tenancyVars
  <2>1. UNCHANGED <<account, held, job, highest, loose>>
    BY <1>5 DEF tenancyVars
  <2>2. TenancyTyped' /\ DomainsFrozen'
    BY <2>1 DEF TenancyInv, TenancyTyped, DomainsFrozen
  <2> QED
    BY <2>1, <2>2, AccountsKept DEF TenancyInv
<1> QED
  BY <1>1, <1>2, <1>3, <1>4, <1>5 DEF TenancyNext

\* The invariant of the accounts: userScope() and domainScope() look one level
\* down, and no interleaving of the requests makes a second.
THEOREM TenancyInvariant == TenancySpec => []TenancyInv
<1> QED
  BY TenancyInitInv, TenancyStep, PTL DEF TenancySpec

\* No account is two levels down (TwoLevels).
THEOREM AccountsTwoLevels == TenancySpec => []TwoLevels
<1>1. TenancyInv => TwoLevels
  BY DEF TenancyInv
<1> QED
  BY <1>1, TenancyInvariant, PTL

\* How far createCustomer() lets a reseller pass its cap (CapPassedByRacesOnly).
THEOREM CapPassedByRaces == TenancySpec => []CapPassedByRacesOnly
<1>1. TenancyInv => CapPassedByRacesOnly
  BY DEF TenancyInv
<1> QED
  BY <1>1, TenancyInvariant, PTL

\* Suspending an account stops what is under its domains (DomainsFrozen).
THEOREM SuspendedDomainsFrozen == TenancySpec => []DomainsFrozen
<1>1. TenancyInv => DomainsFrozen
  BY DEF TenancyInv
<1> QED
  BY <1>1, TenancyInvariant, PTL

(***************************************************************************)
(* AdminPages.                                                             *)
(***************************************************************************)

\* A request under way comes from a button of the page it was sent from.
RequestsTyped ==
  \A s \in Sending : Underway(s) =>
    /\ sent[s].at \in {"asked", "served"}
    /\ sent[s].page \in Place /\ sent[s].button \in Page[sent[s].page].ops

PagesTyped ==
  /\ place \in Place
  /\ data \in [Query -> {"none", "now", "before"}]
  /\ fetch \in [Query -> {"no", "now", "before"}]
  /\ sent \in [Sending -> {Nothing} \cup
                 [at : {"asked", "served"}, button : UNION {Page[p].ops : p \in Place},
                  page : Place, since : Nat]]
  /\ opens \in Nat
  /\ RequestsTyped

\* A request that has changed the answer to q, and will tell.
Teller(q) ==
  \E s \in Sending : sent[s].at = "served" /\ q \in sent[s].button.tells \cap sent[s].button.does

\* What is from before a change, on its way or in the cache, will be told of.
ComingTold == \A q \in Query : fetch[q] = "before" => q \in untold \/ Teller(q)
HeldTold   == \A q \in Query : data[q] = "before" => q \in untold \cup stale \/ Teller(q)

\* What is stale on screen is on its way.
StaleAsked == \A q \in OnScreen : q \in stale => fetch[q] # "no" \/ q \in failed

PagesInv == PagesTyped /\ ComingTold /\ HeldTold /\ StaleAsked

-----------------------------------------------------------------------------
(* The table of pages.                                                     *)

LEMMA PageTable ==
  /\ Page["dashboard"] = DashboardPage
  /\ Page["domains"] = DomainsPage
  /\ Page["dns"] = DomainDetailPage(DnsWizard)
  /\ Page["dkim"] = DomainDetailPage(DkimPanel)
  /\ Page["domainSettings"] = DomainDetailPage(DomainSettings)
  /\ Page["pick"] = DomainSelect
  /\ Page["mailboxes"] = MailboxesPage(MailboxTab)
  /\ Page["aliases"] = MailboxesPage(AliasTab)
  /\ Page["forwarders"] = MailboxesPage(ForwarderTab)
  /\ Page["customers"] = Both(CustomerList, CreateTenantDialog("customer"))
  /\ Page["resellers"] = Both(ResellerList, CreateTenantDialog("reseller"))
  /\ Page["nodes"] = NodesPage
  /\ Page["queue"] = QueuePage
  /\ Page["logs"] = LogsPage
  /\ Page["spam"] = SpamPage
  /\ Page["settings"] = SettingsPage
BY DEF Page, Place, Entry, DomainTabs, MailTabs, CustomerTabs

LEMMA ReadsTable ==
  /\ Page["dashboard"].reads = {"dashboard", "volume", "topDomains"}
  /\ Page["domains"].reads = {"domainList"}
  /\ Page["dns"].reads = {"domain", "dns", "registrar", "testBoxes"}
  /\ Page["dkim"].reads = {"domain", "dkim"}
  /\ Page["domainSettings"].reads = {"domain"}
  /\ Page["pick"].reads = {"domainNames"}
  /\ Page["mailboxes"].reads = {"domainNames", "mailboxes"}
  /\ Page["aliases"].reads = {"domainNames", "aliases"}
  /\ Page["forwarders"].reads = {"domainNames", "forwarders"}
  /\ Page["customers"].reads = {"customers"}
  /\ Page["resellers"].reads = {"resellers"}
  /\ Page["nodes"].reads = {"nodes"}
  /\ Page["queue"].reads = {"queue"}
  /\ Page["logs"].reads = {"logs"}
  /\ Page["spam"].reads = {"thresholds", "scores", "accessRules"}
  /\ Page["settings"].reads = {"tokens", "alerts", "namecheap"}
<1>1. /\ Page["dashboard"].reads = {"dashboard", "volume", "topDomains"}
      /\ Page["domains"].reads = {"domainList"}
      /\ Page["domainSettings"].reads = {"domain"}
      /\ Page["pick"].reads = {"domainNames"}
  BY PageTable DEF Shows, Both, DashboardPage, DomainsPage, CreateDomainDialog, DomainDetailPage,
     DomainSettings, DomainSelect
<1>2. /\ Page["dns"].reads = {"domain", "dns", "registrar", "testBoxes"}
      /\ Page["dkim"].reads = {"domain", "dkim"}
  BY PageTable DEF Shows, Both, DomainDetailPage, DkimPanel, DnsWizard, DnsRecords,
     RegistrarAutoConfigure, DeliveryTestCard
<1>3. /\ Page["mailboxes"].reads = {"domainNames", "mailboxes"}
      /\ Page["aliases"].reads = {"domainNames", "aliases"}
      /\ Page["forwarders"].reads = {"domainNames", "forwarders"}
  BY PageTable DEF Shows, Both, MailboxesPage, DomainSelect, MailboxTab, AliasTab, ForwarderTab
<1>4. /\ Page["customers"].reads = {"customers"}
      /\ Page["resellers"].reads = {"resellers"}
      /\ Page["nodes"].reads = {"nodes"}
      /\ Page["queue"].reads = {"queue"}
      /\ Page["logs"].reads = {"logs"}
  BY PageTable DEF Shows, Both, CustomerList, CreateTenantDialog, ResellerList, NodesPage, QueuePage,
     LogsPage
<1>5. /\ Page["spam"].reads = {"thresholds", "scores", "accessRules"}
      /\ Page["settings"].reads = {"tokens", "alerts", "namecheap"}
  BY PageTable DEF Shows, Both, SpamPage, ThresholdsCard, ScoreCard, AccessRulesCard, SettingsPage,
     ApiTokensCard, EmailAlertsCard, RegistrarCard
<1> QED
  BY <1>1, <1>2, <1>3, <1>4, <1>5

\* The place is one of the sixteen.
LEMMA PlaceCases ==
  ASSUME NEW p \in Place
  PROVE  \/ p = "dashboard" \/ p = "domains" \/ p = "dns" \/ p = "dkim" \/ p = "domainSettings"
         \/ p = "pick" \/ p = "mailboxes" \/ p = "aliases" \/ p = "forwarders"
         \/ p = "customers" \/ p = "resellers" \/ p = "nodes" \/ p = "queue" \/ p = "logs"
         \/ p = "spam" \/ p = "settings"
BY DEF Place, Entry, DomainTabs, MailTabs, CustomerTabs

LEMMA ReadsQueries == \A p \in Place : Page[p].reads \subseteq Query
<1> TAKE p \in Place
<1> QED
  BY PlaceCases, ReadsTable DEF Query, DashboardQueries, DomainQueries, MailQueries, CustomerQueries,
     OpsQueries, SettingsQueries

LEMMA BesideTable ==
  /\ \A p \in Place \ (DomainTabs \cup MailTabs \cup CustomerTabs) : Beside[p] = Page[p].reads
  /\ \A p \in DomainTabs : Beside[p] = {"domain", "dns", "registrar", "testBoxes", "dkim"}
  /\ \A p \in MailTabs : Beside[p] = {"domainNames", "mailboxes", "aliases", "forwarders"}
  /\ \A p \in CustomerTabs : Beside[p] = {"customers", "resellers"}
<1>1. \A p \in Place : Beside[p] = UNION {Page[t].reads : t \in TabsOf(p)}
  BY DEF Beside
<1>2. /\ DomainTabs \subseteq Place /\ MailTabs \subseteq Place /\ CustomerTabs \subseteq Place
      /\ DomainTabs \cap MailTabs = {} /\ DomainTabs \cap CustomerTabs = {}
      /\ MailTabs \cap CustomerTabs = {}
  BY DEF Place, DomainTabs, MailTabs, CustomerTabs
<1>3. ASSUME NEW p \in Place \ (DomainTabs \cup MailTabs \cup CustomerTabs)
      PROVE  Beside[p] = Page[p].reads
  <2>1. TabsOf(p) = {p}
    BY <1>3 DEF TabsOf
  <2>2. Beside[p] = UNION {Page[t].reads : t \in TabsOf(p)}
    BY <1>1, <1>3
  <2>3. UNION {Page[t].reads : t \in {p}} = Page[p].reads
    OBVIOUS
  <2> QED
    BY <2>1, <2>2, <2>3
<1>4. ASSUME NEW p \in DomainTabs
      PROVE  Beside[p] = {"domain", "dns", "registrar", "testBoxes", "dkim"}
  <2>1. TabsOf(p) = {"dns", "dkim", "domainSettings"}
    <3>1. TabsOf(p) = DomainTabs
      BY <1>2, <1>4 DEF TabsOf
    <3> QED
      BY <3>1 DEF DomainTabs
  <2>2. Beside[p] = Page["dns"].reads \cup Page["dkim"].reads \cup Page["domainSettings"].reads
    BY <1>1, <1>2, <1>4, <2>1
  <2> QED
    BY <2>2, ReadsTable
<1>5. ASSUME NEW p \in MailTabs
      PROVE  Beside[p] = {"domainNames", "mailboxes", "aliases", "forwarders"}
  <2>1. TabsOf(p) = {"mailboxes", "aliases", "forwarders"}
    <3>1. TabsOf(p) = MailTabs
      BY <1>2, <1>5 DEF TabsOf
    <3> QED
      BY <3>1 DEF MailTabs
  <2>2. Beside[p] = Page["mailboxes"].reads \cup Page["aliases"].reads \cup Page["forwarders"].reads
    BY <1>1, <1>2, <1>5, <2>1
  <2> QED
    BY <2>2, ReadsTable
<1>6. ASSUME NEW p \in CustomerTabs
      PROVE  Beside[p] = {"customers", "resellers"}
  <2>1. TabsOf(p) = {"customers", "resellers"}
    <3>1. TabsOf(p) = CustomerTabs
      BY <1>2, <1>6 DEF TabsOf
    <3> QED
      BY <3>1 DEF CustomerTabs
  <2>2. Beside[p] = Page["customers"].reads \cup Page["resellers"].reads
    BY <1>1, <1>2, <1>6, <2>1
  <2> QED
    BY <2>2, ReadsTable
<1> QED
  BY <1>3, <1>4, <1>5, <1>6

\* Every button tells what it changes of the page it is on, unless it leaves it.
Tells(p, b) ==
  /\ b.does \subseteq Query /\ b.tells \subseteq Query
  /\ b.to = "here" => b.does \cap Beside[p] \subseteq b.tells
  /\ b.to # "here" => b.to \in Place /\ b.tells = {}

LEMMA ButtonsTell == \A p \in Place : \A b \in Page[p].ops : Tells(p, b)
<1> DEFINE Q == Query
<1>q. /\ {"dashboard", "domainList", "domainNames", "domain", "dns", "dkim", "registrar",
          "mailboxes", "testBoxes", "aliases", "forwarders", "customers", "resellers"} \subseteq Q
      /\ {"queue", "nodes", "thresholds", "accessRules", "tokens", "alerts", "namecheap"} \subseteq Q
  BY DEF Query, DashboardQueries, DomainQueries, MailQueries, CustomerQueries, OpsQueries,
     SettingsQueries
<1>d. /\ "dns" \in DomainTabs /\ "dkim" \in DomainTabs /\ "domainSettings" \in DomainTabs
      /\ "mailboxes" \in MailTabs /\ "aliases" \in MailTabs /\ "forwarders" \in MailTabs
      /\ "customers" \in CustomerTabs /\ "resellers" \in CustomerTabs
      /\ \A p \in {"dashboard", "domains", "pick", "nodes", "queue", "logs", "spam", "settings"} :
           p \in Place \ (DomainTabs \cup MailTabs \cup CustomerTabs)
  BY DEF Place, Entry, DomainTabs, MailTabs, CustomerTabs
<1>b. /\ Beside["dns"] = {"domain", "dns", "registrar", "testBoxes", "dkim"}
      /\ Beside["dkim"] = {"domain", "dns", "registrar", "testBoxes", "dkim"}
      /\ Beside["domainSettings"] = {"domain", "dns", "registrar", "testBoxes", "dkim"}
      /\ Beside["mailboxes"] = {"domainNames", "mailboxes", "aliases", "forwarders"}
      /\ Beside["aliases"] = {"domainNames", "mailboxes", "aliases", "forwarders"}
      /\ Beside["forwarders"] = {"domainNames", "mailboxes", "aliases", "forwarders"}
      /\ Beside["customers"] = {"customers", "resellers"}
      /\ Beside["resellers"] = {"customers", "resellers"}
      /\ Beside["domains"] = {"domainList"} /\ Beside["nodes"] = {"nodes"}
      /\ Beside["queue"] = {"queue"}
      /\ Beside["spam"] = {"thresholds", "scores", "accessRules"}
      /\ Beside["settings"] = {"tokens", "alerts", "namecheap"}
  BY <1>d, BesideTable, ReadsTable
<1> HIDE DEF Q
<1>1. \A b \in Page["dashboard"].ops : Tells("dashboard", b)
  BY PageTable DEF DashboardPage, Shows
<1>2. \A b \in Page["domains"].ops : Tells("domains", b)
  BY <1>q, <1>b, PageTable DEF DomainsPage, CreateDomainDialog, Both, Shows, Once, Button,
     DomainRoutes, OfDomains, OfDomain, Tells, Q
<1>3. \A b \in Page["dns"].ops : Tells("dns", b)
  <2>1. Page["dns"].ops =
          {Once("validateDns", DnsRoutes.validateDns, {"dns"}, "none"),
           Once("sendDns", DnsRoutes.sendDns, {}, "none"),
           Once("applySync", DnsRoutes.applySync, {"dns"}, "registrar"),
           Once("rollbackSync", DnsRoutes.rollbackSync, {"dns"}, "registrar"),
           Once("testDelivery", DnsRoutes.testDelivery, {}, "testBoxes")}
    BY PageTable DEF DomainDetailPage, DnsWizard, DnsRecords, RegistrarAutoConfigure,
       DeliveryTestCard, Both, Shows
  <2> QED
    BY <1>q, <1>b, <2>1 DEF Once, Button, DnsRoutes, Tells, Q
<1>4. \A b \in Page["dkim"].ops : Tells("dkim", b)
  BY <1>q, <1>b, PageTable DEF DomainDetailPage, DkimPanel, Both, Shows, Once, Button, DnsRoutes,
     Tells, Q
<1>5. \A b \in Page["domainSettings"].ops : Tells("domainSettings", b)
  <2>1. Page["domainSettings"].ops =
          {Once("saveDomain", DomainRoutes.saveDomain, OfDomains, "domain"),
           Once("suspendDomain", DomainRoutes.suspendDomain, OfDomains, "domain"),
           Button("deleteDomain", DomainRoutes.deleteDomain, {}, "domain", TRUE, "domains")}
    BY PageTable DEF DomainDetailPage, DomainSettings, Both, Shows
  <2>2. "domains" \in Place /\ "domains" # "here"
    BY DEF Place, Entry
  <2> QED
    BY <1>q, <1>b, <2>1, <2>2 DEF Once, Button, DomainRoutes, OfDomains, OfDomain, Tells, Q
<1>6. \A b \in Page["pick"].ops : Tells("pick", b)
  BY PageTable DEF DomainSelect, Shows
<1>7. \A b \in Page["mailboxes"].ops : Tells("mailboxes", b)
  <2>1. Page["mailboxes"].ops = RowActions \cup CreateMailboxDialog \cup ImportDialog
    BY PageTable DEF MailboxesPage, MailboxTab, DomainSelect, Both, Shows
  <2> QED
    BY <1>q, <1>b, <2>1 DEF RowActions, CreateMailboxDialog, ImportDialog, Once, Often, Button,
       MailboxRoutes, Tells, Q
<1>8. \A b \in Page["aliases"].ops : Tells("aliases", b)
  BY <1>q, <1>b, PageTable DEF MailboxesPage, DomainSelect, AliasTab, Both, Shows, Once, Often,
     Button, AliasRoutes, Tells, Q
<1>9. \A b \in Page["forwarders"].ops : Tells("forwarders", b)
  BY <1>q, <1>b, PageTable DEF MailboxesPage, DomainSelect, ForwarderTab, Both, Shows, Once, Often,
     Button, AliasRoutes, Tells, Q
<1>10. \A b \in Page["customers"].ops : Tells("customers", b)
  BY <1>q, <1>b, PageTable DEF CustomerList, CreateTenantDialog, Both, Shows, Once, Often, Button,
     TenancyRoutes, Tells, Q
<1>11. \A b \in Page["resellers"].ops : Tells("resellers", b)
  BY <1>q, <1>b, PageTable DEF ResellerList, CreateTenantDialog, Both, Shows, Once, Button,
     TenancyRoutes, Tells, Q
<1>12. \A b \in Page["nodes"].ops : Tells("nodes", b)
  BY <1>q, <1>b, PageTable DEF NodesPage, NodeCard, RegisterNodeDialog, Shows, Once, Button,
     OpsRoutes, Tells, Q
<1>13. \A b \in Page["queue"].ops : Tells("queue", b)
  BY <1>q, <1>b, PageTable DEF QueuePage, Shows, Once, Often, Button, OpsRoutes, Tells, Q
<1>14. \A b \in Page["logs"].ops : Tells("logs", b)
  BY PageTable DEF LogsPage, Shows
<1>15. \A b \in Page["spam"].ops : Tells("spam", b)
  <2>1. Page["spam"].ops =
          {Once("saveThresholds", OpsRoutes.saveThresholds, {"thresholds"}, "none"),
           Once("createRule", OpsRoutes.createRule, {"accessRules"}, "none"),
           Often("deleteRule", OpsRoutes.deleteRule, {"accessRules"}, "accessRules")}
    BY PageTable DEF SpamPage, ThresholdsCard, ScoreCard, AccessRulesCard, Both, Shows
  <2> QED
    BY <1>q, <1>b, <2>1 DEF Once, Often, Button, OpsRoutes, Tells, Q
<1>16. \A b \in Page["settings"].ops : Tells("settings", b)
  <2>1. Page["settings"].ops =
          {Once("createToken", TenancyRoutes.createToken, {"tokens"}, "none"),
           Often("revokeToken", TenancyRoutes.revokeToken, {"tokens"}, "tokens"),
           Once("saveAlerts", TenancyRoutes.saveAlerts, {"alerts"}, "none"),
           Once("saveNamecheap", SettingsRoutes.saveNamecheap, {"namecheap"}, "none"),
           Once("testNamecheap", SettingsRoutes.testNamecheap, {}, "namecheap")}
    BY PageTable DEF SettingsPage, ApiTokensCard, EmailAlertsCard, RegistrarCard, Both, Shows
  <2> QED
    BY <1>q, <1>b, <2>1 DEF Once, Often, Button, TenancyRoutes, SettingsRoutes, Tells, Q
<1> QED
  <2> TAKE p \in Place
  <2> QED
    BY PlaceCases, <1>1, <1>2, <1>3, <1>4, <1>5, <1>6, <1>7, <1>8, <1>9, <1>10, <1>11, <1>12, <1>13,
       <1>14, <1>15, <1>16


-----------------------------------------------------------------------------
(* The steps.                                                              *)

LEMMA MountedQueries == \A p \in Place : \A d : Mounted(p, d) \subseteq Query
<1> "domain" \in Query
  BY DEF Query, DomainQueries
<1> QED
  BY ReadsQueries DEF Mounted

\* Away from the tabs of a domain, or with its row as it was, the same is on screen.
LEMMA SameScreen ==
  ASSUME NEW d, d["domain"] = "none" <=> data["domain"] = "none"
  PROVE  Mounted(place, d) = OnScreen
BY DEF OnScreen, Mounted

LEMMA MountAsks ==
  ASSUME NEW f \in [Query -> {"no", "now", "before"}], NEW was, NEW is, NEW aged
  PROVE  /\ Mount(was, is, aged, f) \in [Query -> {"no", "now", "before"}]
         /\ \A r \in Query :
              /\ Mount(was, is, aged, f)[r] = "before" => f[r] = "before"
              /\ f[r] # "no" => Mount(was, is, aged, f)[r] = f[r]
              /\ r \in is \ was /\ r \in stale => Mount(was, is, aged, f)[r] # "no"
BY DEF Mount

\* What a request under way is made of.
LEMMA RequestFields ==
  ASSUME PagesTyped, NEW s \in Sending, Underway(s)
  PROVE  /\ sent[s] \in [at : {"asked", "served"}, button : UNION {Page[p].ops : p \in Place},
                         page : Place, since : Nat]
         /\ Tells(sent[s].page, sent[s].button)
<1>1. sent[s] \in [at : {"asked", "served"}, button : UNION {Page[p].ops : p \in Place},
                  page : Place, since : Nat]
  BY DEF PagesTyped, Underway
<1>2. sent[s].page \in Place /\ sent[s].button \in Page[sent[s].page].ops
  BY DEF PagesTyped, RequestsTyped
<1> QED
  BY <1>1, <1>2, ButtonsTell

LEMMA SentAt ==
  ASSUME NEW s, sent[s].at \in {"asked", "served"}
  PROVE  Underway(s)
BY DEF Underway, Nothing

\* With one request ended, the others tell as before.
LEMMA OthersTell ==
  ASSUME PagesTyped, NEW s \in Sending, sent' = [sent EXCEPT ![s] = Nothing], NEW q, Teller(q)
  PROVE  Teller(q)' \/ (sent[s].at = "served" /\ q \in sent[s].button.tells \cap sent[s].button.does)
<1>1. PICK t \in Sending : sent[t].at = "served" /\ q \in sent[t].button.tells \cap sent[t].button.does
  BY DEF Teller
<1>2. t # s => sent'[t] = sent[t]
  BY DEF PagesTyped
<1> QED
  BY <1>1, <1>2 DEF Teller

\* An ended request leaves the others typed.
LEMMA EndTyped ==
  ASSUME PagesTyped, NEW s \in Sending, sent' = [sent EXCEPT ![s] = Nothing]
  PROVE  /\ sent' \in [Sending -> {Nothing} \cup
                 [at : {"asked", "served"}, button : UNION {Page[p].ops : p \in Place},
                  page : Place, since : Nat]]
         /\ RequestsTyped'
<1> DEFINE R == [at : {"asked", "served"}, button : UNION {Page[p].ops : p \in Place},
                 page : Place, since : Nat]
<1>1. sent \in [Sending -> {Nothing} \cup R]
  BY DEF PagesTyped
<1> HIDE DEF R
<1>2. sent' \in [Sending -> {Nothing} \cup R]
  BY <1>1
<1>3. \A t \in Sending : t # s => sent'[t] = sent[t]
  BY <1>1
<1>4. sent'[s] = Nothing
  BY <1>1
<1>5. RequestsTyped'
  BY <1>3, <1>4 DEF PagesTyped, RequestsTyped, Underway
<1> QED
  BY <1>2, <1>5 DEF R

LEMMA PagesInitInv == PagesInit => PagesInv
<1> SUFFICES ASSUME PagesInit PROVE PagesInv
  OBVIOUS
<1>1. place \in Place
  BY DEF PagesInit, Place
<1>2. RequestsTyped
  BY DEF PagesInit, RequestsTyped, Underway
<1>3. PagesTyped
  BY <1>1, <1>2 DEF PagesInit, PagesTyped
<1>4. ComingTold /\ HeldTold /\ StaleAsked
  BY DEF PagesInit, ComingTold, HeldTold, StaleAsked
<1> QED
  BY <1>3, <1>4 DEF PagesInv

LEMMA PagesArrive ==
  ASSUME PagesInv, NEW q \in Query, NEW d \in {"now", "before"}, NEW aged, Arrive(q, d, aged)
  PROVE  PagesInv'
<1> DEFINE f == [fetch EXCEPT ![q] = "no"]
           M == Mount(OnScreen, Mounted(place, data'), aged, f)
<1>1. fetch[q] # "no" /\ d \in {"now", fetch[q]} /\ data' = [data EXCEPT ![q] = d] /\ fetch' = M
      /\ stale' = stale \ {q} /\ failed' = failed \ {q}
      /\ untold' = (IF d = "now" THEN untold \ {q} ELSE untold)
      /\ UNCHANGED <<place, sent, opens, presses, missing>>
  BY DEF Arrive
<1>2. /\ place \in Place /\ data \in [Query -> {"none", "now", "before"}]
      /\ fetch \in [Query -> {"no", "now", "before"}]
  BY DEF PagesInv, PagesTyped
<1>3. f \in [Query -> {"no", "now", "before"}] /\ f[q] = "no" /\ \A r \in Query \ {q} : f[r] = fetch[r]
  BY <1>2
<1> HIDE DEF f
<1>4. /\ M \in [Query -> {"no", "now", "before"}]
      /\ \A r \in Query :
           /\ M[r] = "before" => f[r] = "before"
           /\ f[r] # "no" => M[r] = f[r]
           /\ r \in Mounted(place, data') \ OnScreen /\ r \in stale => M[r] # "no"
  BY <1>3, MountAsks
<1> HIDE DEF M
<1>5. PagesTyped'
  BY <1>1, <1>2, <1>4 DEF PagesInv, PagesTyped, RequestsTyped, Underway
<1>6. \A r : Teller(r)' <=> Teller(r)
  BY <1>1 DEF Teller
<1>7. ComingTold'
  BY <1>1, <1>3, <1>4, <1>6 DEF PagesInv, ComingTold
<1>8. HeldTold'
  <2>1. \A r \in Query \ {q} : data'[r] = data[r]
    BY <1>1, <1>2
  <2>2. data'[q] = d
    BY <1>1, <1>2
  <2>3. d = "before" => fetch[q] = "before" /\ untold' = untold
    BY <1>1
  <2> QED
    BY <1>1, <1>6, <2>1, <2>2, <2>3 DEF PagesInv, HeldTold, ComingTold
<1>9. StaleAsked'
  <2> SUFFICES ASSUME NEW r \in OnScreen', r \in stale' PROVE fetch'[r] # "no" \/ r \in failed'
    BY DEF StaleAsked
  <2>1. OnScreen' = Mounted(place, data')
    BY <1>1 DEF OnScreen
  <2>2. r \in Query /\ r # q /\ r \in stale
    BY <1>1, <1>2, <2>1, MountedQueries
  <2>3. CASE r \in OnScreen
    BY <1>1, <1>3, <1>4, <2>2, <2>3 DEF PagesInv, StaleAsked
  <2>4. CASE r \notin OnScreen
    BY <1>1, <1>4, <2>1, <2>2, <2>4
  <2> QED
    BY <2>3, <2>4
<1> QED
  BY <1>5, <1>7, <1>8, <1>9 DEF PagesInv

\* The fetch of a query fails, one that is polled or whose connection is back is
\* fetched again, one is forgotten, and what the panel is not told of changes.
LEMMA PagesAlone ==
  ASSUME PagesInv, NEW q \in Query, FetchFails(q) \/ Interval(q) \/ Reconnect(q) \/ Forget(q) \/ Outside(q)
  PROVE  PagesInv'
<1>1. /\ place \in Place /\ data \in [Query -> {"none", "now", "before"}]
      /\ fetch \in [Query -> {"no", "now", "before"}]
      /\ OnScreen \subseteq Query
  BY MountedQueries DEF PagesInv, PagesTyped, OnScreen
<1>2. UNCHANGED <<place, sent, opens>>
  BY DEF FetchFails, Interval, Reconnect, Forget, Outside
<1>3. \A r : Teller(r)' <=> Teller(r)
  BY <1>2 DEF Teller
<1>4. RequestsTyped'
  BY <1>2 DEF PagesInv, PagesTyped, RequestsTyped, Underway
<1>5. OnScreen' = Mounted(place, data')
  BY <1>2 DEF OnScreen
<1>6. CASE FetchFails(q)
  <2>1. PagesTyped'
    BY <1>1, <1>2, <1>4, <1>6 DEF FetchFails, PagesInv, PagesTyped
  <2>2. OnScreen' = OnScreen
    BY <1>5, <1>6, SameScreen DEF FetchFails
  <2>3. ComingTold' /\ HeldTold'
    BY <1>1, <1>3, <1>6 DEF FetchFails, PagesInv, ComingTold, HeldTold
  <2>4. StaleAsked'
    BY <1>1, <1>6, <2>2 DEF FetchFails, PagesInv, StaleAsked
  <2> QED
    BY <2>1, <2>3, <2>4 DEF PagesInv
<1>7. CASE Interval(q) \/ Reconnect(q)
  <2>1. PagesTyped'
    BY <1>1, <1>2, <1>4, <1>7 DEF Interval, Reconnect, PagesInv, PagesTyped
  <2>2. OnScreen' = OnScreen
    BY <1>5, <1>7, SameScreen DEF Interval, Reconnect
  <2>3. ComingTold' /\ HeldTold'
    BY <1>1, <1>3, <1>7 DEF Interval, Reconnect, PagesInv, ComingTold, HeldTold
  <2>4. StaleAsked'
    BY <1>1, <1>7, <2>2 DEF Interval, Reconnect, PagesInv, StaleAsked
  <2> QED
    BY <2>1, <2>3, <2>4 DEF PagesInv
<1>8. CASE Forget(q)
  <2>1. PagesTyped'
    BY <1>1, <1>2, <1>4, <1>8 DEF Forget, PagesInv, PagesTyped
  <2>2. OnScreen' = OnScreen
    <3>1. \A r \in Query \ {q} : data'[r] = data[r]
      BY <1>1, <1>8 DEF Forget
    <3>2. "domain" \in Query
      BY DEF Query, DomainQueries
    <3>3. place \in DomainTabs => "domain" \in OnScreen
      BY ReadsTable DEF DomainTabs, OnScreen, Mounted
    <3>4. CASE place \in DomainTabs
      <4>1. data'["domain"] = data["domain"]
        BY <1>8, <3>1, <3>2, <3>3, <3>4 DEF Forget
      <4> QED
        BY <1>5, <4>1, SameScreen
    <3>5. CASE place \notin DomainTabs
      BY <1>5, <3>5 DEF OnScreen, Mounted
    <3> QED
      BY <3>4, <3>5
  <2>3. ComingTold' /\ HeldTold'
    BY <1>1, <1>3, <1>8 DEF Forget, PagesInv, ComingTold, HeldTold
  <2>4. StaleAsked'
    BY <1>1, <1>8, <2>2 DEF Forget, PagesInv, StaleAsked
  <2> QED
    BY <2>1, <2>3, <2>4 DEF PagesInv
<1>9. CASE Outside(q)
  <2>1. /\ data' = Past(data, {q}) /\ fetch' = Past(fetch, {q})
        /\ untold' = untold \cup {q} /\ stale' = stale /\ failed' = failed
    BY <1>9 DEF Outside
  <2>2. /\ data' \in [Query -> {"none", "now", "before"}]
        /\ fetch' \in [Query -> {"no", "now", "before"}]
        /\ \A r \in Query : r # q => data'[r] = data[r] /\ fetch'[r] = fetch[r]
        /\ \A r \in Query : (data'[r] = "none" <=> data[r] = "none")
                            /\ (fetch'[r] = "no" <=> fetch[r] = "no")
    BY <1>1, <2>1 DEF Past
  <2>3. PagesTyped'
    BY <1>1, <1>2, <1>4, <2>2 DEF PagesInv, PagesTyped
  <2>4. OnScreen' = OnScreen
    <3>1. "domain" \in Query
      BY DEF Query, DomainQueries
    <3> QED
      BY <1>5, <2>2, <3>1, SameScreen
  <2>5. ComingTold' /\ HeldTold'
    BY <1>3, <2>1, <2>2 DEF PagesInv, ComingTold, HeldTold
  <2>6. StaleAsked'
    BY <1>1, <2>1, <2>2, <2>4 DEF PagesInv, StaleAsked
  <2> QED
    BY <2>3, <2>5, <2>6 DEF PagesInv
<1> QED
  BY <1>6, <1>7, <1>8, <1>9

LEMMA PagesPush ==
  ASSUME PagesInv, NEW d \in {"now", "before"}, PushStats(d)
  PROVE  PagesInv'
<1>1. /\ place = "dashboard" /\ data' = [data EXCEPT !["dashboard"] = d]
      /\ stale' = stale \ {"dashboard"} /\ failed' = failed \ {"dashboard"}
      /\ untold' = (IF d = "now" /\ fetch["dashboard"] # "before" THEN untold \ {"dashboard"}
                    ELSE untold \cup {"dashboard"})
      /\ UNCHANGED <<place, fetch, sent, opens>>
  BY DEF PushStats
<1>2. /\ place \in Place /\ data \in [Query -> {"none", "now", "before"}]
      /\ fetch \in [Query -> {"no", "now", "before"}] /\ "dashboard" \in Query
  BY DEF PagesInv, PagesTyped, Query, DashboardQueries
<1>3. PagesTyped'
  BY <1>1, <1>2 DEF PagesInv, PagesTyped, RequestsTyped, Underway
<1>4. OnScreen' = OnScreen
  BY <1>1 DEF OnScreen, Mounted, DomainTabs
<1>5. \A r : Teller(r)' <=> Teller(r)
  BY <1>1 DEF Teller
<1>6. ComingTold' /\ HeldTold'
  BY <1>1, <1>2, <1>5 DEF PagesInv, ComingTold, HeldTold
<1>7. StaleAsked'
  BY <1>1, <1>4 DEF PagesInv, StaleAsked
<1> QED
  BY <1>3, <1>6, <1>7 DEF PagesInv

\* Going to another place asks for what is stale there.
LEMMA GoAsks ==
  ASSUME PagesInv, NEW p \in Place, NEW aged, place' = p,
         fetch' = Mount(OnScreen, Mounted(p, data), aged, fetch),
         UNCHANGED <<data, stale, failed, untold>>
  PROVE  /\ fetch' \in [Query -> {"no", "now", "before"}]
         /\ \A r \in Query : fetch'[r] = "before" => fetch[r] = "before"
         /\ StaleAsked'
<1>1. fetch \in [Query -> {"no", "now", "before"}]
  BY DEF PagesInv, PagesTyped
<1>2. /\ fetch' \in [Query -> {"no", "now", "before"}]
      /\ \A r \in Query :
           /\ fetch'[r] = "before" => fetch[r] = "before"
           /\ fetch[r] # "no" => fetch'[r] = fetch[r]
           /\ r \in Mounted(p, data) \ OnScreen /\ r \in stale => fetch'[r] # "no"
  BY <1>1, MountAsks
<1>3. OnScreen' = Mounted(p, data)
  BY DEF OnScreen
<1>4. Mounted(p, data) \subseteq Query
  BY MountedQueries
<1>5. StaleAsked'
  BY <1>2, <1>3, <1>4 DEF PagesInv, StaleAsked
<1> QED
  BY <1>2, <1>5

LEMMA PagesOpen ==
  ASSUME PagesInv, NEW p \in Place, NEW aged, Open(p, aged)
  PROVE  PagesInv'
<1>1. /\ place' = p /\ fetch' = Mount(OnScreen, Mounted(p, data), aged, fetch)
      /\ opens' = opens + 1 /\ UNCHANGED <<data, stale, failed, sent, untold>>
  BY DEF Open
<1>2. /\ fetch' \in [Query -> {"no", "now", "before"}]
      /\ \A r \in Query : fetch'[r] = "before" => fetch[r] = "before"
      /\ StaleAsked'
  BY <1>1, GoAsks
<1>3. PagesTyped'
  BY <1>1, <1>2 DEF PagesInv, PagesTyped, RequestsTyped, Underway
<1>4. \A r : Teller(r)' <=> Teller(r)
  BY <1>1 DEF Teller
<1>5. ComingTold' /\ HeldTold'
  BY <1>1, <1>2, <1>4 DEF PagesInv, ComingTold, HeldTold
<1> QED
  BY <1>2, <1>3, <1>5 DEF PagesInv

LEMMA PagesPress ==
  ASSUME PagesInv, NEW s \in Sending, NEW b \in Page[place].ops, Press(s, b)
  PROVE  PagesInv'
<1> DEFINE R == [at : {"asked", "served"}, button : UNION {Page[p].ops : p \in Place},
                 page : Place, since : Nat]
           r == [at |-> "asked", button |-> b, page |-> place, since |-> opens]
<1>1. /\ sent[s] = Nothing /\ sent' = [sent EXCEPT ![s] = r]
      /\ UNCHANGED <<place, data, fetch, stale, failed, untold, opens, missing>>
  BY DEF Press, Underway
<1>2. place \in Place /\ opens \in Nat /\ sent \in [Sending -> {Nothing} \cup R]
  BY DEF PagesInv, PagesTyped
<1>3. r \in R /\ r.at = "asked" /\ r.page = place /\ r.button = b
  BY <1>2
<1> HIDE DEF R, r
<1>4. sent' \in [Sending -> {Nothing} \cup R] /\ sent'[s] = r
      /\ \A t \in Sending : t # s => sent'[t] = sent[t]
  BY <1>1, <1>2, <1>3
<1>5. RequestsTyped'
  BY <1>1, <1>2, <1>3, <1>4 DEF PagesInv, PagesTyped, RequestsTyped, Underway
<1>6. PagesTyped'
  BY <1>1, <1>4, <1>5 DEF PagesInv, PagesTyped, R
<1>7. \A q : Teller(q) => Teller(q)'
  <2>1. sent[s].at # "served"
    BY <1>1 DEF Nothing
  <2> QED
    BY <1>4, <2>1 DEF Teller
<1>8. ComingTold' /\ HeldTold'
  BY <1>1, <1>7 DEF PagesInv, ComingTold, HeldTold
<1>9. StaleAsked'
  BY <1>1 DEF PagesInv, StaleAsked, OnScreen
<1> QED
  BY <1>6, <1>8, <1>9 DEF PagesInv

LEMMA PagesServe ==
  ASSUME PagesInv, NEW s \in Sending, Serve(s)
  PROVE  PagesInv'
<1> DEFINE b == sent[s].button
           R == [at : {"asked", "served"}, button : UNION {Page[p].ops : p \in Place},
                 page : Place, since : Nat]
<1>1. /\ sent[s].at = "asked" /\ sent' = [sent EXCEPT ![s].at = "served"]
      /\ data' = Past(data, b.does) /\ fetch' = Past(fetch, b.does)
      /\ untold' = untold \cup
           Known(IF b.to = "here" THEN b.does \ Beside[sent[s].page] ELSE b.does)
      /\ UNCHANGED <<place, stale, failed, opens, presses, missing>>
  BY DEF Serve
<1>2. /\ data \in [Query -> {"none", "now", "before"}]
      /\ fetch \in [Query -> {"no", "now", "before"}] /\ sent \in [Sending -> {Nothing} \cup R]
      /\ OnScreen \subseteq Query
  BY MountedQueries DEF PagesInv, PagesTyped, OnScreen
<1>3. sent[s] \in R /\ Tells(sent[s].page, b)
  BY <1>1, SentAt, RequestFields DEF PagesInv
<1>4. /\ sent'[s] \in R /\ sent'[s].at = "served" /\ sent'[s].button = b
      /\ sent'[s].page = sent[s].page
      /\ \A t \in Sending : t # s => sent'[t] = sent[t]
  BY <1>1, <1>2, <1>3
<1>5. sent' \in [Sending -> {Nothing} \cup R]
  <2> HIDE DEF R
  <2> QED
    BY <1>1, <1>2, <1>4
<1>6. /\ data' \in [Query -> {"none", "now", "before"}]
      /\ fetch' \in [Query -> {"no", "now", "before"}]
      /\ \A r \in Query : r \notin b.does => data'[r] = data[r] /\ fetch'[r] = fetch[r]
      /\ \A r \in Query : (data'[r] = "none" <=> data[r] = "none")
                          /\ (fetch'[r] = "no" <=> fetch[r] = "no")
  BY <1>1, <1>2 DEF Past
<1>7. RequestsTyped'
  BY <1>1, <1>4, SentAt DEF PagesInv, PagesTyped, RequestsTyped, Underway
<1>8. PagesTyped'
  BY <1>1, <1>5, <1>6, <1>7 DEF PagesInv, PagesTyped, R
<1> HIDE DEF R
<1>9. \A q : Teller(q) => Teller(q)'
  BY <1>1, <1>4 DEF Teller
<1>10. \A q \in Query : q \in b.does /\ (data'[q] = "before" \/ fetch'[q] = "before")
                       => q \in untold' \/ Teller(q)'
  <2> SUFFICES ASSUME NEW q \in Query, q \in b.does, data'[q] = "before" \/ fetch'[q] = "before"
               PROVE  q \in untold' \/ Teller(q)'
    OBVIOUS
  <2>1. CASE q \in b.tells
    BY <1>4, <2>1 DEF Teller
  <2>2. CASE q \notin b.tells
    <3>1. data[q] # "none" \/ fetch[q] # "no"
      BY <1>6
    <3>2. b.to = "here" => q \notin Beside[sent[s].page]
      BY <1>3, <2>2 DEF Tells
    <3> QED
      BY <1>1, <3>1, <3>2 DEF Known
  <2> QED
    BY <2>1, <2>2
<1> HIDE DEF b
<1>11. untold \subseteq untold' /\ stale' = stale /\ failed' = failed
  BY <1>1
<1>12. ComingTold' /\ HeldTold'
  BY <1>6, <1>9, <1>10, <1>11 DEF PagesInv, ComingTold, HeldTold
<1>13. StaleAsked'
  <2>1. "domain" \in Query
    BY DEF Query, DomainQueries
  <2>2. OnScreen' = OnScreen
    BY <1>1, <1>6, <2>1, SameScreen DEF OnScreen
  <2> QED
    BY <1>2, <1>6, <1>11, <2>2 DEF PagesInv, StaleAsked
<1> QED
  BY <1>8, <1>12, <1>13 DEF PagesInv

\* A request that is refused, or whose answer is lost.
LEMMA PagesEnd ==
  ASSUME PagesInv, NEW s \in Sending, Refuse(s) \/ LoseAnswer(s)
  PROVE  PagesInv'
<1>1. /\ sent' = [sent EXCEPT ![s] = Nothing]
      /\ UNCHANGED <<place, data, fetch, stale, failed, opens>>
  BY DEF Refuse, LoseAnswer
<1>2. PagesTyped'
  BY <1>1, EndTyped DEF PagesInv, PagesTyped
<1>3. StaleAsked'
  BY <1>1 DEF PagesInv, StaleAsked, OnScreen
<1>4. \A q : Teller(q) => Teller(q)' \/ (sent[s].at = "served" /\ q \in sent[s].button.does)
  BY <1>1, OthersTell DEF PagesInv
<1>5. CASE Refuse(s)
  <2>1. ComingTold' /\ HeldTold'
    BY <1>1, <1>4, <1>5 DEF Refuse, PagesInv, ComingTold, HeldTold
  <2> QED
    BY <1>2, <1>3, <2>1 DEF PagesInv
<1>6. CASE LoseAnswer(s)
  <2>1. untold' = untold \cup Known(sent[s].button.does)
    BY <1>6 DEF LoseAnswer
  <2>2. ComingTold'
    BY <1>1, <1>4, <2>1 DEF Known, PagesInv, ComingTold
  <2>3. HeldTold'
    BY <1>1, <1>4, <2>1 DEF Known, PagesInv, HeldTold
  <2> QED
    BY <1>2, <1>3, <2>2, <2>3 DEF PagesInv
<1> QED
  BY <1>5, <1>6

\* What is told of is stale; on screen, it is on its way.
LEMMA ToldAsks ==
  ASSUME PagesInv, NEW qs, Told(qs), UNCHANGED <<place, data, failed>>
  PROVE  /\ fetch' \in [Query -> {"no", "now", "before"}]
         /\ stale' = stale \cup qs /\ untold \subseteq untold'
         /\ \A q \in Query : fetch'[q] = "before" =>
              fetch[q] = "before" /\ (q \in qs => q \in untold')
         /\ StaleAsked'
<1> DEFINE first == {q \in qs : data[q] = "none" /\ fetch[q] # "no"}
           again == (qs \cap OnScreen) \ first
<1>1. /\ stale' = stale \cup qs
      /\ fetch' = [q \in Query |-> IF q \in again THEN "now" ELSE fetch[q]]
      /\ untold' = untold \cup {q \in qs \ again : fetch[q] = "before"}
  BY DEF Told
<1>2. \A q : q \in again => q \in qs
  OBVIOUS
<1>3. \A q : q \in qs /\ q \in OnScreen => q \in again \/ fetch[q] # "no"
  OBVIOUS
<1> HIDE DEF again
<1>4. fetch \in [Query -> {"no", "now", "before"}] /\ OnScreen \subseteq Query /\ OnScreen' = OnScreen
  BY MountedQueries DEF PagesInv, PagesTyped, OnScreen
<1>5. StaleAsked'
  BY <1>1, <1>3, <1>4 DEF PagesInv, StaleAsked
<1> QED
  BY <1>1, <1>2, <1>4, <1>5

LEMMA PagesSucceed ==
  ASSUME PagesInv, NEW s \in Sending, Succeed(s)
  PROVE  PagesInv'
<1>1. /\ sent' = [sent EXCEPT ![s] = Nothing] /\ Told(sent[s].button.tells)
      /\ UNCHANGED <<place, data, failed, opens>>
  BY DEF Succeed
<1>2. /\ fetch' \in [Query -> {"no", "now", "before"}]
      /\ stale' = stale \cup sent[s].button.tells /\ untold \subseteq untold'
      /\ \A q \in Query : fetch'[q] = "before" =>
           fetch[q] = "before" /\ (q \in sent[s].button.tells => q \in untold')
      /\ StaleAsked'
  BY <1>1, ToldAsks
<1>3. PagesTyped'
  BY <1>1, <1>2, EndTyped DEF PagesInv, PagesTyped
<1>4. \A q : Teller(q) => Teller(q)' \/ q \in sent[s].button.tells
  BY <1>1, OthersTell DEF PagesInv
<1>5. ComingTold' /\ HeldTold'
  BY <1>1, <1>2, <1>4 DEF PagesInv, ComingTold, HeldTold
<1> QED
  BY <1>2, <1>3, <1>5 DEF PagesInv

LEMMA PagesLeave ==
  ASSUME PagesInv, NEW s \in Sending, NEW aged, Leave(s, aged)
  PROVE  PagesInv'
<1> DEFINE p == sent[s].button.to
<1>1. /\ sent[s].at = "served" /\ p # "here" /\ sent' = [sent EXCEPT ![s] = Nothing]
      /\ opens' = opens + 1 /\ place' = p
      /\ fetch' = Mount(OnScreen, Mounted(p, data), aged, fetch)
      /\ UNCHANGED <<data, stale, failed, untold>>
  BY DEF Leave
<1>2. p \in Place /\ sent[s].button.tells = {}
  BY <1>1, SentAt, RequestFields DEF PagesInv, Tells
<1> HIDE DEF p
<1>3. /\ fetch' \in [Query -> {"no", "now", "before"}]
      /\ \A r \in Query : fetch'[r] = "before" => fetch[r] = "before"
      /\ StaleAsked'
  BY <1>1, <1>2, GoAsks
<1>4. PagesTyped'
  <2>1. PagesTyped /\ opens \in Nat /\ data \in [Query -> {"none", "now", "before"}]
    BY DEF PagesInv, PagesTyped
  <2>2. /\ sent' \in [Sending -> {Nothing} \cup
              [at : {"asked", "served"}, button : UNION {Page[t].ops : t \in Place},
               page : Place, since : Nat]]
        /\ RequestsTyped'
    BY <1>1, <2>1, EndTyped
  <2>3. place' \in Place /\ opens' \in Nat /\ data' \in [Query -> {"none", "now", "before"}]
    BY <1>1, <1>2, <2>1
  <2> QED
    BY <1>3, <2>2, <2>3 DEF PagesTyped
<1>5. \A q : Teller(q) => Teller(q)'
  BY <1>1, <1>2, OthersTell DEF PagesInv
<1>6. ComingTold' /\ HeldTold'
  BY <1>1, <1>3, <1>5 DEF PagesInv, ComingTold, HeldTold
<1> QED
  BY <1>3, <1>4, <1>6 DEF PagesInv

LEMMA PagesRefresh ==
  ASSUME PagesInv, Refresh
  PROVE  PagesInv'
<1>1. Told({"queue"}) /\ UNCHANGED <<place, data, failed, sent, opens, presses, missing>>
  BY DEF Refresh
<1>2. /\ fetch' \in [Query -> {"no", "now", "before"}]
      /\ stale' = stale \cup {"queue"} /\ untold \subseteq untold'
      /\ \A q \in Query : fetch'[q] = "before" => fetch[q] = "before"
      /\ StaleAsked'
  BY <1>1, ToldAsks
<1>3. PagesTyped'
  BY <1>1, <1>2 DEF PagesInv, PagesTyped, RequestsTyped, Underway
<1>4. \A q : Teller(q) => Teller(q)'
  BY <1>1 DEF Teller
<1>5. ComingTold' /\ HeldTold'
  BY <1>1, <1>2, <1>4 DEF PagesInv, ComingTold, HeldTold
<1> QED
  BY <1>2, <1>3, <1>5 DEF PagesInv

LEMMA PagesNextInv == PagesInv /\ [PagesNext]_pagesVars => PagesInv'
<1> SUFFICES ASSUME PagesInv, [PagesNext]_pagesVars PROVE PagesInv'
  OBVIOUS
<1>1. CASE UNCHANGED pagesVars
  BY <1>1 DEF pagesVars, PagesInv, PagesTyped, RequestsTyped, ComingTold, HeldTold, StaleAsked,
     Teller, OnScreen, Underway
<1>2. CASE \E q \in Query : \E d \in {"now", "before"} :
             \E aged \in SUBSET (Page[place].reads \ OnScreen) : Arrive(q, d, aged)
  BY <1>2, PagesArrive
<1>3. CASE \E q \in Query : FetchFails(q) \/ Interval(q) \/ Reconnect(q) \/ Forget(q) \/ Outside(q)
  BY <1>3, PagesAlone
<1>4. CASE \E d \in {"now", "before"} : PushStats(d)
  BY <1>4, PagesPush
<1>5. CASE \E p \in Place : \E aged \in SUBSET (Mounted(p, data) \ OnScreen) : Open(p, aged)
  BY <1>5, PagesOpen
<1>6. CASE \E s \in Sending : \E b \in Page[place].ops : Press(s, b)
  BY <1>6, PagesPress
<1>7. CASE \E s \in Sending : Serve(s)
  BY <1>7, PagesServe
<1>8. CASE \E s \in Sending : Refuse(s) \/ LoseAnswer(s)
  BY <1>8, PagesEnd
<1>9. CASE \E s \in Sending : Succeed(s)
  BY <1>9, PagesSucceed
<1>10. CASE \E s \in Sending : \E aged \in SUBSET {"domainList"} : Leave(s, aged)
  BY <1>10, PagesLeave
<1>11. CASE Refresh
  BY <1>11, PagesRefresh
<1> QED
  BY <1>1, <1>2, <1>3, <1>4, <1>5, <1>6, <1>7, <1>8, <1>9, <1>10, <1>11 DEF PagesNext

\* The invariant of the pages: what a fetch or the cache holds from before a
\* change is about to be told of by the request that made it, or asked for again.
THEOREM PagesInvariant == PagesSpec => []PagesInv
BY PagesInitInv, PagesNextInv, PTL DEF PagesSpec

\* The keys each onSuccess names cover what its request changes on its page
\* (ShownIsCurrent).
THEOREM PagesShowCurrent == PagesSpec => []ShownIsCurrent
<1>1. PagesInv => ShownIsCurrent
  <2> SUFFICES ASSUME PagesInv, NEW q \in OnScreen, data[q] = "before", fetch[q] = "no",
                      q \notin failed
               PROVE  q \in untold \/ Teller(q)
    BY DEF ShownIsCurrent, Teller
  <2>1. q \in Query
    BY MountedQueries DEF PagesInv, PagesTyped, OnScreen
  <2> QED
    BY <2>1 DEF PagesInv, HeldTold, StaleAsked
<1> QED
  BY <1>1, PagesInvariant, PTL

=============================================================================
