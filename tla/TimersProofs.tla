---------------------------- MODULE TimersProofs ----------------------------
(***************************************************************************)
(* Proofs about LoginLockout, for any number of overlapping logins, any    *)
(* limit, any window and any number of restarts, and about DomainRecords,  *)
(* for any records of a domain, any sources and any requests.              *)
(***************************************************************************)
EXTENDS LoginLockout, DomainRecords, FiniteSetTheorems, TLAPS

(***************************************************************************)
(* LoginLockout.                                                           *)
(***************************************************************************)

\* Every reachable state is well typed, and a missing key has no life left.
THEOREM TypeCorrect == Spec => []TypeOK
<1>1. Init => TypeOK
  BY DEF Init, TypeOK, NoTtl
<1>2. TypeOK /\ [Next]_vars => TypeOK'
  <2> SUFFICES ASSUME TypeOK, [Next]_vars PROVE TypeOK'
    OBVIOUS
  <2> USE LimitAssumption DEF TypeOK, NoTtl
  <2>1. ASSUME NEW p \in Proc, Gate(p) PROVE TypeOK'
    BY <2>1 DEF Gate
  <2>2. ASSUME NEW p \in Proc, Fail(p) PROVE TypeOK'
    BY <2>2 DEF Fail
  <2>3. ASSUME NEW p \in Proc, Expire(p) PROVE TypeOK'
    BY <2>3 DEF Expire
  <2>4. ASSUME NEW p \in Proc, Succeed(p) PROVE TypeOK'
    BY <2>4 DEF Succeed
  <2>5. CASE Tick
    BY <2>5 DEF Tick
  <2>6. CASE Crash
    BY <2>6 DEF Crash
  <2>7. CASE UNCHANGED vars
    BY <2>7 DEF vars
  <2> QED
    BY <2>1, <2>2, <2>3, <2>4, <2>5, <2>6, <2>7 DEF Next
<1> QED
  BY <1>1, <1>2, PTL DEF Spec

-----------------------------------------------------------------------------
(* The bound.  A login is in flight from the check of the counter to its   *)
(* outcome; the counter and the logins in flight together stay below the   *)
(* limit plus one login each, because nobody enters once the limit is      *)
(* reached; and every password admitted is in flight, or in the counter,   *)
(* or was lost in a restart.                                               *)

Flying == Cardinality(InFlight)

Few == attempts + Flying <= MaxAttempts - 1 + Cardinality(Proc)

Counted == guesses <= attempts + Flying + Cardinality(Proc) * crashes

BInv == TypeOK /\ Few /\ Counted

LEMMA FlyingBound ==
  /\ IsFiniteSet(InFlight) /\ Flying \in Nat
  /\ Cardinality(Proc) \in Nat /\ Flying <= Cardinality(Proc)
<1>1. InFlight \subseteq Proc
  BY DEF InFlight
<1> QED
  BY <1>1, ProcAssumption, FS_Subset, FS_CardinalityType DEF Flying

\* A login that passes the check is one more in flight.
LEMMA Enters ==
  ASSUME TypeOK, NEW p \in Proc, pc[p] = "idle", pc' = [pc EXCEPT ![p] = "compare"]
  PROVE  Flying' = Flying + 1
<1>1. InFlight' = InFlight \union {p} /\ p \notin InFlight
  BY DEF TypeOK, InFlight
<1> QED
  BY <1>1, FlyingBound, FS_AddElement DEF Flying

\* A login that learns its outcome is one less.
LEMMA Leaves ==
  ASSUME TypeOK, NEW p \in Proc, pc[p] = "compare", NEW l, l # "compare",
         pc' = [pc EXCEPT ![p] = l]
  PROVE  Flying' = Flying - 1
<1>1. InFlight' = InFlight \ {p} /\ p \in InFlight
  BY DEF TypeOK, InFlight
<1> QED
  BY <1>1, FlyingBound, FS_RemoveElement DEF Flying

LEMMA InitBInv == Init => BInv
<1> SUFFICES ASSUME Init PROVE BInv
  OBVIOUS
<1>1. TypeOK
  BY DEF Init, TypeOK, NoTtl
<1>2. InFlight = {}
  BY DEF Init, InFlight
<1>3. Flying = 0
  BY <1>2, FS_EmptySet DEF Flying
<1>4. Cardinality(Proc) * 0 = 0
  BY FlyingBound
<1> QED
  BY <1>1, <1>3, <1>4, FlyingBound, LimitAssumption DEF Init, BInv, Few, Counted

LEMMA StepBInv == BInv /\ TypeOK' /\ [Next]_vars => BInv'
<1> SUFFICES ASSUME BInv, TypeOK', [Next]_vars PROVE Few' /\ Counted'
  BY DEF BInv
<1> DEFINE N == Cardinality(Proc)
<1>0. TypeOK /\ Few /\ Counted
  BY DEF BInv
<1>a. N \in Nat /\ Flying \in Nat /\ Flying <= N
  BY FlyingBound
<1>b. Flying' \in Nat /\ Flying' <= N
  <2>1. InFlight' \subseteq Proc
    BY DEF InFlight
  <2> QED
    BY <2>1, ProcAssumption, FS_Subset, FS_CardinalityType DEF Flying
<1>c. /\ attempts \in Nat /\ guesses \in Nat /\ crashes \in Nat
      /\ N * crashes \in Nat /\ MaxAttempts \in Nat
  BY <1>0, <1>a, LimitAssumption DEF TypeOK
<1>1. ASSUME NEW p \in Proc, Gate(p) PROVE Few' /\ Counted'
  <2>1. Flying' = Flying + 1
    BY <1>0, <1>1, Enters DEF Gate
  <2> QED
    BY <1>0, <1>1, <1>a, <1>b, <1>c, <2>1 DEF Gate, Locked, Few, Counted
<1>2. ASSUME NEW p \in Proc, Fail(p) PROVE Few' /\ Counted'
  <2> DEFINE l == IF attempts' = 1 THEN "expire" ELSE "idle"
  <2>0. pc[p] = "compare" /\ pc' = [pc EXCEPT ![p] = l] /\ l # "compare"
    BY <1>2 DEF Fail
  <2> HIDE DEF l
  <2>1. Flying' = Flying - 1
    BY <1>0, <2>0, Leaves
  <2> QED
    BY <1>0, <1>2, <1>a, <1>b, <1>c, <2>1 DEF Fail, Few, Counted
<1>3. ASSUME NEW p \in Proc, Expire(p) PROVE Few' /\ Counted'
  <2>1. InFlight' = InFlight
    BY <1>0, <1>3 DEF Expire, InFlight, TypeOK
  <2> QED
    BY <1>0, <1>3, <2>1 DEF Expire, Few, Counted, Flying
<1>4. ASSUME NEW p \in Proc, Succeed(p) PROVE Few' /\ Counted'
  <2>1. attempts' = 0 /\ guesses' = 0 /\ crashes' = crashes
    BY <1>4 DEF Succeed
  <2>2. 0 + Flying' <= MaxAttempts - 1 + N
    BY <1>a, <1>b, <1>c, LimitAssumption
  <2>3. 0 <= 0 + Flying' + N * crashes
    BY <1>a, <1>b, <1>c
  <2> QED
    BY <2>1, <2>2, <2>3 DEF Few, Counted
<1>5. CASE Tick
  <2>1. InFlight' = InFlight
    BY <1>5 DEF Tick, InFlight
  <2>2. Flying' = Flying
    BY <2>1 DEF Flying
  <2> QED
    BY <1>0, <1>5, <1>a, <1>c, <2>2, LimitAssumption DEF Tick, Few, Counted
<1>6. CASE Crash
  <2>1. InFlight' = {}
    BY <1>6 DEF Crash, InFlight
  <2>2. Flying' = 0
    BY <2>1, FS_EmptySet DEF Flying
  <2>3. N * (crashes + 1) = N * crashes + N
    BY <1>a, <1>c
  <2> QED
    BY <1>0, <1>6, <1>a, <1>c, <2>2, <2>3 DEF Crash, Few, Counted
<1>7. CASE UNCHANGED vars
  <2>1. InFlight' = InFlight
    BY <1>7 DEF vars, InFlight
  <2> QED
    BY <1>0, <1>7, <2>1 DEF vars, Few, Counted, Flying
<1> QED
  BY <1>1, <1>2, <1>3, <1>4, <1>5, <1>6, <1>7 DEF Next

\* The number of passwords that can be tried against one account in a window.
THEOREM GuessesBounded == Spec => []GuessBound
<1>1. TypeOK /\ BInv /\ [Next]_vars /\ TypeOK' => BInv'
  BY StepBInv
<1>2. BInv => GuessBound
  <2> SUFFICES ASSUME BInv PROVE GuessBound
    OBVIOUS
  <2>1. Cardinality(Proc) \in Nat /\ crashes \in Nat /\ Flying \in Nat
        /\ MaxAttempts \in Nat /\ attempts \in Nat /\ guesses \in Nat
    BY FlyingBound, LimitAssumption DEF BInv, TypeOK
  <2>2. /\ Cardinality(Proc) * (crashes + 1) = Cardinality(Proc) * crashes + Cardinality(Proc)
        /\ Cardinality(Proc) * crashes \in Nat
    BY <2>1
  <2> QED
    BY <2>1, <2>2 DEF BInv, Few, Counted, GuessBound
<1> QED
  BY InitBInv, <1>1, <1>2, TypeCorrect, PTL DEF Spec

-----------------------------------------------------------------------------
\* A counter without a life has a creator who is about to set it, as long as
\* the server does not restart.
THEOREM LifeComes == Spec => []LifeIsComing
<1>1. Init => LifeIsComing
  BY DEF Init, LifeIsComing
<1>2. TypeOK /\ LifeIsComing /\ [Next]_vars => LifeIsComing'
  <2> SUFFICES ASSUME TypeOK, LifeIsComing, [Next]_vars,
                      attempts' > 0, ttl' = NoTtl, crashes' = 0
               PROVE  \E p \in Proc : pc'[p] = "expire"
    BY DEF LifeIsComing
  <2>1. ASSUME NEW p \in Proc, Gate(p) PROVE \E q \in Proc : pc'[q] = "expire"
    <3>1. PICK q \in Proc : pc[q] = "expire"
      BY <2>1 DEF Gate, LifeIsComing
    <3>2. pc'[q] = "expire"
      BY <2>1, <3>1 DEF Gate, TypeOK
    <3> QED
      BY <3>2
  <2>2. ASSUME NEW p \in Proc, Fail(p) PROVE \E q \in Proc : pc'[q] = "expire"
    <3>1. CASE attempts = 0
      <4>1. pc'[p] = "expire"
        BY <2>2, <3>1 DEF Fail, TypeOK
      <4> QED
        BY <4>1
    <3>2. CASE attempts # 0
      <4>1. PICK q \in Proc : pc[q] = "expire"
        BY <2>2, <3>2 DEF Fail, LifeIsComing, TypeOK
      <4>2. pc'[q] = "expire"
        BY <2>2, <4>1 DEF Fail, TypeOK
      <4> QED
        BY <4>2
    <3> QED
      BY <3>1, <3>2
  <2>3. ASSUME NEW p \in Proc, Expire(p) PROVE FALSE
    BY <2>3, LimitAssumption DEF Expire, NoTtl, TypeOK
  <2>4. ASSUME NEW p \in Proc, Succeed(p) PROVE FALSE
    BY <2>4 DEF Succeed
  <2>5. ASSUME Tick PROVE FALSE
    <3>1. ttl \in Nat \ {0}
      BY <2>5 DEF Tick, TypeOK, NoTtl
    <3> QED
      BY <2>5, <3>1 DEF Tick, NoTtl
  <2>6. CASE Crash
    BY <2>6 DEF Crash, TypeOK
  <2>7. CASE UNCHANGED vars
    BY <2>7 DEF vars, LifeIsComing
  <2> QED
    BY <2>1, <2>2, <2>3, <2>4, <2>5, <2>6, <2>7 DEF Next
<1> QED
  BY <1>1, <1>2, TypeCorrect, PTL DEF Spec

-----------------------------------------------------------------------------
(***************************************************************************)
(* DomainRecords.                                                          *)
(***************************************************************************)

\* A PATCH between two steps, and a creation.
Patches ==
  {NoPatch} \union [phase : {"find"}, source : Source]
            \union [phase : {"sync"}, source : Source, mx : SUBSET Rows]
Creations ==
  [phase : {"no", "done", "cut"}] \union [phase : {"row"}, source : Source]

LastMx == {MxRow(mxMade)}

\* The rows that fit the domain, when no two changes have overlapped: at most one
\* is under way, and it knows the row there is.
RowsKnown ==
  /\ MxPresent \in {{}, LastMx}
  /\ creating.phase = "row" =>
       creating.source = source /\ MxPresent = {} /\ \A p \in Patcher : patch[p] = NoPatch
  /\ \A p, q \in Patcher : patch[p] # NoPatch /\ patch[q] # NoPatch => p = q
  /\ \A p \in Patcher : patch[p] # NoPatch =>
       /\ patch[p].source = source
       /\ patch[p].phase = "sync" => patch[p].mx = MxPresent
  /\ ~Changing("nobody") /\ ~torn => MxPresent = IF source = "vps_hosted" THEN LastMx ELSE {}

DomainInv ==
  /\ DomainType
  /\ patch \in [Patcher -> Patches] /\ creating \in Creations
  /\ crossed \in BOOLEAN /\ torn \in BOOLEAN
  /\ creating.phase = "no" <=> source = "none"
  /\ source = "none" => Present = {} /\ \A p \in Patcher : patch[p] = NoPatch
  /\ Exists /\ ~crossed => RowsKnown

LEMMA Mx ==
  /\ "MX" \notin Tracked /\ MaxMx \in Nat \ {0}
  /\ \A row \in Rows : KindOf(row) = "MX" <=> row \in {"MX"} \X (1 .. MaxMx)
  /\ \A n \in 1 .. MaxMx : MxRow(n) \in Rows /\ KindOf(MxRow(n)) = "MX"
  BY DomainRecordsAssumption DEF Rows, KindOf, MxRow

LEMMA VerdictIsStatus ==
  ASSUME NEW kind, NEW z
  PROVE  Verdict(kind, z) \in Status
<1> DEFINE found == Cardinality(Answers(z, kind))
<1> HIDE DEF found
<1>1. (CASE found = 0                               -> "missing"
         [] found > 1 /\ kind \in {"SPF", "DMARC"}  -> "incorrect"
         [] kind = "DMARC" \/ Ours(z, kind)         -> "valid"
         [] OTHER                                   -> "incorrect") \in Status
  BY DEF Status
<1> QED
  BY <1>1 DEF Verdict, found

LEMMA NoPatchShape ==
  /\ NoPatch.phase = "rest"
  /\ \A x \in Patches : x # NoPatch <=> x.phase \in {"find", "sync"}
  /\ \A x \in Patches : x # NoPatch => x.source \in Source
  /\ \A x \in Patches : x.phase = "sync" => x.mx \in SUBSET Rows
  BY DEF NoPatch, Patches

LEMMA DomainFirst == DomainInit => DomainInv
<1> SUFFICES ASSUME DomainInit PROVE DomainInv
  OBVIOUS
<1>1. NoCheck \in Check
  BY DEF NoCheck, Check
<1>2. DomainType
  BY <1>1, DomainRecordsAssumption DEF DomainInit, DomainType
<1>3. Present = {}
  BY DEF DomainInit, Present
<1>4. creating \in Creations /\ patch \in [Patcher -> Patches]
  BY DEF DomainInit, Creations, Patches
<1>5. ~Exists /\ source = "none" /\ crossed = FALSE /\ torn = FALSE /\ creating.phase = "no"
  BY DEF DomainInit, Exists, Source
<1> QED
  BY <1>2, <1>3, <1>4, <1>5 DEF DomainInv, DomainInit

\* A step that changes neither the rows nor what changes them.
LEMMA RowsStay ==
  ASSUME DomainInv, DomainType', UNCHANGED <<source, mxMade, creating, patch, crossed, torn>>, Present' = Present
  PROVE  DomainInv'
<1>1. MxPresent' = MxPresent /\ LastMx' = LastMx /\ Exists' = Exists /\ Changing("nobody")' = Changing("nobody")
  BY DEF MxPresent, LastMx, Exists, Changing
<1>2. RowsKnown => RowsKnown'
  BY <1>1 DEF RowsKnown
<1> QED
  BY <1>1, <1>2 DEF DomainInv

\* The checks, the zone and the worker.
LEMMA CheckKeeps ==
  ASSUME DomainInv,
         \/ \E c \in Checker : AskCheck(c)
         \/ \E c \in Checker \cup {"worker"} :
              CheckStep(c) \/ \E row \in check[c].ask : ResolveFails(c, row)
         \/ Sweep \/ Recheck \/ Stall \/ Suspend
         \/ \E h \in Hosts : EditZone(h)
  PROVE  DomainInv'
<1> USE DEF rowVars
<1>t. DomainType /\ check \in [Checker \cup {"worker"} -> Check]
  BY DEF DomainInv, DomainType
<1>b. ASSUME NEW c \in Checker \cup {"worker"}, Begin(c), UNCHANGED <<rowVars, zone, edits, faults>>
      PROVE  DomainInv'
  <2>1. [ask |-> Present, got |-> {}] \in Check
    BY DEF Check, Present
  <2>2. DomainType'
    BY <1>b, <1>t, <2>1 DEF Begin, DomainType
  <2> QED
    BY <1>b, <2>2, RowsStay DEF Present
<1>1. ASSUME NEW c \in Checker, AskCheck(c) PROVE DomainInv'
  BY <1>1, <1>b DEF AskCheck
<1>2. ASSUME Sweep \/ Recheck PROVE DomainInv'
  BY <1>2, <1>b DEF Sweep, Recheck
<1>3. ASSUME Stall PROVE DomainInv'
  <2>1. NoCheck \in Check
    BY DEF NoCheck, Check
  <2>2. DomainType'
    BY <1>3, <1>t, <2>1 DEF Stall, DomainType
  <2> QED
    BY <1>3, <2>2, RowsStay DEF Stall, Present
<1>4. ASSUME Suspend PROVE DomainInv'
  <2>1. DomainType'
    BY <1>4, <1>t DEF Suspend, DomainType
  <2> QED
    BY <1>4, <2>1, RowsStay DEF Suspend, Present
<1>5. ASSUME NEW h \in Hosts, EditZone(h) PROVE DomainInv'
  <2>1. DomainType'
    BY <1>5, <1>t DEF EditZone, DomainType
  <2> QED
    BY <1>5, <2>1, RowsStay DEF EditZone, Present
<1>6. ASSUME NEW c \in Checker \cup {"worker"}, NEW row \in check[c].ask, NEW verdict \in Status,
             check' = [check EXCEPT ![c].ask = @ \ {row}, ![c].got = @ \cup {<<row, verdict>>}],
             UNCHANGED <<rowVars, zone>>
      PROVE  DomainInv'
  <2>1. check[c] \in Check /\ row \in Rows
    BY <1>t DEF Check
  <2>2. check' \in [Checker \cup {"worker"} -> Check]
    BY <1>6, <1>t, <2>1 DEF Check
  <2>3. DomainType'
    BY <1>6, <1>t, <2>2 DEF DomainType
  <2> QED
    BY <1>6, <2>3, RowsStay DEF Present
<1>7. ASSUME NEW c \in Checker \cup {"worker"}, NEW row \in check[c].ask, ResolveFails(c, row) PROVE DomainInv'
  BY <1>7, <1>6 DEF ResolveFails, Status
<1>8. ASSUME NEW c \in Checker \cup {"worker"}, NEW row \in check[c].ask, Resolve(c, row) PROVE DomainInv'
  BY <1>8, <1>6, VerdictIsStatus DEF Resolve
<1>9. ASSUME NEW c \in Checker \cup {"worker"}, NEW v \in check[c].got, WriteVerdict(c, v) PROVE DomainInv'
  <2>1. check[c] \in Check /\ v \in Rows \X Status
    BY <1>t DEF Check
  <2>2. check' \in [Checker \cup {"worker"} -> Check]
    BY <1>9, <1>t, <2>1 DEF Check, WriteVerdict
  <2>3. status' \in [Rows -> Status \cup {"absent"}]
    BY <1>9, <1>t, <2>1 DEF WriteVerdict, DomainType
  <2>4. DomainType'
    BY <1>9, <1>t, <2>2, <2>3 DEF DomainType, WriteVerdict
  <2>5. Present' = Present
    <3>1. "absent" \notin Status
      BY DEF Status
    <3> QED
      BY <1>9, <1>t, <2>1, <3>1 DEF WriteVerdict, DomainType, Present
  <2> QED
    BY <1>9, <2>4, <2>5, RowsStay DEF WriteVerdict
<1> QED
  BY <1>1, <1>2, <1>3, <1>4, <1>5, <1>7, <1>8, <1>9 DEF CheckStep

LEMMA CreateRowKeeps ==
  ASSUME DomainInv, NEW s \in Source, CreateRow(s)
  PROVE  DomainInv'
<1>1. /\ source = "none" /\ Present = {} /\ \A p \in Patcher : patch[p] = NoPatch
      /\ source' = s /\ creating' = [phase |-> "row", source |-> s]
      /\ UNCHANGED <<active, status, mxMade, patch, crossed, torn, check, zone, edits, faults>>
  BY DEF CreateRow, DomainInv
<1>2. DomainType' /\ creating' \in Creations
  BY <1>1 DEF DomainInv, DomainType, Creations
<1>3. MxPresent' = {} /\ s # "none" /\ Changing("nobody")'
  BY <1>1 DEF MxPresent, Present, Source, Changing
<1>4. RowsKnown'
  BY <1>1, <1>3 DEF RowsKnown
<1> QED
  BY <1>1, <1>2, <1>3, <1>4 DEF DomainInv

LEMMA CreateRecordsKeeps ==
  ASSUME DomainInv, CreateRecords
  PROVE  DomainInv'
<1> DEFINE mx == IF "MX" \in Needed(creating.source) THEN mxMade + 1 ELSE mxMade
<1>1. /\ creating.phase = "row" /\ Exists /\ creating' = [phase |-> "done"]
      /\ UNCHANGED <<source, active, patch, crossed, torn, check, zone, edits, faults>>
      /\ mx <= MaxMx /\ mxMade' = mx
      /\ status' = [row \in Rows |-> IF KindOf(row) # "MX" \/ row[2] \in (mxMade + 1)..mx
                                     THEN "unchecked" ELSE status[row]]
  BY DEF CreateRecords
<1>2. mxMade \in 0 .. MaxMx /\ MaxMx \in Nat
  BY Mx DEF DomainInv, DomainType
<1>3. mx \in 0 .. MaxMx
  BY <1>1, <1>2
<1>4. status' \in [Rows -> Status \cup {"absent"}]
  BY <1>1 DEF DomainInv, DomainType, Status
<1>5. DomainType' /\ creating' \in Creations /\ source # "none"
  BY <1>1, <1>3, <1>4 DEF DomainInv, DomainType, Creations, Exists, Source
<1>6. ASSUME ~crossed PROVE RowsKnown'
  <2>1. RowsKnown /\ creating.source = source /\ MxPresent = {} /\ \A p \in Patcher : patch[p] = NoPatch
    BY <1>1, <1>6 DEF DomainInv, RowsKnown
  <2>2. ASSUME NEW row \in Rows, KindOf(row) = "MX"
        PROVE  status'[row] # "absent" <=> row[2] \in (mxMade + 1) .. mx
    <3>1. status[row] = "absent"
      BY <2>1, <2>2 DEF MxPresent, Present
    <3> QED
      BY <1>1, <2>2, <3>1
  <2>3. "MX" \in Needed(source) <=> source = "vps_hosted"
    BY DEF Needed, MailKind
  <2>4. CASE source = "vps_hosted"
    <3>1. mx = mxMade + 1
      BY <2>1, <2>3, <2>4
    <3>2. MxPresent' = {MxRow(mx)}
      BY <1>2, <1>3, <2>2, <3>1, Mx DEF MxPresent, Present, MxRow
    <3> QED
      BY <1>1, <2>1, <2>4, <3>2, NoPatchShape DEF RowsKnown, LastMx
  <2>5. CASE source # "vps_hosted"
    <3>1. mx = mxMade
      BY <2>1, <2>3, <2>5
    <3>2. MxPresent' = {}
      BY <1>2, <2>2, <3>1, Mx DEF MxPresent, Present
    <3> QED
      BY <1>1, <2>1, <2>5, <3>2 DEF RowsKnown
  <2> QED
    BY <2>4, <2>5
<1> QED
  BY <1>1, <1>5, <1>6 DEF DomainInv

LEMMA CreateFailsKeeps ==
  ASSUME DomainInv, CreateFails
  PROVE  DomainInv'
<1>1. /\ creating.phase = "row" /\ creating' = [phase |-> "cut"] /\ torn' = TRUE
      /\ UNCHANGED <<source, active, status, mxMade, patch, crossed, check, zone, edits, faults>>
  BY DEF CreateFails
<1>2. DomainType' /\ creating' \in Creations /\ MxPresent' = MxPresent /\ source # "none"
  BY <1>1 DEF DomainInv, DomainType, Creations, MxPresent, Present
<1>3. RowsKnown => RowsKnown'
  BY <1>1, <1>2 DEF RowsKnown, LastMx
<1> QED
  BY <1>1, <1>2, <1>3 DEF DomainInv, Exists

LEMMA PatchDomainKeeps ==
  ASSUME DomainInv, NEW p \in Patcher, NEW s \in Source, PatchDomain(p, s)
  PROVE  DomainInv'
<1> DEFINE new == [phase |-> "find", source |-> s]
<1>1. /\ patch[p] = NoPatch /\ Exists /\ source' = s /\ patch' = [patch EXCEPT ![p] = new]
      /\ crossed' = (crossed \/ Changing(p))
      /\ UNCHANGED <<active, status, mxMade, creating, torn, check, zone, edits, faults>>
  BY DEF PatchDomain
<1>2. new \in Patches /\ new # NoPatch /\ new.source = s /\ new.phase = "find"
  BY NoPatchShape DEF Patches
<1>3. DomainType' /\ patch' \in [Patcher -> Patches] /\ crossed' \in BOOLEAN
  BY <1>1, <1>2 DEF DomainInv, DomainType
<1>4. s # "none" /\ source # "none" /\ MxPresent' = MxPresent /\ LastMx' = LastMx
  BY <1>1 DEF Source, Exists, MxPresent, Present, LastMx
<1>5. ASSUME ~crossed' PROVE RowsKnown'
  <2>1. RowsKnown /\ creating.phase # "row" /\ \A q \in Patcher \ {p} : patch[q] = NoPatch
    BY <1>1, <1>5 DEF DomainInv, Changing
  <2>2. patch'[p] = new /\ \A q \in Patcher \ {p} : patch'[q] = NoPatch
    BY <1>1, <2>1 DEF DomainInv
  <2>3. Changing("nobody")'
    BY <1>2, <2>2, DomainRecordsAssumption DEF Changing
  <2> HIDE DEF new
  <2> QED
    BY <1>1, <1>2, <1>4, <2>1, <2>2, <2>3 DEF RowsKnown
<1> QED
  BY <1>1, <1>3, <1>4, <1>5 DEF DomainInv

LEMMA FindMxKeeps ==
  ASSUME DomainInv, NEW p \in Patcher, FindMx(p)
  PROVE  DomainInv'
<1>1. /\ patch[p].phase = "find"
      /\ UNCHANGED <<source, active, status, mxMade, creating, crossed, torn, check, zone, edits, faults>>
  BY DEF FindMx
<1>2. PICK mx \in IF MxPresent = {} THEN {{}} ELSE {{row} : row \in MxPresent} :
        patch' = [patch EXCEPT ![p] = [phase |-> "sync", source |-> patch[p].source, mx |-> mx]]
  BY DEF FindMx
<1> DEFINE new == [phase |-> "sync", source |-> patch[p].source, mx |-> mx]
<1>3. patch[p] \in Patches /\ patch[p] # NoPatch /\ patch[p].source \in Source
  BY <1>1, NoPatchShape DEF DomainInv
<1>4. mx \in SUBSET Rows
  BY <1>2 DEF MxPresent, Present
<1>5. new \in Patches /\ new # NoPatch
  BY <1>3, <1>4, NoPatchShape DEF Patches
<1>6. DomainType' /\ patch' \in [Patcher -> Patches] /\ MxPresent' = MxPresent /\ LastMx' = LastMx
  BY <1>1, <1>2, <1>5 DEF DomainInv, DomainType, MxPresent, Present, LastMx
<1>7. ASSUME ~crossed, Exists PROVE RowsKnown'
  <2>1. RowsKnown
    BY <1>7 DEF DomainInv
  <2>2. creating.phase # "row" /\ \A q \in Patcher \ {p} : patch[q] = NoPatch
    BY <1>3, <2>1 DEF RowsKnown
  <2>3. mx = MxPresent
    BY <1>2, <2>1 DEF RowsKnown, LastMx
  <2>4. patch'[p] = new /\ \A q \in Patcher \ {p} : patch'[q] = NoPatch
    BY <1>2, <2>2 DEF DomainInv
  <2>5. Changing("nobody")'
    BY <1>5, <2>4, DomainRecordsAssumption DEF Changing
  <2>6. new.source = source /\ new.mx = MxPresent
    BY <1>3, <2>1, <2>3 DEF RowsKnown
  <2> HIDE DEF new
  <2> QED
    BY <1>1, <1>6, <2>1, <2>2, <2>4, <2>5, <2>6 DEF RowsKnown
<1>8. source # "none"
  BY <1>3 DEF DomainInv
<1> QED
  BY <1>1, <1>6, <1>7, <1>8 DEF DomainInv, Exists

\* A whole PATCH leaves the row the domain needs.
LEMMA SyncMxKeeps ==
  ASSUME DomainInv, NEW p \in Patcher, SyncMx(p)
  PROVE  DomainInv'
<1>1. /\ patch[p].phase = "sync" /\ Exists /\ patch' = [patch EXCEPT ![p] = NoPatch] /\ torn' = FALSE
      /\ UNCHANGED <<source, active, creating, crossed, check, zone, edits, faults>>
  BY DEF SyncMx
<1>2. patch[p] \in Patches /\ patch[p] # NoPatch /\ patch[p].source \in Source /\ patch[p].mx \in SUBSET Rows
  BY <1>1, NoPatchShape DEF DomainInv
<1> DEFINE wanted == "MX" \in Needed(patch[p].source)
           mx == patch[p].mx
           Adds == /\ mxMade < MaxMx /\ mxMade' = mxMade + 1
                   /\ status' = [status EXCEPT ![MxRow(mxMade + 1)] = "unchecked"]
           Deletes == /\ mx \subseteq Present
                      /\ status' = [row \in Rows |-> IF row \in mx THEN "absent" ELSE status[row]]
                      /\ mxMade' = mxMade
           Stays == status' = status /\ mxMade' = mxMade
<1>3. \/ wanted /\ mx = {} /\ Adds
      \/ ~wanted /\ mx # {} /\ Deletes
      \/ ~(wanted /\ mx = {}) /\ ~(~wanted /\ mx # {}) /\ Stays
  <2>1. (CASE wanted /\ mx = {} -> Adds
           [] ~wanted /\ mx # {} -> Deletes
           [] OTHER -> Stays)
    BY DEF SyncMx
  <2> HIDE DEF wanted, mx, Adds, Deletes, Stays
  <2> QED
    BY <2>1
<1>4. mxMade \in 0 .. MaxMx /\ MaxMx \in Nat /\ status \in [Rows -> Status \cup {"absent"}]
  BY Mx DEF DomainInv, DomainType
<1>5. mxMade' \in 0 .. MaxMx /\ status' \in [Rows -> Status \cup {"absent"}]
  <2>1. CASE Adds
    <3>1. mxMade' \in 0 .. MaxMx
      BY <1>4, <2>1
    <3>2. "unchecked" \in Status \cup {"absent"}
      BY DEF Status
    <3>3. status' \in [Rows -> Status \cup {"absent"}]
      BY <1>4, <2>1, <3>2
    <3> QED
      BY <3>1, <3>3
  <2>2. CASE Deletes
    BY <1>4, <2>2
  <2>3. CASE Stays
    BY <1>4, <2>3
  <2> QED
    BY <1>3, <2>1, <2>2, <2>3
<1>6. DomainType' /\ patch' \in [Patcher -> Patches]
  <2>1. NoPatch \in Patches
    BY DEF Patches
  <2>2. patch' \in [Patcher -> Patches]
    BY <1>1, <2>1 DEF DomainInv
  <2>3. DomainType'
    BY <1>1, <1>5 DEF DomainInv, DomainType
  <2> QED
    BY <2>2, <2>3
<1>7. ASSUME ~crossed PROVE RowsKnown'
  <2>1. RowsKnown /\ patch[p].source = source /\ mx = MxPresent /\ MxPresent \in {{}, LastMx}
        /\ creating.phase # "row"
    BY <1>1, <1>2, <1>7 DEF DomainInv, RowsKnown
  <2>2. \A q \in Patcher : patch'[q] = NoPatch
    BY <1>1, <1>2, <2>1 DEF DomainInv, RowsKnown
  <2>3. wanted <=> source = "vps_hosted"
    BY <2>1 DEF Needed, MailKind
  <2>4. MxPresent' = IF wanted THEN {MxRow(mxMade')} ELSE {}
    <3>1. CASE wanted /\ mx = {} /\ Adds
      <4>1. MxRow(mxMade + 1) \in Rows /\ KindOf(MxRow(mxMade + 1)) = "MX"
        BY <1>4, <3>1, Mx
      <4>2. Present' = Present \union {MxRow(mxMade + 1)}
        BY <1>4, <3>1, <4>1 DEF Present
      <4>3. MxPresent' = MxPresent \union {MxRow(mxMade + 1)}
        BY <4>1, <4>2 DEF MxPresent
      <4> QED
        BY <2>1, <3>1, <4>3
    <3>2. CASE ~wanted /\ mx # {} /\ Deletes
      <4>1. Present' = Present \ mx
        BY <1>4, <3>2 DEF Present
      <4>2. MxPresent' = MxPresent \ mx
        BY <4>1 DEF MxPresent
      <4> QED
        BY <2>1, <3>2, <4>2
    <3>3. CASE ~(wanted /\ mx = {}) /\ ~(~wanted /\ mx # {}) /\ Stays
      <4>1. MxPresent' = MxPresent
        BY <3>3 DEF MxPresent, Present
      <4> QED
        BY <2>1, <3>3, <4>1 DEF LastMx
    <3> QED
      BY <1>3, <3>1, <3>2, <3>3
  <2> QED
    BY <1>1, <2>1, <2>2, <2>3, <2>4 DEF RowsKnown, LastMx
<1>8. source # "none"
  BY <1>2 DEF DomainInv
<1> QED
  BY <1>1, <1>6, <1>7, <1>8 DEF DomainInv

LEMMA PatchFailsKeeps ==
  ASSUME DomainInv, NEW p \in Patcher, PatchFails(p)
  PROVE  DomainInv'
<1>1. /\ patch[p] # NoPatch /\ patch' = [patch EXCEPT ![p] = NoPatch] /\ torn' = TRUE
      /\ UNCHANGED <<source, active, status, mxMade, creating, crossed, check, zone, edits, faults>>
  BY DEF PatchFails
<1>2. NoPatch \in Patches
  BY DEF Patches
<1>3. DomainType' /\ patch' \in [Patcher -> Patches] /\ MxPresent' = MxPresent /\ LastMx' = LastMx
  BY <1>1, <1>2 DEF DomainInv, DomainType, MxPresent, Present, LastMx
<1>4. patch'[p] = NoPatch /\ \A q \in Patcher \ {p} : patch'[q] = patch[q]
  BY <1>1, <1>2 DEF DomainInv
<1>5. RowsKnown => RowsKnown'
  BY <1>1, <1>3, <1>4 DEF RowsKnown
<1>6. source # "none"
  BY <1>1 DEF DomainInv
<1> QED
  BY <1>1, <1>3, <1>5, <1>6 DEF DomainInv, Exists

LEMMA RemoveDomainKeeps ==
  ASSUME DomainInv, RemoveDomain
  PROVE  DomainInv'
<1>1. /\ Exists /\ source' = "deleted" /\ status' = [row \in Rows |-> "absent"]
      /\ UNCHANGED <<active, mxMade, creating, patch, crossed, torn, check, zone, edits, faults>>
  BY DEF RemoveDomain
<1>2. DomainType' /\ ~Exists'
  BY <1>1 DEF DomainInv, DomainType, Exists, Source
<1>3. source # "none"
  BY <1>1 DEF Exists, Source
<1> QED
  BY <1>1, <1>2, <1>3 DEF DomainInv

LEMMA DomainStep == DomainInv /\ [DomainNext]_domainVars => DomainInv'
<1> SUFFICES ASSUME DomainInv, [DomainNext]_domainVars PROVE DomainInv'
  OBVIOUS
<1>1. ASSUME UNCHANGED domainVars PROVE DomainInv'
  BY <1>1, RowsStay DEF domainVars, rowVars, Present, DomainInv, DomainType
<1> QED
  BY <1>1, CreateRowKeeps, CreateRecordsKeeps, CreateFailsKeeps, PatchDomainKeeps, FindMxKeeps, SyncMxKeeps,
     PatchFailsKeeps, RemoveDomainKeeps, CheckKeeps DEF DomainNext

\* Every reachable state of the records is well typed, and while no two changes
\* have overlapped there is one MX row at most and every change knows it.
THEOREM DomainInvariant == DomainSpec => []DomainInv
<1> QED
  BY DomainFirst, DomainStep, PTL DEF DomainSpec

\* The MX row follows the domain's kind, but for changes that overlapped and for
\* one that was cut short: for any number of PATCH requests and checks.
THEOREM MxRowFollows == DomainSpec => []MxRowFits
<1>1. DomainInv => MxRowFits
  BY DEF DomainInv, MxRowFits, RowsKnown, LastMx
<1> QED
  BY <1>1, DomainInvariant, PTL

=============================================================================
