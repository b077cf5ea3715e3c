------------------------ MODULE WebmailAccountProofs ------------------------
(***************************************************************************)
(* Proofs about WebmailSession, for any number of sessions, of handlers in *)
(* flight and of restarts; about WebmailLogin, for any number of secrets and*)
(* codes; and about Preferences, for any number of pages and entries.      *)
(***************************************************************************)
EXTENDS WebmailSession, WebmailLogin, Preferences, TLAPS

(***************************************************************************)
(* WebmailSession.                                                         *)
(***************************************************************************)

\* Every live session was issued, and so was every one that a handler works on.
AllIssued ==
  /\ \A t \in Tok : key[t] # "none" => t \in used
  /\ \A r \in Req :
       /\ req[r].pc \notin {"idle", "others", "list"} => req[r].tok \in used
       /\ req[r].todo \subseteq used

\* A session that a handler is about to take out of the index is dead
\* already, or was written back.
Dead(t) == key[t] = "none" \/ t \in revived

Removing ==
  \A r \in Req : req[r].pc \in {"revSrem", "othersSrem", "listSrem"} => Dead(req[r].tok)

IInv == TypeOK /\ AllIssued /\ Removing /\ EndedIsGone /\ Listed

LEMMA IdleType == Idle \in Local /\ Idle.pc = "idle" /\ Idle.todo = {}
BY DEF Idle, Local, PC

\* The four ways in which a handler's variables change.
LEMMA Moves ==
  ASSUME req \in [Req -> Local], NEW r \in Req
  PROVE  /\ \A p \in PC, t \in Tok \union {"none"}, S \in SUBSET Tok, f \in BOOLEAN :
              Enter(r, p, t, S, f) =>
                /\ req' \in [Req -> Local]
                /\ req'[r].pc = p /\ req'[r].tok = t /\ req'[r].todo = S
                /\ \A q \in Req \ {r} : req'[q] = req[q]
         /\ \A p \in PC :
              Goto(r, p) =>
                /\ req' \in [Req -> Local]
                /\ req'[r].pc = p /\ req'[r].tok = req[r].tok /\ req'[r].todo = req[r].todo
                /\ \A q \in Req \ {r} : req'[q] = req[q]
         /\ Done(r) =>
                /\ req' \in [Req -> Local]
                /\ req'[r].pc = "idle" /\ req'[r].todo = {}
                /\ \A q \in Req \ {r} : req'[q] = req[q]
<1>1. ASSUME NEW p \in PC, NEW t \in Tok \union {"none"}, NEW S \in SUBSET Tok,
             NEW f \in BOOLEAN, Enter(r, p, t, S, f)
      PROVE  /\ req' \in [Req -> Local]
             /\ req'[r].pc = p /\ req'[r].tok = t /\ req'[r].todo = S
             /\ \A q \in Req \ {r} : req'[q] = req[q]
  <2> DEFINE l == [pc |-> p, tok |-> t, todo |-> S, full |-> f]
  <2>1. l \in Local /\ l.pc = p /\ l.tok = t /\ l.todo = S
    BY DEF Local
  <2>2. req' = [req EXCEPT ![r] = l]
    BY <1>1 DEF Enter
  <2> HIDE DEF l
  <2> QED
    BY <2>1, <2>2
<1>2. ASSUME NEW p \in PC, Goto(r, p)
      PROVE  /\ req' \in [Req -> Local]
             /\ req'[r].pc = p /\ req'[r].tok = req[r].tok /\ req'[r].todo = req[r].todo
             /\ \A q \in Req \ {r} : req'[q] = req[q]
  <2> DEFINE l == [req[r] EXCEPT !.pc = p]
  <2>1. l \in Local /\ l.pc = p /\ l.tok = req[r].tok /\ l.todo = req[r].todo
    BY DEF Local
  <2>2. req' = [req EXCEPT ![r] = l]
    BY <1>2 DEF Goto
  <2> HIDE DEF l
  <2> QED
    BY <2>1, <2>2
<1>3. ASSUME Done(r)
      PROVE  /\ req' \in [Req -> Local]
             /\ req'[r].pc = "idle" /\ req'[r].todo = {}
             /\ \A q \in Req \ {r} : req'[q] = req[q]
  BY <1>3, IdleType DEF Done
<1> QED
  BY <1>1, <1>2, <1>3

\* Steps that change nothing but one handler's variables and times to live.
LEMMA Quiet ==
  ASSUME IInv, NEW r \in Req, \A q \in Req \ {r} : req'[q] = req[q], req' \in [Req -> Local],
         UNCHANGED <<key, idx, used, crashes, out, revived, dropped, torn>>,
         timed' \in BOOLEAN, timed' => idx # {}, loose' \subseteq Tok,
         req[r].pc \notin {"sadd", "del"},
         req'[r].pc \notin {"idle", "others", "list"} => req'[r].tok \in used,
         req'[r].todo \subseteq used,
         req'[r].pc \in {"revSrem", "othersSrem", "listSrem"} => Dead(req'[r].tok)
  PROVE  IInv'
<1>1. TypeOK' /\ AllIssued' /\ Removing' /\ EndedIsGone'
  BY DEF IInv, TypeOK, AllIssued, Removing, Dead, EndedIsGone
<1>2. \A t : Halfway(t) => Halfway(t)'
  BY DEF Halfway
<1>3. Listed'
  BY <1>2 DEF IInv, Listed, Alive
<1> QED
  BY <1>1, <1>3 DEF IInv

\* Steps that take a session out of the index that is dead, or about to be.
LEMMA Removes ==
  ASSUME IInv, NEW r \in Req, \A q \in Req \ {r} : req'[q] = req[q], req' \in [Req -> Local],
         UNCHANGED <<key, used, loose, crashes, revived, dropped, torn>>,
         req[r].tok \in used, Unindex(req[r].tok),
         \/ Dead(req[r].tok) /\ req[r].pc \notin {"sadd", "del"}
         \/ req[r].pc = "srem" /\ req'[r].pc = "del" /\ req'[r].tok = req[r].tok,
         out' = out \/ (Dead(req[r].tok) /\ out' = out \union {req[r].tok}),
         req'[r].pc \notin {"idle", "others", "list"} => req'[r].tok \in used,
         req'[r].todo \subseteq used,
         req'[r].pc \notin {"revSrem", "othersSrem", "listSrem"}
  PROVE  IInv'
<1>1. idx' = idx \ {req[r].tok} /\ timed' \in BOOLEAN /\ (timed' => idx' # {})
  BY DEF Unindex, IInv, TypeOK
<1>2. TypeOK'
  BY <1>1 DEF IInv, TypeOK
<1>3. AllIssued' /\ Removing'
  BY DEF IInv, AllIssued, Removing, Dead
<1>4. EndedIsGone'
  BY DEF IInv, EndedIsGone, Dead
<1>5. ASSUME NEW t \in Tok, Halfway(t) PROVE Halfway(t)'
  BY <1>5 DEF Halfway
<1>6. Listed'
  <2> SUFFICES ASSUME NEW t \in Alive
               PROVE  t \in idx' \union revived \union dropped \union torn \/ Halfway(t)'
    BY DEF Listed, Alive
  <2>1. CASE t # req[r].tok
    BY <2>1, <1>1, <1>5 DEF IInv, Listed, Alive
  <2>2. CASE t = req[r].tok
    BY <2>2 DEF Dead, Alive, Halfway
  <2> QED
    BY <2>1, <2>2
<1> QED
  BY <1>2, <1>3, <1>4, <1>6 DEF IInv

\* Steps that delete a key.
LEMMA Drops ==
  ASSUME IInv, NEW r \in Req, \A q \in Req \ {r} : req'[q] = req[q], req' \in [Req -> Local],
         UNCHANGED <<timed, idx, used, loose, crashes, revived, dropped, torn>>,
         NEW t \in Tok, Drop(t),
         out' = out \/ (t \in used /\ out' = out \union {t}),
         req[r].pc \notin {"sadd", "del"} \/ req[r].tok = t,
         req'[r].pc \notin {"idle", "others", "list"} => req'[r].tok \in used,
         req'[r].todo \subseteq used,
         req'[r].pc \in {"revSrem", "othersSrem", "listSrem"} => req'[r].tok = t
  PROVE  IInv'
<1>1. /\ key' \in [Tok -> {"none", "new", "old"}]
      /\ key'[t] = "none" /\ \A u \in Tok \ {t} : key'[u] = key[u]
  BY DEF IInv, TypeOK, Drop
<1>2. TypeOK'
  BY <1>1 DEF IInv, TypeOK
<1>3. AllIssued'
  <2>1. \A u \in Tok : key'[u] # "none" => u \in used'
    BY <1>1 DEF IInv, AllIssued
  <2> QED
    BY <2>1 DEF IInv, AllIssued
<1>4. \A u \in Tok : Dead(u) => Dead(u)'
  BY <1>1 DEF Dead
<1>5. Removing'
  <2>1. \A q \in Req : req[q].pc \in {"revSrem", "othersSrem", "listSrem"} => req[q].tok \in Tok
    BY DEF IInv, AllIssued, TypeOK
  <2> QED
    BY <1>1, <1>4, <2>1 DEF IInv, Removing, Dead
<1>6. EndedIsGone'
  BY <1>1 DEF IInv, EndedIsGone, TypeOK
<1>7. ASSUME NEW u \in Tok \ {t}, Halfway(u) PROVE Halfway(u)'
  BY <1>7 DEF Halfway
<1>8. Listed'
  BY <1>1, <1>7 DEF IInv, Listed, Alive
<1> QED
  BY <1>2, <1>3, <1>5, <1>6, <1>8 DEF IInv

LEMMA Rests ==
  ASSUME req \in [Req -> Local], NEW r \in Req, NEW p \in {"others", "list"},
         NEW S \in SUBSET Tok, Rest(r, p, S)
  PROVE  /\ req' \in [Req -> Local]
         /\ req'[r].pc \in {"idle", p} /\ req'[r].todo = S
         /\ \A q \in Req \ {r} : req'[q] = req[q]
<1>1. CASE S = {}
  BY <1>1, Moves DEF Rest
<1>2. CASE S # {}
  <2> DEFINE l == [pc |-> p, tok |-> "none", todo |-> S, full |-> FALSE]
  <2>1. l \in Local /\ l.pc = p /\ l.todo = S
    BY DEF Local, PC
  <2>2. req' = [req EXCEPT ![r] = l]
    BY <1>2 DEF Rest, Enter
  <2> HIDE DEF l
  <2> QED
    BY <2>1, <2>2
<1> QED
  BY <1>1, <1>2

\* What a handler holds while it is at work.
LEMMA HeldTokens ==
  ASSUME IInv, NEW r \in Req
  PROVE  /\ req \in [Req -> Local]
         /\ req[r].todo \subseteq used /\ used \subseteq Tok /\ idx \subseteq used
         /\ req[r].pc \notin {"idle", "others", "list"} => req[r].tok \in used
BY DEF IInv, TypeOK, AllIssued

-----------------------------------------------------------------------------

\* Steps that touch no key and no index.
LEMMA SessionsStill ==
  ASSUME IInv, NEW r \in Req, NEW t \in Tok,
         \/ LoginExpire(r) \/ ResolveGet(r, t) \/ ResolveTtl(r) \/ LogoutGet(r, t)
         \/ OtherRoute(r) \/ Revoke(r, t) \/ Others(r) \/ List(r) \/ ListGet(r, t)
  PROVE  IInv'
<1>0. /\ req \in [Req -> Local]
      /\ req[r].todo \subseteq used /\ used \subseteq Tok /\ idx \subseteq used
      /\ req[r].pc \notin {"idle", "others", "list"} => req[r].tok \in used
  BY HeldTokens
<1>t. timed \in BOOLEAN /\ (timed => idx # {}) /\ loose \subseteq Tok
      /\ key \in [Tok -> {"none", "new", "old"}]
  BY DEF IInv, TypeOK
<1>a. CASE LoginExpire(r)
  <2>1. /\ req' \in [Req -> Local] /\ req'[r].pc = "idle" /\ req'[r].todo = {}
        /\ \A q \in Req \ {r} : req'[q] = req[q]
    BY <1>a, <1>0, Moves DEF LoginExpire
  <2>2. req[r].pc = "expire" /\ timed' = (idx # {}) /\ loose' \subseteq Tok
        /\ UNCHANGED <<key, idx, used, crashes, out, revived, dropped, torn>>
    BY <1>a, <1>t DEF LoginExpire, At, history
  <2> QED
    BY <2>1, <2>2, Quiet
<1>b. CASE ResolveGet(r, t)
  <2>1. Enter(r, "ttl", t, {}, FALSE) \/ Enter(r, "authed", t, {}, FALSE)
    BY <1>b DEF ResolveGet
  <2>2. req[r].pc = "idle" /\ key[t] # "none"
        /\ UNCHANGED <<key, idx, used, timed, loose, crashes, out, revived, dropped, torn>>
    BY <1>b DEF ResolveGet, At, store, history
  <2>3. t \in used
    BY <2>2 DEF IInv, AllIssued
  <2>4. /\ req' \in [Req -> Local] /\ req'[r].pc \in {"ttl", "authed"} /\ req'[r].tok = t
        /\ req'[r].todo = {} /\ \A q \in Req \ {r} : req'[q] = req[q]
    <3> DEFINE l(p) == [pc |-> p, tok |-> t, todo |-> {}, full |-> FALSE]
    <3>1. \A p \in {"ttl", "authed"} :
             l(p) \in Local /\ l(p).pc = p /\ l(p).tok = t /\ l(p).todo = {}
      BY DEF Local, PC
    <3>2. req' = [req EXCEPT ![r] = l("ttl")] \/ req' = [req EXCEPT ![r] = l("authed")]
      BY <2>1 DEF Enter
    <3> HIDE DEF l
    <3> QED
      BY <1>0, <3>1, <3>2
  <2> QED
    BY <2>2, <2>3, <2>4, <1>t, Quiet
<1>c. CASE ResolveTtl(r)
  <2> DEFINE f == key[req[r].tok] = "none"
  <2>1. req[r].pc = "ttl" /\ Enter(r, "touch", req[r].tok, {}, f)
        /\ UNCHANGED <<key, idx, used, timed, loose, crashes, out, revived, dropped, torn>>
    BY <1>c DEF ResolveTtl, At, store, history
  <2>2. req[r].tok \in used /\ req[r].tok \in Tok \union {"none"} /\ f \in BOOLEAN
    BY <2>1, <1>0
  <2>3. /\ req' \in [Req -> Local] /\ req'[r].pc = "touch" /\ req'[r].tok = req[r].tok
        /\ req'[r].todo = {} /\ \A q \in Req \ {r} : req'[q] = req[q]
    <3> HIDE DEF f
    <3> DEFINE l == [pc |-> "touch", tok |-> req[r].tok, todo |-> {}, full |-> f]
    <3>1. l \in Local /\ l.pc = "touch" /\ l.tok = req[r].tok /\ l.todo = {}
      BY <2>2 DEF Local, PC
    <3>2. req' = [req EXCEPT ![r] = l]
      BY <2>1 DEF Enter
    <3> HIDE DEF l
    <3> QED
      BY <1>0, <3>1, <3>2
  <2> QED
    BY <2>1, <2>2, <2>3, <1>t, Quiet
<1>d. CASE LogoutGet(r, t)
  <2>1. Enter(r, "del", t, {}, FALSE) \/ Enter(r, "srem", t, {}, FALSE)
    BY <1>d DEF LogoutGet
  <2>2. req[r].pc = "idle" /\ t \in used
        /\ UNCHANGED <<key, idx, used, timed, loose, crashes, out, revived, dropped, torn>>
    BY <1>d DEF LogoutGet, At, store, history
  <2>3. /\ req' \in [Req -> Local] /\ req'[r].pc \in {"del", "srem"} /\ req'[r].tok = t
        /\ req'[r].todo = {} /\ \A q \in Req \ {r} : req'[q] = req[q]
    <3> DEFINE l(p) == [pc |-> p, tok |-> t, todo |-> {}, full |-> FALSE]
    <3>1. \A p \in {"del", "srem"} : l(p) \in Local /\ l(p).pc = p /\ l(p).tok = t /\ l(p).todo = {}
      BY DEF Local, PC
    <3>2. req' = [req EXCEPT ![r] = l("del")] \/ req' = [req EXCEPT ![r] = l("srem")]
      BY <2>1 DEF Enter
    <3> HIDE DEF l
    <3> QED
      BY <1>0, <3>1, <3>2
  <2> QED
    BY <2>2, <2>3, <1>t, Quiet
<1>r. CASE OtherRoute(r)
  <2>1. req[r].pc = "authed" /\ Done(r)
        /\ UNCHANGED <<key, idx, used, timed, loose, crashes, out, revived, dropped, torn>>
    BY <1>r DEF OtherRoute, At, store, history
  <2>2. /\ req' \in [Req -> Local] /\ req'[r].pc = "idle" /\ req'[r].todo = {}
        /\ \A q \in Req \ {r} : req'[q] = req[q]
    BY <2>1, <1>0, Moves
  <2> QED
    BY <2>1, <2>2, <1>t, Quiet
<1>e. CASE Revoke(r, t)
  <2>1. req[r].pc = "authed" /\ Enter(r, "revDel", t, {}, FALSE) /\ t \in used
        /\ UNCHANGED <<key, idx, used, timed, loose, crashes, out, revived, dropped, torn>>
    BY <1>e, <1>0 DEF Revoke, At, store, history
  <2>2. /\ req' \in [Req -> Local] /\ req'[r].pc = "revDel" /\ req'[r].tok = t
        /\ req'[r].todo = {} /\ \A q \in Req \ {r} : req'[q] = req[q]
    BY <2>1, <1>0, Moves DEF PC
  <2> QED
    BY <2>1, <2>2, <1>t, Quiet
<1>f. CASE Others(r)
  <2>1. req[r].pc = "authed" /\ Rest(r, "others", idx \ {req[r].tok})
        /\ UNCHANGED <<key, idx, used, timed, loose, crashes, out, revived, dropped, torn>>
    BY <1>f DEF Others, At, store, history
  <2>2. /\ req' \in [Req -> Local] /\ req'[r].pc \in {"idle", "others"}
        /\ req'[r].todo = idx \ {req[r].tok} /\ \A q \in Req \ {r} : req'[q] = req[q]
    BY <2>1, <1>0, Rests
  <2> QED
    BY <2>1, <2>2, <1>0, <1>t, Quiet
<1>g. CASE List(r)
  <2>1. req[r].pc = "authed" /\ Rest(r, "list", idx)
        /\ UNCHANGED <<key, idx, used, timed, loose, crashes, out, revived, dropped, torn>>
    BY <1>g DEF List, At, store, history
  <2>2. /\ req' \in [Req -> Local] /\ req'[r].pc \in {"idle", "list"}
        /\ req'[r].todo = idx /\ \A q \in Req \ {r} : req'[q] = req[q]
    BY <2>1, <1>0, Rests
  <2> QED
    BY <2>1, <2>2, <1>0, <1>t, Quiet
<1>h. CASE ListGet(r, t)
  <2> DEFINE S == req[r].todo \ {t}
  <2>1. req[r].pc = "list" /\ t \in used /\ S \subseteq used
        /\ UNCHANGED <<key, idx, used, timed, loose, crashes, out, revived, dropped, torn>>
    BY <1>h, <1>0 DEF ListGet, At, store, history
  <2>2. CASE key[t] # "none"
    <3>1. Rest(r, "list", S)
      BY <1>h, <2>2 DEF ListGet
    <3>2. /\ req' \in [Req -> Local] /\ req'[r].pc \in {"idle", "list"}
          /\ req'[r].todo = S /\ \A q \in Req \ {r} : req'[q] = req[q]
      BY <3>1, <2>1, <1>0, Rests
    <3> QED
      BY <2>1, <3>2, <1>t, Quiet
  <2>3. CASE key[t] = "none"
    <3>1. Enter(r, "listSrem", t, S, FALSE)
      BY <1>h, <2>3 DEF ListGet
    <3>2. /\ req' \in [Req -> Local] /\ req'[r].pc = "listSrem" /\ req'[r].tok = t
          /\ req'[r].todo = S /\ \A q \in Req \ {r} : req'[q] = req[q]
      <4> HIDE DEF S
      <4> DEFINE l == [pc |-> "listSrem", tok |-> t, todo |-> S, full |-> FALSE]
      <4>1. l \in Local /\ l.pc = "listSrem" /\ l.tok = t /\ l.todo = S
        BY <2>1, <1>0 DEF Local, PC
      <4>2. req' = [req EXCEPT ![r] = l]
        BY <3>1 DEF Enter
      <4> HIDE DEF l
      <4> QED
        BY <1>0, <4>1, <4>2
    <3>3. Dead(req'[r].tok)
      BY <3>2, <2>3 DEF Dead
    <3> HIDE DEF S
    <3> QED
      BY <2>1, <3>2, <3>3, <1>t, Quiet
  <2> QED
    BY <2>2, <2>3
<1> QED
  BY <1>a, <1>b, <1>c, <1>d, <1>r, <1>e, <1>f, <1>g, <1>h

\* Steps that take a session out of the index.
LEMMA RemoveSteps ==
  ASSUME IInv, NEW r \in Req,
         LogoutSrem(r) \/ RevokeSrem(r) \/ OthersSrem(r) \/ ListSrem(r)
  PROVE  IInv'
<1>0. /\ req \in [Req -> Local]
      /\ req[r].todo \subseteq used /\ used \subseteq Tok
      /\ req[r].pc \notin {"idle", "others", "list"} => req[r].tok \in used
      /\ req[r].pc \in {"revSrem", "othersSrem", "listSrem"} => Dead(req[r].tok)
  BY HeldTokens DEF IInv, Removing
<1>a. CASE LogoutSrem(r)
  <2>1. req[r].pc = "srem" /\ Goto(r, "del") /\ Unindex(req[r].tok) /\ out' = out
        /\ UNCHANGED <<key, used, loose, crashes, revived, dropped, torn>>
    BY <1>a DEF LogoutSrem, At, history
  <2>2. /\ req' \in [Req -> Local] /\ req'[r].pc = "del" /\ req'[r].tok = req[r].tok
        /\ req'[r].todo = req[r].todo /\ \A q \in Req \ {r} : req'[q] = req[q]
    BY <2>1, <1>0, Moves DEF PC
  <2> QED
    BY <2>1, <2>2, <1>0, Removes
<1>b. CASE RevokeSrem(r)
  <2>1. req[r].pc = "revSrem" /\ Done(r) /\ Unindex(req[r].tok) /\ out' = out \union {req[r].tok}
        /\ UNCHANGED <<key, used, loose, crashes, revived, dropped, torn>>
    BY <1>b DEF RevokeSrem, At
  <2>2. /\ req' \in [Req -> Local] /\ req'[r].pc = "idle" /\ req'[r].todo = {}
        /\ \A q \in Req \ {r} : req'[q] = req[q]
    BY <2>1, <1>0, Moves
  <2> QED
    BY <2>1, <2>2, <1>0, Removes
<1>c. CASE OthersSrem(r)
  <2>1. req[r].pc = "othersSrem" /\ Rest(r, "others", req[r].todo) /\ Unindex(req[r].tok)
        /\ out' = out \union {req[r].tok}
        /\ UNCHANGED <<key, used, loose, crashes, revived, dropped, torn>>
    BY <1>c DEF OthersSrem, At
  <2>2. /\ req' \in [Req -> Local] /\ req'[r].pc \in {"idle", "others"}
        /\ req'[r].todo = req[r].todo /\ \A q \in Req \ {r} : req'[q] = req[q]
    BY <2>1, <1>0, Rests
  <2> QED
    BY <2>1, <2>2, <1>0, Removes
<1>d. CASE ListSrem(r)
  <2>1. req[r].pc = "listSrem" /\ Rest(r, "list", req[r].todo) /\ Unindex(req[r].tok)
        /\ out' = out /\ UNCHANGED <<key, used, loose, crashes, revived, dropped, torn>>
    BY <1>d DEF ListSrem, At, history
  <2>2. /\ req' \in [Req -> Local] /\ req'[r].pc \in {"idle", "list"}
        /\ req'[r].todo = req[r].todo /\ \A q \in Req \ {r} : req'[q] = req[q]
    BY <2>1, <1>0, Rests
  <2> QED
    BY <2>1, <2>2, <1>0, Removes
<1> QED
  BY <1>a, <1>b, <1>c, <1>d

\* Steps of a handler that delete a key.
LEMMA DropSteps ==
  ASSUME IInv, NEW r \in Req, NEW t \in Tok, LogoutDel(r) \/ RevokeDel(r) \/ OthersDel(r, t)
  PROVE  IInv'
<1>0. /\ req \in [Req -> Local]
      /\ req[r].todo \subseteq used /\ used \subseteq Tok
      /\ req[r].pc \notin {"idle", "others", "list"} => req[r].tok \in used
  BY HeldTokens
<1>a. CASE LogoutDel(r)
  <2>1. req[r].pc = "del" /\ Done(r) /\ Drop(req[r].tok) /\ out' = out \union {req[r].tok}
        /\ UNCHANGED <<timed, idx, used, loose, crashes, revived, dropped, torn>>
    BY <1>a DEF LogoutDel, At
  <2>2. /\ req' \in [Req -> Local] /\ req'[r].pc = "idle" /\ req'[r].todo = {}
        /\ \A q \in Req \ {r} : req'[q] = req[q]
    BY <2>1, <1>0, Moves
  <2>3. req[r].tok \in Tok /\ req[r].tok \in used
    BY <2>1, <1>0
  <2> QED
    BY <2>1, <2>2, <2>3, Drops
<1>b. CASE RevokeDel(r)
  <2>1. req[r].pc = "revDel" /\ Goto(r, "revSrem") /\ Drop(req[r].tok) /\ out' = out
        /\ UNCHANGED <<timed, idx, used, loose, crashes, revived, dropped, torn>>
    BY <1>b DEF RevokeDel, At, history
  <2>2. /\ req' \in [Req -> Local] /\ req'[r].pc = "revSrem" /\ req'[r].tok = req[r].tok
        /\ req'[r].todo = req[r].todo /\ \A q \in Req \ {r} : req'[q] = req[q]
    BY <2>1, <1>0, Moves DEF PC
  <2>3. req[r].tok \in Tok /\ req[r].tok \in used
    BY <2>1, <1>0
  <2> QED
    BY <2>1, <2>2, <2>3, <1>0, Drops
<1>c. CASE OthersDel(r, t)
  <2> DEFINE S == req[r].todo \ {t}
  <2>1. req[r].pc = "others" /\ t \in used /\ S \subseteq used /\ Drop(t) /\ out' = out
        /\ Enter(r, "othersSrem", t, S, FALSE)
        /\ UNCHANGED <<timed, idx, used, loose, crashes, revived, dropped, torn>>
    BY <1>c, <1>0 DEF OthersDel, At, history
  <2>2. /\ req' \in [Req -> Local] /\ req'[r].pc = "othersSrem" /\ req'[r].tok = t
        /\ req'[r].todo = S /\ \A q \in Req \ {r} : req'[q] = req[q]
    <3> HIDE DEF S
    <3> DEFINE l == [pc |-> "othersSrem", tok |-> t, todo |-> S, full |-> FALSE]
    <3>1. l \in Local /\ l.pc = "othersSrem" /\ l.tok = t /\ l.todo = S
      BY <2>1, <1>0 DEF Local, PC
    <3>2. req' = [req EXCEPT ![r] = l]
      BY <2>1 DEF Enter
    <3> HIDE DEF l
    <3> QED
      BY <1>0, <3>1, <3>2
  <2> HIDE DEF S
  <2> QED
    BY <2>1, <2>2, Drops
<1> QED
  BY <1>a, <1>b, <1>c

-----------------------------------------------------------------------------

LEMMA LoginSteps ==
  ASSUME IInv, NEW r \in Req, NEW t \in Tok, LoginSet(r, t) \/ LoginAdd(r) \/ ResolveSet(r)
  PROVE  IInv'
<1>0. /\ req \in [Req -> Local]
      /\ req[r].todo \subseteq used /\ used \subseteq Tok
      /\ req[r].pc \notin {"idle", "others", "list"} => req[r].tok \in used
  BY HeldTokens
<1>a. CASE LoginSet(r, t)
  <2>1. /\ req[r].pc = "idle" /\ t \notin used /\ Enter(r, "sadd", t, {}, FALSE)
        /\ key' = [key EXCEPT ![t] = "new"] /\ used' = used \union {t}
        /\ loose' = loose \union {t}
        /\ UNCHANGED <<timed, idx, crashes, out, revived, dropped, torn>>
    BY <1>a DEF LoginSet, At, history
  <2>2. /\ req' \in [Req -> Local] /\ req'[r].pc = "sadd" /\ req'[r].tok = t
        /\ req'[r].todo = {} /\ \A q \in Req \ {r} : req'[q] = req[q]
    BY <2>1, <1>0, Moves DEF PC
  <2>3. /\ key' \in [Tok -> {"none", "new", "old"}]
        /\ \A u \in Tok \ {t} : key'[u] = key[u]
    BY <2>1 DEF IInv, TypeOK
  <2>4. TypeOK'
    BY <2>1, <2>2, <2>3 DEF IInv, TypeOK
  <2>5. AllIssued'
    <3>1. \A u \in Tok : key'[u] # "none" => u \in used'
      BY <2>1, <2>3 DEF IInv, AllIssued
    <3> QED
      BY <2>1, <2>2, <3>1 DEF IInv, AllIssued
  <2>6. Removing' /\ EndedIsGone'
    <3>1. \A q \in Req : req[q].pc \in {"revSrem", "othersSrem", "listSrem"} =>
             req[q].tok \in Tok \ {t} /\ Dead(req[q].tok)
      BY <2>1, <1>0 DEF IInv, AllIssued, Removing
    <3>2. Removing'
      BY <2>1, <2>2, <2>3, <3>1 DEF Removing, Dead
    <3>3. out \subseteq Tok \ {t}
      BY <2>1, <1>0 DEF IInv, TypeOK
    <3> QED
      BY <2>1, <2>3, <3>2, <3>3 DEF IInv, EndedIsGone
  <2>7. ASSUME NEW u \in Tok, Halfway(u) PROVE Halfway(u)'
    BY <2>1, <2>2, <2>7 DEF Halfway
  <2>8. Halfway(t)'
    BY <2>2 DEF Halfway
  <2>9. Listed'
    BY <2>1, <2>3, <2>7, <2>8 DEF IInv, Listed, Alive
  <2> QED
    BY <2>4, <2>5, <2>6, <2>9 DEF IInv
<1>b. CASE LoginAdd(r)
  <2>1. /\ req[r].pc = "sadd" /\ Goto(r, "expire") /\ idx' = idx \union {req[r].tok}
        /\ UNCHANGED <<timed, key, used, loose, crashes, out, revived, dropped, torn>>
    BY <1>b DEF LoginAdd, At, history
  <2>2. /\ req' \in [Req -> Local] /\ req'[r].pc = "expire" /\ req'[r].tok = req[r].tok
        /\ req'[r].todo = req[r].todo /\ \A q \in Req \ {r} : req'[q] = req[q]
    BY <2>1, <1>0, Moves DEF PC
  <2>3. TypeOK' /\ AllIssued' /\ Removing' /\ EndedIsGone'
    BY <2>1, <2>2, <1>0 DEF IInv, TypeOK, AllIssued, Removing, Dead, EndedIsGone
  <2>4. ASSUME NEW u \in Tok \ {req[r].tok}, Halfway(u) PROVE Halfway(u)'
    BY <2>1, <2>2, <2>4 DEF Halfway
  <2>5. Listed'
    BY <2>1, <2>4 DEF IInv, Listed, Alive
  <2> QED
    BY <2>3, <2>5 DEF IInv
<1>c. CASE ResolveSet(r)
  <2> DEFINE u == req[r].tok
  <2>1. /\ req[r].pc = "touch" /\ Enter(r, "authed", u, {}, FALSE)
        /\ key' = [key EXCEPT ![u] = "new"]
        /\ revived' = IF key[u] = "none" THEN revived \union {u} ELSE revived
        /\ loose' \in {loose, loose \union {u}}
        /\ UNCHANGED <<timed, idx, used, crashes, out, dropped, torn>>
    BY <1>c DEF ResolveSet, At
  <2>3. u \in used /\ u \in Tok
    BY <2>1, <1>0
  <2>2. /\ req' \in [Req -> Local] /\ req'[r].pc = "authed" /\ req'[r].tok = u
        /\ req'[r].todo = {} /\ \A q \in Req \ {r} : req'[q] = req[q]
    BY <2>1, <2>3, <1>0, Moves DEF PC
  <2>h. \A v \in Tok : Halfway(v) => Halfway(v)'
    BY <2>1, <2>2 DEF Halfway
  <2> HIDE DEF u
  <2>4. /\ key' \in [Tok -> {"none", "new", "old"}]
        /\ \A v \in Tok \ {u} : key'[v] = key[v]
        /\ key[u] # "none" \/ u \in revived' 
        /\ revived \subseteq revived' /\ revived' \subseteq Tok
    BY <2>1, <2>3 DEF IInv, TypeOK
  <2>5. TypeOK'
    BY <2>1, <2>2, <2>3, <2>4 DEF IInv, TypeOK
  <2>6. AllIssued'
    <3>1. \A v \in Tok : key'[v] # "none" => v \in used'
      BY <2>1, <2>3, <2>4 DEF IInv, AllIssued
    <3> QED
      BY <2>1, <2>2, <2>3, <3>1 DEF IInv, AllIssued
  <2>7. \A v \in Tok : Dead(v) => Dead(v)'
    BY <2>4 DEF Dead
  <2>8. Removing'
    <3>1. \A q \in Req : req[q].pc \in {"revSrem", "othersSrem", "listSrem"} =>
             req[q].tok \in Tok /\ Dead(req[q].tok)
      BY <1>0 DEF IInv, AllIssued, Removing
    <3> QED
      BY <2>2, <2>7, <3>1 DEF Removing, Dead
  <2>9. EndedIsGone'
    <3>1. out' = out /\ out \subseteq Tok
      BY <2>1, <1>0 DEF IInv, TypeOK
    <3> QED
      BY <3>1, <2>4 DEF IInv, EndedIsGone
  <2>10. Listed'
    BY <2>1, <2>4, <2>h DEF IInv, Listed, Alive
  <2> QED
    BY <2>5, <2>6, <2>8, <2>9, <2>10 DEF IInv
<1> QED
  BY <1>a, <1>b, <1>c

\* Time passes, or the server restarts.
LEMMA OtherSteps ==
  ASSUME IInv, (\E t \in Tok : Age(t) \/ Expire(t)) \/ IndexExpires \/ Crash
  PROVE  IInv'
<1>h. req' = req => \A t \in Tok : Halfway(t)' = Halfway(t)
  BY DEF Halfway
<1>a. ASSUME NEW t \in Tok, Age(t) \/ Expire(t) PROVE IInv'
  <2>1. /\ key[t] # "none" /\ key' = [key EXCEPT ![t] = key'[t]] /\ key'[t] \in {"none", "old"}
        /\ UNCHANGED <<timed, idx, used, loose, req, crashes, out, revived, dropped, torn>>
    BY <1>a DEF IInv, TypeOK, Age, Expire, Drop, history
  <2>2. /\ key' \in [Tok -> {"none", "new", "old"}]
        /\ \A u \in Tok : key'[u] # "none" => key[u] # "none"
    BY <2>1 DEF IInv, TypeOK
  <2>3. TypeOK'
    BY <2>1, <2>2 DEF IInv, TypeOK
  <2>4. AllIssued'
    BY <2>1, <2>2 DEF IInv, AllIssued
  <2>5. Removing'
    <3>1. \A q \in Req : req[q].pc \in {"revSrem", "othersSrem", "listSrem"} =>
             req[q].tok \in Tok /\ Dead(req[q].tok)
      BY DEF IInv, AllIssued, Removing, TypeOK
    <3> QED
      BY <2>1, <2>2, <3>1 DEF Removing, Dead
  <2>6. EndedIsGone'
    BY <2>1, <2>2 DEF IInv, TypeOK, EndedIsGone
  <2>7. Listed'
    BY <2>1, <2>2, <1>h DEF IInv, Listed, Alive
  <2> QED
    BY <2>3, <2>4, <2>5, <2>6, <2>7 DEF IInv
<1>b. CASE IndexExpires
  <2>1. /\ idx' = {} /\ timed' = FALSE /\ dropped' = dropped \union idx
        /\ UNCHANGED <<key, used, loose, req, crashes, out, revived, torn>>
    BY <1>b DEF IndexExpires
  <2>2. TypeOK' /\ AllIssued' /\ Removing' /\ EndedIsGone'
    BY <2>1 DEF IInv, TypeOK, AllIssued, Removing, Dead, EndedIsGone
  <2>3. Listed'
    BY <2>1, <1>h DEF IInv, Listed, Alive
  <2> QED
    BY <2>2, <2>3 DEF IInv
<1>c. CASE Crash
  <2>1. /\ req' = [q \in Req |-> Idle] /\ crashes' = crashes + 1
        /\ torn' = torn \union {t \in Tok : Halfway(t)}
        /\ UNCHANGED <<key, idx, used, timed, loose, out, revived, dropped>>
    BY <1>c DEF Crash, store
  <2>2. req' \in [Req -> Local] /\ \A q \in Req : req'[q].pc = "idle" /\ req'[q].todo = {}
    BY <2>1, IdleType
  <2>3. TypeOK'
    BY <2>1, <2>2 DEF IInv, TypeOK
  <2>4. AllIssued' /\ Removing' /\ EndedIsGone'
    BY <2>1, <2>2 DEF IInv, AllIssued, Removing, EndedIsGone
  <2>5. Listed'
    BY <2>1 DEF IInv, Listed, Alive
  <2> QED
    BY <2>3, <2>4, <2>5 DEF IInv
<1> QED
  BY <1>a, <1>b, <1>c

-----------------------------------------------------------------------------

LEMMA InitIInv == Init => IInv
<1> SUFFICES ASSUME Init PROVE IInv
  OBVIOUS
<1>1. TypeOK
  BY IdleType DEF Init, TypeOK
<1>2. AllIssued /\ Removing /\ EndedIsGone /\ Listed
  BY IdleType DEF Init, AllIssued, Removing, EndedIsGone, Listed, Alive
<1> QED
  BY <1>1, <1>2 DEF IInv

LEMMA StepIInv == IInv /\ [Next]_vars => IInv'
<1> SUFFICES ASSUME IInv, [Next]_vars PROVE IInv'
  OBVIOUS
<1>1. CASE Next
  <2>1. ASSUME NEW r \in Req, NEW t \in Tok,
               \/ LoginSet(r, t) \/ ResolveGet(r, t) \/ LogoutGet(r, t) \/ Revoke(r, t)
               \/ OthersDel(r, t) \/ ListGet(r, t)
        PROVE  IInv'
    BY <2>1, SessionsStill, DropSteps, LoginSteps
  <2>2. ASSUME NEW r \in Req,
               \/ LoginAdd(r) \/ LoginExpire(r) \/ ResolveTtl(r) \/ ResolveSet(r)
               \/ LogoutSrem(r) \/ LogoutDel(r) \/ RevokeDel(r) \/ RevokeSrem(r)
               \/ OthersSrem(r) \/ ListSrem(r) \/ OtherRoute(r) \/ Others(r) \/ List(r)
        PROVE  IInv'
    <3>1. PICK t \in Tok : TRUE
      <4>1. req[r].pc \notin {"idle", "others", "list"}
        BY <2>2 DEF LoginAdd, LoginExpire, ResolveTtl, ResolveSet, LogoutSrem, LogoutDel, RevokeDel,
                    RevokeSrem, OthersSrem, ListSrem, OtherRoute, Others, List, At
      <4> QED
        BY <4>1, HeldTokens
    <3> QED
      BY <2>2, SessionsStill, RemoveSteps, DropSteps, LoginSteps
  <2>3. CASE (\E t \in Tok : Age(t) \/ Expire(t)) \/ IndexExpires \/ Crash
    BY <2>3, OtherSteps
  <2> QED
    BY <1>1, <2>1, <2>2, <2>3 DEF Next
<1>2. CASE UNCHANGED vars
  BY <1>2 DEF vars, IInv, TypeOK, AllIssued, Removing, Dead, EndedIsGone, Listed, Alive, Halfway
<1> QED
  BY <1>1, <1>2

LEMMA Invariance == Spec => []IInv
<1> QED
  BY InitIInv, StepIInv, PTL DEF Spec

\* Keys, index and handlers have their types: an index with a time to live
\* has members, and every member was issued.
THEOREM TypeCorrect == Spec => []TypeOK
<1>1. IInv => TypeOK
  BY DEF IInv
<1> QED
  BY <1>1, Invariance, PTL

\* A session whose logout or revocation was acknowledged is over, unless a
\* request that used it at that moment wrote it back.
THEOREM EndedStaysGone == Spec => []EndedIsGone
<1>1. IInv => EndedIsGone
  BY DEF IInv
<1> QED
  BY <1>1, Invariance, PTL

\* Every live session can be listed and revoked, but for the four gaps that
\* Listed names.
THEOREM AlwaysListed == Spec => []Listed
<1>1. IInv => Listed
  BY DEF IInv
<1> QED
  BY <1>1, Invariance, PTL

-----------------------------------------------------------------------------
(***************************************************************************)
(* WebmailLogin.                                                           *)
(***************************************************************************)

LoginPc == {"free", "resend", "answer", "code", "wrong", "passed", "session", "enable"}
Holding == {"resend", "answer", "code", "passed"}

LoginTyped ==
  /\ last \in 0 .. MaxSecrets /\ secret \in 0 .. last /\ checked \subseteq 1 .. last
  /\ codes \subseteq Issued(last) /\ overlap \subseteq Code /\ uses \in [Code -> Nat]
  /\ totpOn \in BOOLEAN /\ swapped \in BOOLEAN
  /\ chal \in [Challenge -> Payload] /\ handler \in [Handler -> Request]
  /\ known \subseteq Challenge /\ reopened \subseteq Challenge /\ extended \subseteq Challenge
  /\ wrong \in [Challenge -> Nat] /\ logins \in [Challenge -> Nat]
  /\ answers \in [Challenge -> Nat] /\ resends \in [Challenge -> Nat]

\* A request at work has the token of a challenge that was given out, and what
\* it read of the codes was issued.
TokensKnown ==
  /\ \A h \in Handler : handler[h].at \notin {"free", "enable"} => handler[h].token \in known
  /\ \A t \in Challenge : logins[t] > 0 \/ Open(t) => t \in known

\* A challenge that was not taken twice is held by one request at most, and by
\* none once a session has come of it or is about to.
Spent(t) == logins[t] > 0 \/ \E h \in Handler : Is(h, "session") /\ handler[h].token = t

TakenOnce ==
  \A t \in Challenge \ reopened :
    /\ \A g, h \in Handler : Holds(g, t) /\ Holds(h, t) => g = h
    /\ Spent(t) => ~Open(t) /\ \A h \in Handler : ~Holds(h, t)
    /\ \A g, h \in Handler :
         Is(g, "session") /\ handler[g].token = t /\ Is(h, "session") /\ handler[h].token = t
           => g = h
    /\ logins[t] > 0 => \A h \in Handler : ~(Is(h, "session") /\ handler[h].token = t)

\* The one request that has read the list of codes holds it as it is.
ListHeld ==
  /\ \A h \in Handler : Reads(h) => handler[h].list \subseteq Issued(last)
                                    /\ handler[h].code \in handler[h].list
  /\ \A c \in Issued(last) \ overlap :
       /\ \A g, h \in Handler : Reads(g) /\ Reads(h) => g = h
       /\ \A h \in Handler : Reads(h) => (c \in handler[h].list <=> c \in codes)
  /\ \A c \in Code : uses[c] > 0 => c \in Issued(last) /\ (c \in overlap \/ c \notin codes)

EnablingProved == \A h \in Handler : Is(h, "enable") => secret \in checked \/ swapped

LoginInv ==
  /\ LoginTyped /\ TokensKnown
  /\ TakenOnce /\ ChallengeOnce
  /\ ListHeld /\ RecoveryOnce
  /\ EnablingProved /\ AskedIsProved

LEMMA IssuedCodes ==
  /\ \A s \in 0 .. MaxSecrets : Issued(s) \subseteq Code
  /\ \A s \in 0 .. MaxSecrets : s < MaxSecrets =>
       /\ Issued(s + 1) = Issued(s) \cup NewCodes(s + 1)
       /\ Issued(s) \cap NewCodes(s + 1) = {}
BY WebmailLoginAssumption DEF Issued, Code, NewCodes

LEMMA FreeType == Free \in Request /\ Free.at = "free"
BY DEF Free, Request, Payload

\* The four ways in which a request's variables change.
LEMMA HandlerMoves ==
  ASSUME handler \in [Handler -> Request], NEW h \in Handler
  PROVE  /\ \A at \in LoginPc : Now(h, at) =>
              /\ handler' \in [Handler -> Request]
              /\ handler'[h].at = at
              /\ handler'[h].token = handler[h].token /\ handler'[h].read = handler[h].read
              /\ handler'[h].code = handler[h].code /\ handler'[h].list = handler[h].list
              /\ \A g \in Handler \ {h} : handler'[g] = handler[g]
         /\ Finish(h) =>
              /\ handler' \in [Handler -> Request] /\ handler'[h].at = "free"
              /\ \A g \in Handler \ {h} : handler'[g] = handler[g]
<1>1. ASSUME NEW at \in LoginPc, Now(h, at)
      PROVE  /\ handler' \in [Handler -> Request]
             /\ handler'[h].at = at
             /\ handler'[h].token = handler[h].token /\ handler'[h].read = handler[h].read
             /\ handler'[h].code = handler[h].code /\ handler'[h].list = handler[h].list
             /\ \A g \in Handler \ {h} : handler'[g] = handler[g]
  BY <1>1 DEF Now, Request, LoginPc
<1>2. ASSUME Finish(h)
      PROVE  /\ handler' \in [Handler -> Request] /\ handler'[h].at = "free"
             /\ \A g \in Handler \ {h} : handler'[g] = handler[g]
  BY <1>2, FreeType DEF Finish
<1>3. QED
  BY <1>1, <1>2

LEMMA TakeMoves ==
  ASSUME LoginTyped, NEW h \in Handler, NEW t \in Challenge, NEW at \in LoginPc, Take(h, t, at)
  PROVE  /\ handler' \in [Handler -> Request]
         /\ handler'[h].at = at /\ handler'[h].token = t
         /\ \A g \in Handler \ {h} : handler'[g] = handler[g]
         /\ handler[h].at = "free" /\ Open(t)
         /\ reopened' \subseteq Challenge /\ reopened \subseteq reopened'
         /\ t \notin reopened' => \A g \in Handler \ {h} : ~Holds(g, t)
<1> DEFINE new == [at |-> at, token |-> t, read |-> chal[t], code |-> <<0, 0>>, list |-> {}]
<1>1. new \in Request /\ new.at = at /\ new.token = t
  BY DEF LoginTyped, Request, LoginPc
<1>2. handler' = [handler EXCEPT ![h] = new]
  BY DEF Take
<1> HIDE DEF new
<1>3. QED
  BY <1>1, <1>2 DEF Take, Is, LoginTyped

LEMMA CodeReadMoves ==
  ASSUME LoginTyped, NEW h \in Handler, NEW c \in Code, CodeRead(h, c)
  PROVE  /\ handler' \in [Handler -> Request]
         /\ handler'[h].at = "code" /\ handler'[h].token = handler[h].token
         /\ handler'[h].code = c /\ handler'[h].list = codes
         /\ \A g \in Handler \ {h} : handler'[g] = handler[g]
         /\ handler[h].at = "answer" /\ c \in codes
<1> DEFINE new == [at |-> "code", token |-> handler[h].token, read |-> handler[h].read,
                   code |-> c, list |-> codes]
<1>1. codes \subseteq Code
  BY IssuedCodes DEF LoginTyped
<1>2. new \in Request /\ new.at = "code" /\ new.token = handler[h].token
      /\ new.code = c /\ new.list = codes
  BY <1>1 DEF LoginTyped, Request
<1>3. handler' = [handler EXCEPT ![h] = new]
  BY DEF CodeRead
<1> HIDE DEF new
<1>4. QED
  BY <1>2, <1>3 DEF CodeRead, Is, LoginTyped

\* Types.
LEMMA TypesKept ==
  ASSUME LoginTyped, TokensKnown, ListHeld, LoginNext
  PROVE  LoginTyped'
<1>1. ASSUME NEW t \in Challenge, Login(t) \/ ChallengeExpires(t) \/ CounterExpires(t)
      PROVE  LoginTyped'
  <2>1. CASE Login(t)
    BY <2>1 DEF Login, LoginTyped, Payload, factors, loginHistory, codeFate, chalFate
  <2>2. CASE ChallengeExpires(t)
    BY <2>2 DEF ChallengeExpires, LoginTyped, Payload, factors, loginHistory, codeFate, chalFate
  <2>3. CASE CounterExpires(t)
    BY <2>3 DEF CounterExpires, LoginTyped, factors, codeFate
  <2>4. QED
    BY <1>1, <2>1, <2>2, <2>3
<1>2. CASE SetupTotp
  <2>1. last' = last + 1 /\ last' \in 0 .. MaxSecrets /\ codes' = NewCodes(last') /\ secret' = last'
    BY <1>2, WebmailLoginAssumption DEF SetupTotp, NewSecret, LoginTyped
  <2>2. codes' \subseteq Issued(last') /\ overlap' \subseteq Code
    BY <1>2, <2>1, IssuedCodes DEF SetupTotp, LoginTyped, NewCodes, Issued
  <2>3. checked \subseteq 1 .. last'
    BY <2>1, WebmailLoginAssumption DEF LoginTyped
  <2>4. swapped' \in BOOLEAN /\ totpOn' \in BOOLEAN
    BY <1>2 DEF SetupTotp, NewSecret
  <2>5. UNCHANGED <<challenges, handler, uses, chalFate, checked>>
    BY <1>2 DEF SetupTotp, NewSecret
  <2>6. QED
    BY <2>1, <2>2, <2>3, <2>4, <2>5 DEF LoginTyped, challenges, chalFate
<1>3. CASE DisableTotp
  <2>1. swapped' \in BOOLEAN /\ totpOn' \in BOOLEAN
    BY <1>3 DEF DisableTotp, NewSecret
  <2>2. /\ secret' = 0 /\ UNCHANGED <<last, codes, overlap>>
        /\ UNCHANGED <<challenges, handler, uses, chalFate, checked>>
    BY <1>3 DEF DisableTotp, NewSecret
  <2>3. secret' \in 0 .. last'
    BY <2>2 DEF LoginTyped
  <2>4. QED
    BY <2>1, <2>2, <2>3 DEF LoginTyped, challenges, chalFate
<1>4. ASSUME NEW h \in Handler, NEW t \in Challenge, ResendGet(h, t) \/ AnswerGet(h, t)
      PROVE  LoginTyped'
  <2>1. \E at \in LoginPc : Take(h, t, at)
    BY <1>4 DEF ResendGet, AnswerGet, LoginPc
  <2>2. handler' \in [Handler -> Request] /\ reopened' \subseteq Challenge
    BY <2>1, TakeMoves
  <2>3. CASE ResendGet(h, t)
    BY <2>2, <2>3 DEF ResendGet, LoginTyped, factors, challenges, codeFate
  <2>4. CASE AnswerGet(h, t)
    BY <2>2, <2>4 DEF AnswerGet, LoginTyped, factors, challenges, codeFate
  <2>5. QED
    BY <1>4, <2>3, <2>4
<1>5. ASSUME NEW h \in Handler, NEW c \in Code, CodeRead(h, c)
      PROVE  LoginTyped'
  <2>1. handler' \in [Handler -> Request]
    BY <1>5, CodeReadMoves
  <2>2. overlap' \subseteq Code
    BY <1>5, IssuedCodes DEF CodeRead, LoginTyped
  <2>3. QED
    BY <1>5, <2>1, <2>2 DEF CodeRead, LoginTyped, factors, challenges, chalFate
<1>6. ASSUME NEW h \in Handler, ResendSet(h) \/ AnswerWrong(h) \/ WrongCounted(h) \/ AnswerDel(h)
                                \/ SessionIssued(h)
      PROVE  LoginTyped'
  <2>1. handler[h].token \in Challenge /\ handler[h].read \in Payload
    BY <1>6 DEF TokensKnown, LoginTyped, ResendSet, AnswerWrong, WrongCounted, AnswerDel,
                SessionIssued, Is, Request
  <2>2. handler' \in [Handler -> Request]
    BY <1>6, HandlerMoves DEF LoginTyped, ResendSet, AnswerWrong, WrongCounted, AnswerDel,
                              SessionIssued, LoginPc
  <2>3. CASE ResendSet(h)
    BY <2>1, <2>2, <2>3 DEF ResendSet, LoginTyped, factors, codeFate
  <2>4. CASE AnswerWrong(h)
    BY <2>1, <2>2, <2>4 DEF AnswerWrong, LoginTyped, factors, codeFate
  <2>5. CASE WrongCounted(h)
    BY <2>1, <2>2, <2>5 DEF WrongCounted, LoginTyped, Payload, factors, loginHistory, codeFate, chalFate
  <2>6. CASE AnswerDel(h)
    BY <2>1, <2>2, <2>6 DEF AnswerDel, LoginTyped, Payload, factors, loginHistory, codeFate, chalFate
  <2>7. CASE SessionIssued(h)
    BY <2>1, <2>2, <2>7 DEF SessionIssued, LoginTyped, factors, challenges, codeFate
  <2>8. QED
    BY <1>6, <2>3, <2>4, <2>5, <2>6, <2>7
<1>7. ASSUME NEW h \in Handler, AnswerRight(h)
      PROVE  LoginTyped'
  <2>1. handler' \in [Handler -> Request]
    BY <1>7, HandlerMoves DEF LoginTyped, AnswerRight, LoginPc
  <2>2. QED
    BY <1>7, <2>1 DEF AnswerRight, LoginTyped, factors, challenges, loginHistory, codeFate, chalFate
<1>8. ASSUME NEW h \in Handler, CodeWrite(h)
      PROVE  LoginTyped'
  <2>1. handler' \in [Handler -> Request]
    BY <1>8, HandlerMoves DEF LoginTyped, CodeWrite, LoginPc
  <2>2. codes' \subseteq Issued(last) /\ handler[h].code \in Code
    BY <1>8, IssuedCodes DEF CodeWrite, ListHeld, Reads, LoginTyped
  <2>3. QED
    BY <1>8, <2>1, <2>2 DEF CodeWrite, LoginTyped, challenges, chalFate
<1>9. ASSUME NEW h \in Handler, EnableCheck(h)
      PROVE  LoginTyped'
  <2>1. handler' \in [Handler -> Request]
    <3>1. Now(h, "enable") /\ "enable" \in LoginPc
      BY <1>9 DEF EnableCheck, Now, LoginPc
    <3>2. QED
      BY <3>1, HandlerMoves DEF LoginTyped
  <2>2. checked' \subseteq 1 .. last
    BY <1>9 DEF EnableCheck, LoginTyped
  <2>3. QED
    BY <1>9, <2>1, <2>2 DEF EnableCheck, LoginTyped, factors, challenges, codeFate, chalFate
<1>10. ASSUME NEW h \in Handler, EnableSet(h)
      PROVE  LoginTyped'
  <2>1. handler' \in [Handler -> Request]
    BY <1>10, HandlerMoves DEF EnableSet, LoginTyped
  <2>2. QED
    BY <1>10, <2>1 DEF EnableSet, LoginTyped, challenges, loginHistory, codeFate, chalFate
<1>11. QED
  BY <1>1, <1>2, <1>3, <1>4, <1>5, <1>6, <1>7, <1>8, <1>9, <1>10 DEF LoginNext

\* A step of a request that takes nothing new and opens nothing.
LEMMA QuietSteps ==
  ASSUME LoginTyped, NEW h \in Handler
  PROVE  /\ AnswerRight(h) \/ AnswerWrong(h) \/ CodeWrite(h) \/ (\E c \in Code : CodeRead(h, c)) =>
              /\ UNCHANGED <<chal, logins, reopened, known>>
              /\ handler'[h].token = handler[h].token
              /\ handler[h].at \in Holding /\ handler'[h].at \notin {"session", "enable"}
              /\ \A g \in Handler \ {h} : handler'[g] = handler[g]
         /\ WrongCounted(h) \/ EnableSet(h) =>
              /\ UNCHANGED <<logins, reopened, known>>
              /\ \A t \in Challenge : Open(t)' => Open(t)
              /\ handler'[h].at = "free"
              /\ \A g \in Handler \ {h} : handler'[g] = handler[g]
         /\ EnableCheck(h) =>
              /\ UNCHANGED <<chal, logins, reopened, known>>
              /\ handler'[h].at = "enable"
              /\ \A g \in Handler \ {h} : handler'[g] = handler[g]
<1>0. handler \in [Handler -> Request]
  BY DEF LoginTyped
<1>1. ASSUME AnswerRight(h)
      PROVE  /\ UNCHANGED <<chal, logins, reopened, known>>
             /\ handler'[h].token = handler[h].token
             /\ handler[h].at \in Holding /\ handler'[h].at \notin {"session", "enable"}
             /\ \A g \in Handler \ {h} : handler'[g] = handler[g]
  <2>1. "passed" \in LoginPc /\ Now(h, "passed")
    BY <1>1 DEF AnswerRight, LoginPc
  <2>2. QED
    BY <1>0, <1>1, <2>1, HandlerMoves DEF AnswerRight, Is, Holding, challenges, loginHistory, chalFate
<1>2. ASSUME AnswerWrong(h)
      PROVE  /\ UNCHANGED <<chal, logins, reopened, known>>
             /\ handler'[h].token = handler[h].token
             /\ handler[h].at \in Holding /\ handler'[h].at \notin {"session", "enable"}
             /\ \A g \in Handler \ {h} : handler'[g] = handler[g]
  <2>1. "wrong" \in LoginPc /\ Now(h, "wrong")
    BY <1>2 DEF AnswerWrong, LoginPc
  <2>2. QED
    BY <1>0, <1>2, <2>1, HandlerMoves DEF AnswerWrong, Is, Holding
<1>3. ASSUME CodeWrite(h)
      PROVE  /\ UNCHANGED <<chal, logins, reopened, known>>
             /\ handler'[h].token = handler[h].token
             /\ handler[h].at \in Holding /\ handler'[h].at \notin {"session", "enable"}
             /\ \A g \in Handler \ {h} : handler'[g] = handler[g]
  <2>1. "passed" \in LoginPc /\ Now(h, "passed")
    BY <1>3 DEF CodeWrite, LoginPc
  <2>2. QED
    BY <1>0, <1>3, <2>1, HandlerMoves DEF CodeWrite, Is, Holding, challenges, chalFate
<1>4. ASSUME NEW c \in Code, CodeRead(h, c)
      PROVE  /\ UNCHANGED <<chal, logins, reopened, known>>
             /\ handler'[h].token = handler[h].token
             /\ handler[h].at \in Holding /\ handler'[h].at \notin {"session", "enable"}
             /\ \A g \in Handler \ {h} : handler'[g] = handler[g]
  BY <1>4, CodeReadMoves DEF CodeRead, Holding, challenges, chalFate
<1>5. ASSUME WrongCounted(h) \/ EnableSet(h)
      PROVE  /\ UNCHANGED <<logins, reopened, known>>
             /\ \A t \in Challenge : Open(t)' => Open(t)
             /\ handler'[h].at = "free"
             /\ \A g \in Handler \ {h} : handler'[g] = handler[g]
  <2>1. Finish(h)
    BY <1>5 DEF WrongCounted, EnableSet
  <2>2. \A t \in Challenge : Open(t)' => Open(t)
    BY <1>5 DEF WrongCounted, EnableSet, Open, challenges, LoginTyped
  <2>3. QED
    BY <1>0, <1>5, <2>1, <2>2, HandlerMoves
       DEF WrongCounted, EnableSet, challenges, loginHistory, chalFate
<1>6. ASSUME EnableCheck(h)
      PROVE  /\ UNCHANGED <<chal, logins, reopened, known>>
             /\ handler'[h].at = "enable"
             /\ \A g \in Handler \ {h} : handler'[g] = handler[g]
  BY <1>0, <1>6 DEF EnableCheck, challenges, chalFate, Request
<1>7. QED
  BY <1>1, <1>2, <1>3, <1>4, <1>5, <1>6

\* A step in which no request newly holds a challenge and none reopens.
LEMMA TakenWeakens ==
  ASSUME TakenOnce,
         \A g \in Handler, t \in Challenge : Holds(g, t)' => Holds(g, t),
         \A g \in Handler, t \in Challenge :
           (Is(g, "session") /\ handler[g].token = t)' => Is(g, "session") /\ handler[g].token = t,
         \A t \in Challenge : Open(t)' => Open(t),
         logins' = logins, reopened' = reopened
  PROVE  TakenOnce'
BY DEF TakenOnce, Spent

LEMMA TokensKept ==
  ASSUME LoginTyped, TokensKnown, LoginNext
  PROVE  TokensKnown'
<1>1. ASSUME NEW t \in Challenge, Login(t)
      PROVE  TokensKnown'
  <2>1. /\ known' = known \cup {t} /\ UNCHANGED <<handler, logins>>
        /\ \A u \in Challenge \ {t} : chal'[u] = chal[u]
    BY <1>1 DEF Login, loginHistory, chalFate, LoginTyped
  <2>2. QED
    BY <2>1 DEF TokensKnown, Open
<1>2. ASSUME NEW t \in Challenge, ChallengeExpires(t)
      PROVE  TokensKnown'
  <2>1. /\ UNCHANGED <<known, handler, logins>>
        /\ \A u \in Challenge : Open(u)' => Open(u)
    BY <1>2 DEF ChallengeExpires, loginHistory, chalFate, LoginTyped, Open
  <2>2. QED
    BY <2>1 DEF TokensKnown
<1>3. ASSUME NEW t \in Challenge, CounterExpires(t)
      PROVE  TokensKnown'
  BY <1>3 DEF CounterExpires, TokensKnown, Open
<1>4. CASE SetupTotp \/ DisableTotp
  <2>1. UNCHANGED <<chal, known, handler, logins>>
    BY <1>4 DEF SetupTotp, DisableTotp, NewSecret, challenges, chalFate
  <2>2. QED
    BY <2>1 DEF TokensKnown, Open
<1>5. ASSUME NEW h \in Handler, NEW t \in Challenge, ResendGet(h, t) \/ AnswerGet(h, t)
      PROVE  TokensKnown'
  <2>1. PICK at \in LoginPc : Take(h, t, at)
    BY <1>5 DEF ResendGet, AnswerGet, LoginPc
  <2>2. /\ handler'[h].token = t /\ Open(t)
        /\ \A g \in Handler \ {h} : handler'[g] = handler[g]
    BY <2>1, TakeMoves
  <2>3. UNCHANGED <<chal, known, logins>>
    BY <1>5 DEF ResendGet, AnswerGet, challenges
  <2>4. QED
    BY <2>2, <2>3 DEF TokensKnown, Open
<1>6. ASSUME NEW h \in Handler, ResendSet(h) \/ AnswerDel(h)
      PROVE  TokensKnown'
  <2>1. /\ handler[h].at \notin {"free", "enable"} /\ UNCHANGED <<known, logins>>
        /\ handler'[h].at = "free" \/ handler'[h].token = handler[h].token
        /\ \A g \in Handler \ {h} : handler'[g] = handler[g]
    BY <1>6, HandlerMoves DEF ResendSet, AnswerDel, LoginTyped, Is, LoginPc, loginHistory, chalFate
  <2>2. \A t \in Challenge : Open(t)' => Open(t) \/ t = handler[h].token
    BY <1>6 DEF ResendSet, AnswerDel, Open, LoginTyped
  <2>3. QED
    BY <2>1, <2>2 DEF TokensKnown
<1>7. ASSUME NEW h \in Handler, SessionIssued(h)
      PROVE  TokensKnown'
  <2>1. /\ handler[h].at = "session" /\ UNCHANGED <<chal, known>>
        /\ handler'[h].at = "free"
        /\ \A g \in Handler \ {h} : handler'[g] = handler[g]
    BY <1>7, HandlerMoves DEF SessionIssued, LoginTyped, Is, challenges
  <2>2. \A t \in Challenge : logins'[t] > 0 => logins[t] > 0 \/ t = handler[h].token
    BY <1>7 DEF SessionIssued, LoginTyped
  <2>3. QED
    BY <2>1, <2>2 DEF TokensKnown, Open
<1>8. ASSUME NEW h \in Handler,
             AnswerRight(h) \/ AnswerWrong(h) \/ CodeWrite(h) \/ (\E c \in Code : CodeRead(h, c))
      PROVE  TokensKnown'
  BY <1>8, QuietSteps DEF TokensKnown, Holding, Open
<1>9. ASSUME NEW h \in Handler, WrongCounted(h) \/ EnableSet(h)
      PROVE  TokensKnown'
  BY <1>9, QuietSteps DEF TokensKnown
<1>10. ASSUME NEW h \in Handler, EnableCheck(h)
      PROVE  TokensKnown'
  BY <1>10, QuietSteps DEF TokensKnown, Open
<1>11. QED
  BY <1>1, <1>2, <1>3, <1>4, <1>5, <1>6, <1>7, <1>8, <1>9, <1>10 DEF LoginNext

LEMMA TakenKept ==
  ASSUME LoginTyped, TokensKnown, TakenOnce, ChallengeOnce, LoginNext
  PROVE  TakenOnce' /\ ChallengeOnce'
<1>1. ASSUME NEW t \in Challenge, Login(t)
      PROVE  TakenOnce' /\ ChallengeOnce'
  <2>1. /\ t \notin known /\ UNCHANGED <<handler, logins, reopened>>
        /\ \A u \in Challenge \ {t} : chal'[u] = chal[u]
    BY <1>1 DEF Login, loginHistory, chalFate, LoginTyped
  <2>2. \A h \in Handler : ~Holds(h, t) /\ ~(Is(h, "session") /\ handler[h].token = t)
    BY <2>1 DEF TokensKnown, Holds, Is
  <2>3. ~(logins[t] > 0)
    BY <2>1 DEF TokensKnown
  <2>4. \A u \in Challenge \ {t} : Open(u)' => Open(u)
    BY <2>1 DEF Open
  <2>5. TakenOnce'
    BY <2>1, <2>2, <2>3, <2>4 DEF TakenOnce, Spent, Holds, Is
  <2>6. QED
    BY <2>1, <2>5 DEF ChallengeOnce
<1>2. ASSUME NEW t \in Challenge, ChallengeExpires(t)
      PROVE  TakenOnce' /\ ChallengeOnce'
  <2>1. /\ UNCHANGED <<handler, logins, reopened>>
        /\ \A u \in Challenge : Open(u)' => Open(u)
    BY <1>2 DEF ChallengeExpires, loginHistory, chalFate, LoginTyped, Open
  <2>2. TakenOnce'
    BY <2>1, TakenWeakens DEF Holds, Is
  <2>3. QED
    BY <2>1, <2>2 DEF ChallengeOnce
<1>3. ASSUME UNCHANGED <<chal, handler, logins, reopened>>
      PROVE  TakenOnce' /\ ChallengeOnce'
  BY <1>3 DEF TakenOnce, ChallengeOnce, Spent, Holds, Is, Open
<1>4. ASSUME NEW h \in Handler, NEW t \in Challenge, ResendGet(h, t) \/ AnswerGet(h, t)
      PROVE  TakenOnce' /\ ChallengeOnce'
  <2>1. PICK at \in {"resend", "answer"} : Take(h, t, at)
    BY <1>4 DEF ResendGet, AnswerGet
  <2>2. at \in LoginPc
    BY DEF LoginPc
  <2>3. /\ handler'[h].at = at /\ handler'[h].token = t
        /\ \A g \in Handler \ {h} : handler'[g] = handler[g]
        /\ handler[h].at = "free" /\ Open(t)
        /\ reopened \subseteq reopened'
        /\ t \notin reopened' => \A g \in Handler \ {h} : ~Holds(g, t)
    BY <2>1, <2>2, TakeMoves
  <2>4. UNCHANGED <<chal, logins>>
    BY <1>4 DEF ResendGet, AnswerGet, challenges
  <2>5. ASSUME NEW u \in Challenge \ reopened', u # t
        PROVE  /\ \A g \in Handler : Holds(g, u)' => Holds(g, u)
               /\ \A g \in Handler : (Is(g, "session") /\ handler[g].token = u)'
                                       => Is(g, "session") /\ handler[g].token = u
    BY <2>3, <2>5 DEF Holds, Is
  <2>6. ASSUME t \notin reopened'
        PROVE  /\ \A g \in Handler : Holds(g, t)' => g = h
               /\ \A g \in Handler : ~(Is(g, "session") /\ handler[g].token = t)'
               /\ ~(logins[t] > 0)
    <3>1. ~Spent(t)
      BY <2>3, <2>6 DEF TakenOnce
    <3>2. QED
      BY <2>3, <2>6, <3>1 DEF Holds, Is, Spent
  <2>7. TakenOnce'
    BY <2>3, <2>4, <2>5, <2>6 DEF TakenOnce, Spent, Open
  <2>8. QED
    BY <2>3, <2>4, <2>7 DEF ChallengeOnce
<1>5. ASSUME NEW h \in Handler, ResendSet(h)
      PROVE  TakenOnce' /\ ChallengeOnce'
  <2> DEFINE t == handler[h].token
  <2>1. /\ Holds(h, t) /\ t \in Challenge /\ UNCHANGED <<logins, reopened>>
        /\ handler'[h].at = "free"
        /\ \A g \in Handler \ {h} : handler'[g] = handler[g]
        /\ \A u \in Challenge \ {t} : chal'[u] = chal[u]
    BY <1>5, HandlerMoves DEF ResendSet, LoginTyped, Is, Holds, TokensKnown
  <2>2. t \notin reopened => ~Spent(t) /\ \A g \in Handler : Holds(g, t) => g = h
    BY <2>1 DEF TakenOnce
  <2>3. QED
    BY <2>1, <2>2 DEF TakenOnce, Spent, Holds, Is, Open, ChallengeOnce
<1>6. ASSUME NEW h \in Handler, AnswerDel(h)
      PROVE  TakenOnce' /\ ChallengeOnce'
  <2> DEFINE t == handler[h].token
  <2>1. /\ Holds(h, t) /\ t \in Challenge /\ UNCHANGED <<logins, reopened>>
        /\ handler'[h].at = "session" /\ handler'[h].token = t
        /\ \A g \in Handler \ {h} : handler'[g] = handler[g]
        /\ \A u \in Challenge \ {t} : chal'[u] = chal[u]
        /\ chal'[t] = "void"
    BY <1>6, HandlerMoves DEF AnswerDel, LoginTyped, Is, Holds, TokensKnown, LoginPc, loginHistory, chalFate
  <2>2. t \notin reopened => ~Spent(t) /\ \A g \in Handler : Holds(g, t) => g = h
    BY <2>1 DEF TakenOnce
  <2> HIDE DEF t
  <2>3. QED
    BY <2>1, <2>2 DEF TakenOnce, Spent, Holds, Is, Open, ChallengeOnce
<1>7. ASSUME NEW h \in Handler, SessionIssued(h)
      PROVE  TakenOnce' /\ ChallengeOnce'
  <2> DEFINE t == handler[h].token
  <2>1. /\ Is(h, "session") /\ t \in Challenge /\ UNCHANGED <<chal, reopened>>
        /\ handler'[h].at = "free"
        /\ \A g \in Handler \ {h} : handler'[g] = handler[g]
        /\ logins' = [logins EXCEPT ![t] = @ + 1]
    BY <1>7, HandlerMoves DEF SessionIssued, LoginTyped, Is, TokensKnown, challenges
  <2>2. t \notin reopened =>
          /\ logins[t] = 0 /\ ~Open(t) /\ \A g \in Handler : ~Holds(g, t)
          /\ \A g \in Handler : Is(g, "session") /\ handler[g].token = t => g = h
    BY <2>1 DEF TakenOnce, Spent, LoginTyped
  <2> HIDE DEF t
  <2>3. logins'[t] = logins[t] + 1 /\ \A u \in Challenge \ {t} : logins'[u] = logins[u]
    BY <2>1 DEF LoginTyped
  <2>4. ChallengeOnce'
    BY <2>1, <2>2, <2>3 DEF ChallengeOnce
  <2>5. ASSUME NEW u \in Challenge \ reopened
        PROVE  /\ \A g, k \in Handler : Holds(g, u)' /\ Holds(k, u)' => g = k
               /\ Spent(u)' => ~Open(u)' /\ \A g \in Handler : ~Holds(g, u)'
               /\ \A g, k \in Handler :
                    (Is(g, "session") /\ handler[g].token = u)'
                    /\ (Is(k, "session") /\ handler[k].token = u)' => g = k
               /\ logins'[u] > 0 => \A g \in Handler : ~(Is(g, "session") /\ handler[g].token = u)'
    <3>1. CASE u = t
      BY <2>1, <2>2, <3>1 DEF Holds, Is, Open, Spent
    <3>2. CASE u # t
      BY <2>1, <2>3, <3>2 DEF TakenOnce, Holds, Is, Open, Spent
    <3>3. QED
      BY <3>1, <3>2
  <2>6. TakenOnce'
    BY <2>1, <2>5 DEF TakenOnce
  <2>7. QED
    BY <2>4, <2>6
<1>8. ASSUME NEW h \in Handler,
             AnswerRight(h) \/ AnswerWrong(h) \/ CodeWrite(h) \/ (\E c \in Code : CodeRead(h, c))
      PROVE  TakenOnce' /\ ChallengeOnce'
  <2>1. /\ UNCHANGED <<chal, logins, reopened>>
        /\ handler'[h].token = handler[h].token
        /\ handler[h].at \in Holding /\ handler'[h].at # "session"
        /\ \A g \in Handler \ {h} : handler'[g] = handler[g]
    BY <1>8, QuietSteps
  <2>2. TakenOnce'
    BY <2>1, TakenWeakens DEF Holds, Is, Open, Holding
  <2>3. QED
    BY <2>1, <2>2 DEF ChallengeOnce
<1>9. ASSUME NEW h \in Handler, WrongCounted(h) \/ EnableSet(h) \/ EnableCheck(h)
      PROVE  TakenOnce' /\ ChallengeOnce'
  <2>1. /\ UNCHANGED <<logins, reopened>> /\ \A t \in Challenge : Open(t)' => Open(t)
        /\ handler'[h].at \in {"free", "enable"}
        /\ \A g \in Handler \ {h} : handler'[g] = handler[g]
    BY <1>9, QuietSteps DEF Open
  <2>2. TakenOnce'
    BY <2>1, TakenWeakens DEF Holds, Is
  <2>3. QED
    BY <2>1, <2>2 DEF ChallengeOnce
<1>10. ASSUME NEW t \in Challenge, CounterExpires(t)
       PROVE  TakenOnce' /\ ChallengeOnce'
  BY <1>3, <1>10 DEF CounterExpires
<1>11. CASE SetupTotp \/ DisableTotp
  BY <1>3, <1>11 DEF SetupTotp, DisableTotp, NewSecret, challenges, chalFate
<1>12. QED
  BY <1>1, <1>2, <1>4, <1>5, <1>6, <1>7, <1>8, <1>9, <1>10, <1>11 DEF LoginNext

\* Steps that leave the codes, and what is read of them, as they are.
LEMMA ListUntouched ==
  ASSUME ListHeld, RecoveryOnce,
         UNCHANGED <<last, secret, codes, overlap, uses>>,
         \A g \in Handler : Reads(g)' => Reads(g) /\ handler'[g] = handler[g]
  PROVE  ListHeld' /\ RecoveryOnce'
BY DEF ListHeld, RecoveryOnce, Reads, Is

LEMMA ListKept ==
  ASSUME LoginTyped, ListHeld, RecoveryOnce, LoginNext
  PROVE  ListHeld' /\ RecoveryOnce'
<1>1. ASSUME NEW t \in Challenge, Login(t) \/ ChallengeExpires(t) \/ CounterExpires(t)
      PROVE  ListHeld' /\ RecoveryOnce'
  BY <1>1, ListUntouched DEF Login, ChallengeExpires, CounterExpires, factors, loginHistory,
                             codeFate, Reads, Is
<1>2. ASSUME NEW h \in Handler, NEW t \in Challenge, ResendGet(h, t) \/ AnswerGet(h, t)
      PROVE  ListHeld' /\ RecoveryOnce'
  <2>1. PICK at \in {"resend", "answer"} : Take(h, t, at)
    BY <1>2 DEF ResendGet, AnswerGet
  <2>2. at \in LoginPc
    BY DEF LoginPc
  <2>3. handler'[h].at = at /\ \A g \in Handler \ {h} : handler'[g] = handler[g]
    BY <2>1, <2>2, TakeMoves
  <2>4. UNCHANGED <<last, secret, codes, overlap, uses>>
    BY <1>2 DEF ResendGet, AnswerGet, factors, codeFate
  <2>5. \A g \in Handler : Reads(g)' => Reads(g) /\ handler'[g] = handler[g]
    BY <2>3 DEF Reads, Is
  <2>6. QED
    BY <2>4, <2>5, ListUntouched
<1>3. ASSUME NEW h \in Handler,
             ResendSet(h) \/ AnswerRight(h) \/ AnswerWrong(h) \/ WrongCounted(h) \/ AnswerDel(h)
             \/ SessionIssued(h) \/ EnableCheck(h) \/ EnableSet(h)
      PROVE  ListHeld' /\ RecoveryOnce'
  <2>1. UNCHANGED <<last, secret, codes, overlap, uses>>
    BY <1>3 DEF ResendSet, AnswerRight, AnswerWrong, WrongCounted, AnswerDel, SessionIssued,
                EnableCheck, EnableSet, factors, codeFate, loginHistory
  <2>2. handler'[h].at # "code" /\ \A g \in Handler \ {h} : handler'[g] = handler[g]
    BY <1>3, HandlerMoves
       DEF LoginTyped, ResendSet, AnswerRight, AnswerWrong, WrongCounted, AnswerDel, SessionIssued,
           EnableCheck, EnableSet, LoginPc, Request
  <2>3. \A g \in Handler : Reads(g)' => Reads(g) /\ handler'[g] = handler[g]
    BY <2>2 DEF Reads, Is
  <2>4. QED
    BY <2>1, <2>3, ListUntouched
<1>4. ASSUME NEW h \in Handler, NEW c \in Code, CodeRead(h, c)
      PROVE  ListHeld' /\ RecoveryOnce'
  <2>1. /\ handler'[h].at = "code" /\ handler'[h].code = c /\ handler'[h].list = codes
        /\ \A g \in Handler \ {h} : handler'[g] = handler[g]
        /\ c \in codes /\ UNCHANGED <<last, secret, codes, uses>>
        /\ codes \subseteq Issued(last)
    BY <1>4, CodeReadMoves DEF CodeRead, factors, LoginTyped
  <2>2. CASE \E g \in Handler \ {h} : Reads(g)
    <3>1. overlap' = Issued(last)
      BY <1>4, <2>2 DEF CodeRead
    <3>2. \A g \in Handler : Reads(g)' =>
            handler'[g].list \subseteq Issued(last) /\ handler'[g].code \in handler'[g].list
      BY <2>1 DEF ListHeld, Reads, Is
    <3>3. \A d \in Code \ Issued(last) : ~(uses[d] > 0)
      BY DEF ListHeld
    <3>4. \A d \in Code \ Issued(last) : uses[d] <= 1
      BY <3>3 DEF LoginTyped
    <3>5. ListHeld'
      BY <2>1, <3>1, <3>2 DEF ListHeld
    <3>6. QED
      BY <2>1, <3>1, <3>4, <3>5 DEF RecoveryOnce
  <2>3. CASE ~ \E g \in Handler \ {h} : Reads(g)
    <3>1. overlap' = overlap
      BY <1>4, <2>3 DEF CodeRead
    <3>2. \A g \in Handler : Reads(g)' => g = h
      BY <2>1, <2>3 DEF Reads, Is
    <3>3. QED
      BY <2>1, <3>1, <3>2 DEF ListHeld, RecoveryOnce, Reads, Is
  <2>4. QED
    BY <2>2, <2>3
<1>5. ASSUME NEW h \in Handler, CodeWrite(h)
      PROVE  ListHeld' /\ RecoveryOnce'
  <2> DEFINE k    == handler[h].code
             list == handler[h].list
  <2>1. /\ list \subseteq Issued(last) /\ k \in list /\ Reads(h)
        /\ codes' = list \ {k} /\ uses' = [uses EXCEPT ![k] = @ + 1]
        /\ UNCHANGED <<last, secret, overlap>>
    BY <1>5 DEF CodeWrite, ListHeld, Reads
  <2>2. handler'[h].at = "passed" /\ \A g \in Handler \ {h} : handler'[g] = handler[g]
    BY <1>5, HandlerMoves DEF CodeWrite, LoginTyped, LoginPc
  <2>3. /\ Issued(last) \subseteq Code /\ k \in Code
    BY <2>1, IssuedCodes DEF LoginTyped
  <2>4. \A c \in Issued(last) \ overlap :
          /\ c \in list <=> c \in codes
          /\ \A g \in Handler : Reads(g) => g = h
    BY <2>1 DEF ListHeld
  <2>5. uses'[k] = uses[k] + 1 /\ \A c \in Code \ {k} : uses'[c] = uses[c]
    BY <2>1, <2>3 DEF LoginTyped
  <2>6. \A g \in Handler : Reads(g)' => g # h /\ Reads(g) /\ handler'[g] = handler[g]
    BY <2>2 DEF Reads, Is
  <2> HIDE DEF k, list
  <2>7. k \notin overlap => uses[k] = 0
    BY <2>1, <2>3, <2>4 DEF ListHeld, LoginTyped
  <2>8. \A c \in Code : uses'[c] > 0 => c \in Issued(last) /\ (c \in overlap \/ c \notin codes')
    BY <2>1, <2>3, <2>4, <2>5 DEF ListHeld
  <2>9. ListHeld'
    BY <2>1, <2>4, <2>6, <2>8 DEF ListHeld
  <2>10. \A c \in Code \ overlap : uses'[c] <= 1
    BY <2>5, <2>7 DEF RecoveryOnce
  <2>11. secret # 0 => codes' \subseteq NewCodes(secret) \cup overlap
    BY <2>1, <2>4 DEF RecoveryOnce
  <2>12. QED
    BY <2>1, <2>9, <2>10, <2>11 DEF RecoveryOnce
<1>6. CASE SetupTotp
  <2>1. /\ last' = last + 1 /\ secret' = last' /\ codes' = NewCodes(last')
        /\ UNCHANGED <<handler, uses>> /\ last \in 0 .. MaxSecrets /\ last < MaxSecrets
    BY <1>6 DEF SetupTotp, NewSecret, LoginTyped
  <2>2. /\ Issued(last') = Issued(last) \cup NewCodes(last')
        /\ Issued(last) \cap NewCodes(last') = {}
    BY <2>1, IssuedCodes
  <2>3. \A c \in Code : uses[c] > 0 => c \in Issued(last)
    BY DEF ListHeld
  <2>4. \A h \in Handler : Reads(h) => handler[h].list \subseteq Issued(last')
                                       /\ handler[h].code \in handler[h].list
    BY <2>2 DEF ListHeld
  <2>5. CASE \E h \in Handler : Reads(h)
    <3>1. overlap' = Issued(last')
      BY <1>6, <2>5 DEF SetupTotp
    <3>2. \A c \in Code \ overlap' : uses[c] <= 1
      BY <2>2, <2>3, <3>1 DEF LoginTyped
    <3>3. ListHeld'
      BY <2>1, <2>2, <2>3, <2>4, <3>1 DEF ListHeld, Reads, Is
    <3>4. QED
      BY <2>1, <3>2, <3>3 DEF RecoveryOnce
  <2>6. CASE ~ \E h \in Handler : Reads(h)
    <3>1. overlap' = overlap
      BY <1>6, <2>6 DEF SetupTotp
    <3>2. \A h \in Handler : ~Reads(h)'
      BY <2>1, <2>6 DEF Reads, Is
    <3>3. ListHeld'
      BY <2>1, <2>2, <2>3, <3>1, <3>2 DEF ListHeld
    <3>4. QED
      BY <2>1, <3>1, <3>3 DEF RecoveryOnce
  <2>7. QED
    BY <2>5, <2>6
<1>7. CASE DisableTotp
  <2>1. secret' = 0 /\ UNCHANGED <<last, codes, overlap, uses, handler>>
    BY <1>7 DEF DisableTotp, NewSecret
  <2>2. QED
    BY <2>1 DEF ListHeld, RecoveryOnce, Reads, Is
<1>8. QED
  BY <1>1, <1>2, <1>3, <1>4, <1>5, <1>6, <1>7 DEF LoginNext

LEMMA EnablingKept ==
  ASSUME LoginTyped, EnablingProved, AskedIsProved, LoginNext
  PROVE  EnablingProved' /\ AskedIsProved'
<1>1. ASSUME UNCHANGED <<secret, totpOn, checked, swapped>>,
             \A h \in Handler : Is(h, "enable")' => Is(h, "enable")
      PROVE  EnablingProved' /\ AskedIsProved'
  BY <1>1 DEF EnablingProved, AskedIsProved
<1>2. ASSUME NEW t \in Challenge, Login(t) \/ ChallengeExpires(t) \/ CounterExpires(t)
      PROVE  EnablingProved' /\ AskedIsProved'
  BY <1>1, <1>2 DEF Login, ChallengeExpires, CounterExpires, factors, loginHistory, Is
<1>3. ASSUME NEW h \in Handler, NEW t \in Challenge, ResendGet(h, t) \/ AnswerGet(h, t)
      PROVE  EnablingProved' /\ AskedIsProved'
  <2>1. PICK at \in {"resend", "answer"} : Take(h, t, at)
    BY <1>3 DEF ResendGet, AnswerGet
  <2>2. at \in LoginPc
    BY DEF LoginPc
  <2>3. handler'[h].at = at /\ \A g \in Handler \ {h} : handler'[g] = handler[g]
    BY <2>1, <2>2, TakeMoves
  <2>4. UNCHANGED <<secret, totpOn, checked, swapped>>
    BY <1>3 DEF ResendGet, AnswerGet, factors
  <2>5. QED
    BY <1>1, <2>3, <2>4 DEF Is
<1>4. ASSUME NEW h \in Handler,
             ResendSet(h) \/ AnswerRight(h) \/ AnswerWrong(h) \/ WrongCounted(h) \/ AnswerDel(h)
             \/ SessionIssued(h) \/ CodeWrite(h)
      PROVE  EnablingProved' /\ AskedIsProved'
  <2>1. UNCHANGED <<secret, totpOn, checked, swapped>>
    BY <1>4 DEF ResendSet, AnswerRight, AnswerWrong, WrongCounted, AnswerDel, SessionIssued,
                CodeWrite, factors, loginHistory
  <2>2. handler'[h].at # "enable" /\ \A g \in Handler \ {h} : handler'[g] = handler[g]
    BY <1>4, HandlerMoves
       DEF LoginTyped, ResendSet, AnswerRight, AnswerWrong, WrongCounted, AnswerDel, SessionIssued,
           CodeWrite, LoginPc
  <2>3. QED
    BY <1>1, <2>1, <2>2 DEF Is
<1>5. ASSUME NEW h \in Handler, NEW c \in Code, CodeRead(h, c)
      PROVE  EnablingProved' /\ AskedIsProved'
  BY <1>1, <1>5, CodeReadMoves DEF CodeRead, factors, Is
<1>6. ASSUME NEW h \in Handler, EnableCheck(h)
      PROVE  EnablingProved' /\ AskedIsProved'
  <2>1. UNCHANGED <<secret, totpOn, swapped>> /\ secret \in checked' /\ checked \subseteq checked'
    BY <1>6 DEF EnableCheck, factors
  <2>2. QED
    BY <2>1 DEF EnablingProved, AskedIsProved
<1>7. ASSUME NEW h \in Handler, EnableSet(h)
      PROVE  EnablingProved' /\ AskedIsProved'
  <2>1. /\ UNCHANGED <<secret, checked, swapped>> /\ Is(h, "enable")
        /\ handler'[h].at = "free" /\ \A g \in Handler \ {h} : handler'[g] = handler[g]
    BY <1>7, HandlerMoves DEF EnableSet, loginHistory, LoginTyped
  <2>2. QED
    BY <2>1 DEF EnablingProved, AskedIsProved, Is
<1>8. CASE SetupTotp \/ DisableTotp
  <2>1. /\ totpOn' = FALSE /\ UNCHANGED <<handler, checked>>
        /\ swapped' = (swapped \/ \E h \in Handler : Is(h, "enable"))
    BY <1>8 DEF SetupTotp, DisableTotp, NewSecret
  <2>2. (\E h \in Handler : Is(h, "enable")) => swapped'
    BY <2>1
  <2>3. QED
    BY <2>1, <2>2 DEF EnablingProved, AskedIsProved, Is
<1>9. QED
  BY <1>2, <1>3, <1>4, <1>5, <1>6, <1>7, <1>8 DEF LoginNext

LEMMA LoginInitInv == LoginInit => LoginInv
<1> SUFFICES ASSUME LoginInit PROVE LoginInv
  OBVIOUS
<1>1. \A h \in Handler : handler[h] = Free
  BY DEF LoginInit
<1>2. LoginTyped
  <2>1. totpOn \in BOOLEAN /\ swapped \in BOOLEAN
    BY DEF LoginInit
  <2>2. /\ last \in 0 .. MaxSecrets /\ secret \in 0 .. last /\ checked \subseteq 1 .. last
        /\ codes \subseteq Issued(last) /\ overlap \subseteq Code /\ uses \in [Code -> Nat]
    BY WebmailLoginAssumption DEF LoginInit
  <2>3. /\ chal \in [Challenge -> Payload] /\ handler \in [Handler -> Request]
        /\ known \subseteq Challenge /\ reopened \subseteq Challenge /\ extended \subseteq Challenge
        /\ wrong \in [Challenge -> Nat] /\ logins \in [Challenge -> Nat]
        /\ answers \in [Challenge -> Nat] /\ resends \in [Challenge -> Nat]
    BY FreeType DEF LoginInit, Payload
  <2>4. QED
    BY <2>1, <2>2, <2>3 DEF LoginTyped
<1>3. TokensKnown /\ EnablingProved /\ AskedIsProved
  <2>1. TokensKnown
    <3>1. \A t \in Challenge : chal[t] = "void" /\ logins[t] = 0
      BY DEF LoginInit
    <3>2. QED
      BY <1>1, <3>1, FreeType DEF TokensKnown, Open
  <2>2. EnablingProved
    BY <1>1, FreeType DEF EnablingProved, Is
  <2>3. AskedIsProved
    BY DEF LoginInit, AskedIsProved
  <2>4. QED
    BY <2>1, <2>2, <2>3
<1>4. TakenOnce /\ ChallengeOnce
  BY <1>1, FreeType DEF LoginInit, TakenOnce, ChallengeOnce, Holds, Is, Spent
<1>5. ListHeld /\ RecoveryOnce
  BY <1>1, FreeType DEF LoginInit, ListHeld, RecoveryOnce, Reads, Is
<1>6. QED
  BY <1>2, <1>3, <1>4, <1>5 DEF LoginInv

LEMMA LoginNextInv == LoginInv /\ [LoginNext]_loginVars => LoginInv'
<1> SUFFICES ASSUME LoginInv, [LoginNext]_loginVars PROVE LoginInv'
  OBVIOUS
<1>1. CASE LoginNext
  BY <1>1, TypesKept, TokensKept, TakenKept, ListKept, EnablingKept DEF LoginInv
<1>2. CASE UNCHANGED loginVars
  <2>1. UNCHANGED <<last, secret, totpOn, codes, chal, known, wrong, handler, uses, overlap,
                    logins, reopened, answers, resends, extended, checked, swapped>>
    BY <1>2 DEF loginVars, factors, challenges, loginHistory, codeFate, chalFate
  <2>2. LoginTyped' /\ TokensKnown'
    BY <2>1 DEF LoginInv, LoginTyped, TokensKnown, Open
  <2>3. TakenOnce' /\ ChallengeOnce'
    BY <2>1 DEF LoginInv, TakenOnce, ChallengeOnce, Spent, Holds, Is, Open
  <2>4. ListHeld' /\ RecoveryOnce'
    BY <2>1 DEF LoginInv, ListHeld, RecoveryOnce, Reads, Is
  <2>5. EnablingProved' /\ AskedIsProved'
    BY <2>1 DEF LoginInv, EnablingProved, AskedIsProved, Is
  <2>6. QED
    BY <2>2, <2>3, <2>4, <2>5 DEF LoginInv
<1>3. QED
  BY <1>1, <1>2

\* The invariant of the login: what each request holds is what it read, and what
\* was replaced under it is marked.
THEOREM LoginInvariant == LoginSpec => []LoginInv
BY LoginInitInv, LoginNextInv, PTL DEF LoginSpec

\* A challenge is good for one session, unless one request took it while
\* another held it.
THEOREM OneSessionPerChallenge == LoginSpec => []ChallengeOnce
<1>1. LoginInv => ChallengeOnce
  BY DEF LoginInv
<1>2. QED
  BY <1>1, LoginInvariant, PTL

\* A recovery code is good for one login, unless its list was read by two
\* requests at once or replaced while it was read.
THEOREM CodesOnce == LoginSpec => []RecoveryOnce
<1>1. LoginInv => RecoveryOnce
  BY DEF LoginInv
<1>2. QED
  BY <1>1, LoginInvariant, PTL

\* The authenticator is asked for only with a secret the user has proved to
\* have, unless the secret changed while the proof was checked.
THEOREM AskedAfterProof == LoginSpec => []AskedIsProved
<1>1. LoginInv => AskedIsProved
  BY DEF LoginInv
<1>2. QED
  BY <1>1, LoginInvariant, PTL

-----------------------------------------------------------------------------
(***************************************************************************)
(* Preferences.                                                            *)
(***************************************************************************)

\* A copy differs from the column by what it knows to have moved, at most.
Fresh(copy) == \A e \in Entry \ copy.moved : e \in copy.prefs <=> e \in row

\* A request has read its list, and the rest of the column before it writes.
Writing == [phase : {"list", "write"}, list : Copies, copy : Copies, wish : Wish]

CopiesFresh ==
  /\ \A t \in Tab : Fresh(cache[t]) /\ Fresh(fetched[t])
  /\ \A p \in puts : Fresh(p.copy)
  /\ \A r \in Writer : server[r] # Resting =>
       /\ Fresh(server[r].list) /\ Fresh(server[r].copy)
       /\ server[r].phase = "list" => server[r].copy.moved = Entry

PrefInv == PrefType /\ CopiesFresh /\ ToldIsKept

LEMMA CopyFacts ==
  /\ NoCopy \in Copies /\ Fresh(NoCopy)
  /\ row \in SUBSET Entry => Copy \in Copies /\ Fresh(Copy)
BY DEF NoCopy, Copy, Copies, Fresh

\* Ageing a copy keeps it fresh, for the column as it becomes.
LEMMA AgedFresh ==
  ASSUME row \in SUBSET Entry, NEW now \in SUBSET Entry, row' = now,
         NEW copy \in Copies, Fresh(copy)
  PROVE  /\ Aged(copy, now) \in Copies
         /\ \A e \in Entry \ Aged(copy, now).moved :
              e \in Aged(copy, now).prefs <=> e \in row'
<1>1. Aged(copy, now) = [prefs |-> copy.prefs, moved |-> copy.moved \cup Differ(row, now),
                         loaded |-> copy.loaded]
  BY DEF Aged, Copies
<1>2. QED
  BY <1>1 DEF Copies, Differ, Fresh

LEMMA PrefInitInv == PrefInit => PrefInv
<1> SUFFICES ASSUME PrefInit PROVE PrefInv
  OBVIOUS
<1>1. NoCopy \in Copies /\ Fresh(NoCopy)
  BY CopyFacts
<1>2. PrefType
  BY <1>1, PreferencesAssumption DEF PrefInit, PrefType
<1>3. CopiesFresh
  BY <1>1 DEF PrefInit, CopiesFresh
<1>4. QED
  BY <1>2, <1>3 DEF PrefInv, PrefInit, ToldIsKept

\* The column after a write, and the pages' copies of it.
LEMMA PrefWriteKeeps ==
  ASSUME PrefInv, NEW prefs \in SUBSET Entry, NEW w \in Wish, NEW moved \in SUBSET Entry,
         \A e \in Entry \ (moved \cup {w.entry}) : e \in prefs <=> e \in row,
         w.entry \in prefs <=> w.on,
         Write(prefs, w, moved)
  PROVE  /\ row' = prefs /\ row' \in SUBSET Entry
         /\ told' \in SUBSET Entry /\ excused' \in SUBSET Entry
         /\ cache' \in [Tab -> Copies] /\ fetched' \in [Tab -> Copies]
         /\ \A t \in Tab : Fresh(cache[t])' /\ Fresh(fetched[t])'
         /\ ToldIsKept'
<1>1. row' = prefs /\ told' = With(told, w) /\ excused' = (excused \cup moved) \ {w.entry}
  BY DEF Write
<1>2. w.entry \in Entry /\ w.on \in BOOLEAN
  BY DEF Wish
<1>3. told' \in SUBSET Entry /\ excused' \in SUBSET Entry
  BY <1>1, <1>2 DEF PrefInv, PrefType, With
<1>4. ToldIsKept'
  BY <1>1, <1>2 DEF PrefInv, ToldIsKept, With
<1>5. ASSUME NEW t \in Tab
      PROVE  /\ cache'[t] = Aged(cache[t], prefs) /\ fetched'[t] = Aged(fetched[t], prefs)
             /\ Fresh(cache[t])' /\ Fresh(fetched[t])'
             /\ cache'[t] \in Copies /\ fetched'[t] \in Copies
  <2>1. cache[t] \in Copies /\ Fresh(cache[t]) /\ fetched[t] \in Copies /\ Fresh(fetched[t])
    BY DEF PrefInv, PrefType, CopiesFresh
  <2>2. cache'[t] = Aged(cache[t], prefs) /\ fetched'[t] = Aged(fetched[t], prefs)
    BY DEF Write
  <2>3. row \in SUBSET Entry
    BY DEF PrefInv, PrefType
  <2>4. /\ Aged(cache[t], prefs) \in Copies
        /\ \A e \in Entry \ Aged(cache[t], prefs).moved :
             e \in Aged(cache[t], prefs).prefs <=> e \in row'
    BY <1>1, <2>1, <2>3, AgedFresh
  <2>5. /\ Aged(fetched[t], prefs) \in Copies
        /\ \A e \in Entry \ Aged(fetched[t], prefs).moved :
             e \in Aged(fetched[t], prefs).prefs <=> e \in row'
    BY <1>1, <2>1, <2>3, AgedFresh
  <2>6. QED
    BY <2>2, <2>4, <2>5 DEF Fresh
<1>6. cache' \in [Tab -> Copies] /\ fetched' \in [Tab -> Copies]
  BY <1>5 DEF Write
<1>7. QED
  BY <1>1, <1>3, <1>4, <1>5, <1>6

\* The requests under way when the column changes.
LEMMA ServerKept ==
  ASSUME PrefInv, row' \in SUBSET Entry
  PROVE  /\ ServerAged(row') \in [Writer -> {Resting} \cup Writing]
         /\ \A r \in Writer : ServerAged(row')[r] # Resting =>
              /\ \A e \in Entry \ ServerAged(row')[r].list.moved :
                   e \in ServerAged(row')[r].list.prefs <=> e \in row'
              /\ \A e \in Entry \ ServerAged(row')[r].copy.moved :
                   e \in ServerAged(row')[r].copy.prefs <=> e \in row'
              /\ ServerAged(row')[r].phase = "list" => ServerAged(row')[r].copy.moved = Entry
<1> DEFINE Good(s) ==
      \/ s = Resting
      \/ /\ s \in Writing
         /\ \A e \in Entry \ s.list.moved : e \in s.list.prefs <=> e \in row'
         /\ \A e \in Entry \ s.copy.moved : e \in s.copy.prefs <=> e \in row'
         /\ s.phase = "list" => s.copy.moved = Entry
<1>1. ASSUME NEW r \in Writer
      PROVE  Good(ServerAged(row')[r])
  <2>1. CASE server[r] = Resting
    BY <2>1 DEF ServerAged, Resting
  <2>2. CASE server[r] # Resting
    <3>1. /\ server[r] \in Writing
          /\ Fresh(server[r].list) /\ Fresh(server[r].copy)
      BY <2>2 DEF PrefInv, PrefType, CopiesFresh, Writing
    <3>2. row \in SUBSET Entry /\ server[r].list \in Copies /\ server[r].copy \in Copies
      BY <3>1 DEF PrefInv, PrefType, Writing
    <3>3. /\ Aged(server[r].list, row') \in Copies
          /\ \A e \in Entry \ Aged(server[r].list, row').moved :
               e \in Aged(server[r].list, row').prefs <=> e \in row'
      BY <3>1, <3>2, AgedFresh
    <3>4. /\ Aged(server[r].copy, row') \in Copies
          /\ \A e \in Entry \ Aged(server[r].copy, row').moved :
               e \in Aged(server[r].copy, row').prefs <=> e \in row'
      BY <3>1, <3>2, AgedFresh
    <3>5. CASE server[r].phase = "list"
      <4>1. server[r].copy.moved = Entry
        BY <2>2, <3>5 DEF PrefInv, CopiesFresh
      <4>2. ServerAged(row')[r] =
              [phase |-> "list", list |-> Aged(server[r].list, row'),
               copy |-> server[r].copy, wish |-> server[r].wish]
        BY <3>1, <3>5 DEF ServerAged, Writing
      <4>3. QED
        BY <3>1, <3>2, <3>3, <4>1, <4>2 DEF Writing
    <3>6. CASE server[r].phase = "write"
      <4>1. ServerAged(row')[r] =
              [phase |-> "write", list |-> Aged(server[r].list, row'),
               copy |-> Aged(server[r].copy, row'), wish |-> server[r].wish]
        BY <3>1, <3>6 DEF ServerAged, Writing
      <4>2. QED
        BY <3>1, <3>3, <3>4, <4>1 DEF Writing
    <3>7. QED
      BY <3>1, <3>5, <3>6 DEF Writing
  <2>3. QED
    BY <2>1, <2>2
<1>2. ServerAged(row') = [r \in Writer |-> ServerAged(row')[r]]
  BY DEF ServerAged
<1>3. QED
  BY <1>1, <1>2


\* The saves on their way when the column changes.
LEMMA PutsKept ==
  ASSUME PrefInv, row' \in SUBSET Entry, NEW rest \in SUBSET puts
  PROVE  /\ PutsAged(row', rest) \subseteq [id : 0..MaxSaves, copy : Copies, wish : Wish]
         /\ \A p \in PutsAged(row', rest) :
              \A e \in Entry \ p.copy.moved : e \in p.copy.prefs <=> e \in row'
<1> SUFFICES ASSUME NEW q \in rest
             PROVE  LET p == [q EXCEPT !.copy = Aged(@, row')] IN
                    /\ p \in [id : 0..MaxSaves, copy : Copies, wish : Wish]
                    /\ \A e \in Entry \ p.copy.moved : e \in p.copy.prefs <=> e \in row'
  BY DEF PutsAged
<1>1. q \in [id : 0..MaxSaves, copy : Copies, wish : Wish] /\ Fresh(q.copy)
  BY DEF PrefInv, PrefType, CopiesFresh
<1>2. row \in SUBSET Entry /\ q.copy \in Copies
  BY <1>1 DEF PrefInv, PrefType
<1>3. /\ Aged(q.copy, row') \in Copies
      /\ \A e \in Entry \ Aged(q.copy, row').moved :
           e \in Aged(q.copy, row').prefs <=> e \in row'
  BY <1>1, <1>2, AgedFresh
<1>4. [q EXCEPT !.copy = Aged(@, row')] = [id |-> q.id, copy |-> Aged(q.copy, row'), wish |-> q.wish]
  BY <1>1
<1>5. QED
  BY <1>1, <1>3, <1>4

\* A save from a fresh copy.
LEMMA PutAppliedKeeps ==
  ASSUME PrefInv, NEW p \in puts, PutApplied(p)
  PROVE  PrefInv'
<1>1. p \in [id : 0..MaxSaves, copy : Copies, wish : Wish] /\ Fresh(p.copy)
  BY DEF PrefInv, PrefType, CopiesFresh
<1> DEFINE prefs == With(p.copy.prefs, p.wish)
<1>2. /\ prefs \in SUBSET Entry /\ p.wish \in Wish /\ p.copy.moved \in SUBSET Entry
      /\ \A e \in Entry \ (p.copy.moved \cup {p.wish.entry}) : e \in prefs <=> e \in row
      /\ p.wish.entry \in prefs <=> p.wish.on
  BY <1>1 DEF Copies, Wish, With, Fresh
<1>3. /\ Write(prefs, p.wish, p.copy.moved)
      /\ server' = ServerAged(row') /\ puts' = PutsAged(row', puts \ {p}) /\ saves' = saves
  BY DEF PutApplied
<1> HIDE DEF prefs
<1>4. /\ row' \in SUBSET Entry
      /\ told' \in SUBSET Entry /\ excused' \in SUBSET Entry
      /\ cache' \in [Tab -> Copies] /\ fetched' \in [Tab -> Copies]
      /\ \A t \in Tab : Fresh(cache[t])' /\ Fresh(fetched[t])'
      /\ ToldIsKept'
  BY <1>2, <1>3, PrefWriteKeeps
<1>5. /\ server' \in [Writer -> {Resting} \cup Writing]
      /\ \A r \in Writer : server'[r] # Resting =>
           /\ Fresh(server[r].list)' /\ Fresh(server[r].copy)'
           /\ server'[r].phase = "list" => server'[r].copy.moved = Entry
  BY <1>3, <1>4, ServerKept DEF Fresh
<1>6. /\ puts' \subseteq [id : 0..MaxSaves, copy : Copies, wish : Wish]
      /\ \A q \in puts' : Fresh(q.copy)'
  <2>1. puts \ {p} \in SUBSET puts
    OBVIOUS
  <2>2. QED
    BY <1>3, <1>4, <2>1, PutsKept DEF Fresh
<1>7. PrefType'
  BY <1>3, <1>4, <1>5, <1>6 DEF PrefType, PrefInv, Writing
<1>8. QED
  BY <1>4, <1>5, <1>6, <1>7 DEF PrefInv, CopiesFresh


\* The upsert of a request, from its list and its copy.
LEMMA WriteServerKeeps ==
  ASSUME PrefInv, NEW r \in Writer, WriteServer(r)
  PROVE  PrefInv'
<1> DEFINE s       == server[r]
           w       == s.wish
           Mine(e) == KeyOf[e] = KeyOf[w.entry]
           prefs   == {e \in s.list.prefs : Mine(e)} \cup {e \in s.copy.prefs : ~Mine(e)}
           moved   == {e \in s.list.moved : Mine(e)} \cup {e \in s.copy.moved : ~Mine(e)}
           column  == With(prefs, w)
<1>1. s \in Writing /\ s.phase = "write" /\ Fresh(s.list) /\ Fresh(s.copy)
  BY DEF PrefInv, PrefType, CopiesFresh, Writing, WriteServer, Resting
<1>2. /\ prefs \in SUBSET Entry /\ moved \in SUBSET Entry /\ w \in Wish
      /\ \A e \in Entry \ moved : e \in prefs <=> e \in row
  BY <1>1 DEF Writing, Copies, Fresh
<1>3. /\ Write(column, w, moved)
      /\ server' = [ServerAged(row') EXCEPT ![r] = Resting]
      /\ puts' = PutsAged(row', puts) /\ saves' = saves
  BY DEF WriteServer
<1>4. /\ column \in SUBSET Entry /\ w \in Wish /\ moved \in SUBSET Entry
      /\ \A e \in Entry \ (moved \cup {w.entry}) : e \in column <=> e \in row
      /\ w.entry \in column <=> w.on
  <2> HIDE DEF prefs, moved, w
  <2> QED
    BY <1>2 DEF Wish, With
<1> HIDE DEF column, w, moved
<1>5. /\ row' \in SUBSET Entry
      /\ told' \in SUBSET Entry /\ excused' \in SUBSET Entry
      /\ cache' \in [Tab -> Copies] /\ fetched' \in [Tab -> Copies]
      /\ \A t \in Tab : Fresh(cache[t])' /\ Fresh(fetched[t])'
      /\ ToldIsKept'
  BY <1>3, <1>4, PrefWriteKeeps
<1>6. /\ server' \in [Writer -> {Resting} \cup Writing]
      /\ \A q \in Writer : server'[q] # Resting =>
           /\ Fresh(server[q].list)' /\ Fresh(server[q].copy)'
           /\ server'[q].phase = "list" => server'[q].copy.moved = Entry
  <2>1. /\ ServerAged(row') \in [Writer -> {Resting} \cup Writing]
        /\ \A q \in Writer : ServerAged(row')[q] # Resting =>
             /\ \A e \in Entry \ ServerAged(row')[q].list.moved :
                  e \in ServerAged(row')[q].list.prefs <=> e \in row'
             /\ \A e \in Entry \ ServerAged(row')[q].copy.moved :
                  e \in ServerAged(row')[q].copy.prefs <=> e \in row'
             /\ ServerAged(row')[q].phase = "list" => ServerAged(row')[q].copy.moved = Entry
    BY <1>5, ServerKept
  <2> DEFINE aged == ServerAged(row')
  <2> HIDE DEF aged
  <2>2. aged \in [Writer -> {Resting} \cup Writing] /\ server' = [aged EXCEPT ![r] = Resting]
    BY <1>3, <2>1 DEF aged
  <2>3. server' \in [Writer -> {Resting} \cup Writing]
    BY <2>2
  <2>4. ASSUME NEW q \in Writer, server'[q] # Resting
        PROVE  server'[q] = ServerAged(row')[q]
    BY <2>2, <2>4 DEF aged
  <2>5. QED
    BY <2>1, <2>3, <2>4 DEF Fresh
<1>7. /\ puts' \subseteq [id : 0..MaxSaves, copy : Copies, wish : Wish]
      /\ \A q \in puts' : Fresh(q.copy)'
  <2>1. puts \in SUBSET puts
    OBVIOUS
  <2>2. QED
    BY <1>3, <1>5, <2>1, PutsKept DEF Fresh
<1>8. PrefType'
  BY <1>3, <1>5, <1>6, <1>7 DEF PrefType, PrefInv, Writing
<1>9. QED
  BY <1>5, <1>6, <1>7, <1>8 DEF PrefInv, CopiesFresh

\* A request that starts with the copies it read.
LEMMA StartKeeps ==
  ASSUME PrefInv, NEW r \in Writer, NEW list \in Copies, NEW copy \in Copies,
         NEW phase \in {"list", "write"}, NEW w \in Wish,
         Fresh(list), Fresh(copy), phase = "list" => copy.moved = Entry,
         Start(r, list, copy, phase, w)
  PROVE  PrefInv'
<1> DEFINE new == [phase |-> phase, list |-> list, copy |-> copy, wish |-> w]
<1>1. /\ new \in Writing /\ new.list = list /\ new.copy = copy /\ new.phase = phase
  BY DEF Writing
<1>2. /\ saves < MaxSaves /\ saves' = saves + 1
      /\ server' = [server EXCEPT ![r] = new]
      /\ UNCHANGED <<row, cache, fetched, puts, told, excused>>
  BY DEF Start
<1> HIDE DEF new
<1>3. server \in [Writer -> {Resting} \cup Writing] /\ saves \in 0..MaxSaves
  BY DEF PrefInv, PrefType, Writing
<1>4. /\ server' \in [Writer -> {Resting} \cup Writing]
      /\ \A q \in Writer : server'[q] = IF q = r THEN new ELSE server[q]
  BY <1>1, <1>2, <1>3
<1>5. saves' \in 0..MaxSaves
  BY <1>2, <1>3, PreferencesAssumption
<1>6. CopiesFresh'
  BY <1>1, <1>2, <1>4 DEF PrefInv, CopiesFresh, Fresh
<1>7. QED
  BY <1>2, <1>4, <1>5, <1>6 DEF PrefInv, PrefType, ToldIsKept, Writing

LEMMA ReadsKeep ==
  ASSUME PrefInv, NEW r \in Writer
  PROVE  /\ \A w \in Wish : ReadPlain(r, w) \/ ReadList(r, w) => PrefInv'
         /\ \A e \in Entry : ReadClean(r, e) => PrefInv'
<1>1. /\ Copy \in Copies /\ Fresh(Copy) /\ NoCopy \in Copies /\ Fresh(NoCopy)
      /\ NoCopy.moved = Entry
  BY CopyFacts DEF PrefInv, PrefType, NoCopy
<1>2. \A w \in Wish : ReadPlain(r, w) => PrefInv'
  BY <1>1, StartKeeps DEF ReadPlain
<1>3. \A w \in Wish : ReadList(r, w) => PrefInv'
  BY <1>1, StartKeeps DEF ReadList
<1>4. ASSUME NEW e \in Entry, ReadClean(r, e)
      PROVE  PrefInv'
  <2>1. [entry |-> e, on |-> TRUE] \in Wish
    BY DEF Wish
  <2>2. QED
    BY <1>1, <1>4, <2>1, StartKeeps DEF ReadClean
<1>5. QED
  BY <1>2, <1>3, <1>4

\* The rest of the column is read just before the write.
LEMMA ReadRestKeeps ==
  ASSUME PrefInv, NEW r \in Writer, ReadRest(r)
  PROVE  PrefInv'
<1>1. Copy \in Copies /\ Fresh(Copy)
  BY CopyFacts DEF PrefInv, PrefType
<1>2. server \in [Writer -> {Resting} \cup Writing] /\ server[r].phase = "list"
  BY DEF PrefInv, PrefType, Writing, ReadRest
<1>3. server[r] \in Writing /\ server[r] # Resting
  BY <1>2 DEF Resting
<1> DEFINE new == [phase |-> "write", list |-> server[r].list, copy |-> Copy,
                   wish |-> server[r].wish]
<1>4. new \in Writing /\ new.list = server[r].list /\ new.copy = Copy /\ new.phase = "write"
  BY <1>1, <1>3 DEF Writing
<1>6. server' = [server EXCEPT ![r] = new]
  BY DEF ReadRest
<1> HIDE DEF new
<1>7. /\ server' \in [Writer -> {Resting} \cup Writing]
      /\ \A q \in Writer : server'[q] = IF q = r THEN new ELSE server[q]
  BY <1>2, <1>4, <1>6
<1>8. UNCHANGED <<row, cache, fetched, puts, saves, told, excused>>
  BY DEF ReadRest
<1>9. CopiesFresh'
  BY <1>1, <1>3, <1>4, <1>7, <1>8 DEF PrefInv, CopiesFresh, Fresh
<1>10. QED
  BY <1>7, <1>8, <1>9 DEF PrefInv, PrefType, ToldIsKept, Writing

\* What a page does before its saves arrive.
LEMMA PressKeeps ==
  ASSUME PrefInv, NEW t \in Tab, NEW e \in Entry, NEW on \in BOOLEAN, Press(t, e, on)
  PROVE  PrefInv'
<1> DEFINE new == [id |-> saves, copy |-> cache[t], wish |-> [entry |-> e, on |-> on]]
<1>1. new \in [id : 0..MaxSaves, copy : Copies, wish : Wish] /\ Fresh(new.copy)
  BY DEF PrefInv, PrefType, CopiesFresh, Wish
<1>2. /\ saves < MaxSaves /\ saves' = saves + 1 /\ puts' = puts \cup {new}
      /\ UNCHANGED <<row, cache, fetched, server, told, excused>>
  BY DEF Press
<1> HIDE DEF new
<1>3. saves' \in 0..MaxSaves
  BY <1>2, PreferencesAssumption DEF PrefInv, PrefType
<1>4. CopiesFresh'
  BY <1>1, <1>2 DEF PrefInv, CopiesFresh, Fresh
<1>5. QED
  BY <1>1, <1>2, <1>3, <1>4 DEF PrefInv, PrefType, ToldIsKept

\* Every step keeps the copies fresh, so that a write takes back no more than
\* what moved while its copy was held.
LEMMA PrefNextInv == PrefInv /\ [PrefNext]_prefVars => PrefInv'
<1> SUFFICES ASSUME PrefInv, [PrefNext]_prefVars PROVE PrefInv'
  OBVIOUS
<1>1. Copy \in Copies /\ Fresh(Copy) /\ NoCopy \in Copies /\ Fresh(NoCopy)
  BY CopyFacts DEF PrefInv, PrefType
<1>2. ASSUME NEW t \in Tab, GetSettings(t) PROVE PrefInv'
  BY <1>1, <1>2 DEF GetSettings, PrefInv, PrefType, CopiesFresh, ToldIsKept, Fresh
<1>3. ASSUME NEW t \in Tab, Loaded(t) PROVE PrefInv'
  BY <1>1, <1>3 DEF Loaded, PrefInv, PrefType, CopiesFresh, ToldIsKept, Fresh
<1>4. ASSUME NEW t \in Tab, Reload(t) PROVE PrefInv'
  BY <1>1, <1>4 DEF Reload, PrefInv, PrefType, CopiesFresh, ToldIsKept, Fresh
<1>5. ASSUME NEW t \in Tab, NEW e \in Entry, NEW on \in BOOLEAN, Press(t, e, on) PROVE PrefInv'
  BY <1>5, PressKeeps
<1>6. ASSUME NEW p \in puts, PutApplied(p) PROVE PrefInv'
  BY <1>6, PutAppliedKeeps
<1>7. ASSUME NEW p \in puts, PutFails(p) PROVE PrefInv'
  BY <1>7 DEF PutFails, PrefInv, PrefType, CopiesFresh, ToldIsKept, Fresh
<1>8. ASSUME NEW r \in Writer, NEW w \in Wish, ReadPlain(r, w) \/ ReadList(r, w) PROVE PrefInv'
  BY <1>8, ReadsKeep
<1>9. ASSUME NEW r \in Writer, NEW e \in Entry, ReadClean(r, e) PROVE PrefInv'
  BY <1>9, ReadsKeep
<1>10. ASSUME NEW r \in Writer, ReadRest(r) PROVE PrefInv'
  BY <1>10, ReadRestKeeps
<1>11. ASSUME NEW r \in Writer, WriteServer(r) PROVE PrefInv'
  BY <1>11, WriteServerKeeps
<1>12. ASSUME NEW r \in Writer, ServerFails(r) PROVE PrefInv'
  BY <1>12 DEF ServerFails, PrefInv, PrefType, CopiesFresh, ToldIsKept, Fresh
<1>13. CASE UNCHANGED prefVars
  BY <1>13 DEF prefVars, PrefInv, PrefType, CopiesFresh, ToldIsKept, Fresh
<1>14. QED
  BY <1>2, <1>3, <1>4, <1>5, <1>6, <1>7, <1>8, <1>9, <1>10, <1>11, <1>12, <1>13 DEF PrefNext

\* The invariant of the preferences: a copy, in a page or in a request, differs
\* from the column by what moved since it was read, and an entry that was told to
\* anybody is as told or excused.
THEOREM PrefInvariant == PrefSpec => []PrefInv
BY PrefInitInv, PrefNextInv, PTL DEF PrefSpec

\* The column and every copy of it are well formed.
THEOREM PrefTypeCorrect == PrefSpec => []PrefType
<1>1. PrefInv => PrefType
  BY DEF PrefInv
<1>2. QED
  BY <1>1, PrefInvariant, PTL

\* An entry is in the column as its last writer asked, unless it changed
\* between the read and the write of a later writer of the whole column.
THEOREM ToldStays == PrefSpec => []ToldIsKept
<1>1. PrefInv => ToldIsKept
  BY DEF PrefInv
<1>2. QED
  BY <1>1, PrefInvariant, PTL

=============================================================================
