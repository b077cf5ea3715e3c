--------------------------- MODULE WebmailSession ---------------------------
(***************************************************************************)
(* The Redis sessions of one mailbox: webmail-api's lib/session.ts.        *)
(*                                                                         *)
(* A session is a key, named by the hash of its token, and a member of the *)
(* mailbox's index, a Redis set through which sessions are listed and      *)
(* revoked.  Key and index are changed by separate commands, in a different*)
(* order by each handler, and every command is a step that others of the   *)
(* same mailbox may precede.                                               *)
(*                                                                         *)
(* Abstractions: a key is "new", or "old" once it was not touched for five *)
(* minutes.  Of the times to live only this is kept: an EXPIRE makes the   *)
(* index outlive every session there is by an hour, and a session that     *)
(* gets its time to live later, one in loose, may outlive the index.       *)
(***************************************************************************)
EXTENDS Naturals

CONSTANTS Tok,         \* session tokens
          Req,         \* handlers in flight
          MaxCrashes   \* how often the server may restart

ASSUME CrashAssumption == MaxCrashes \in Nat

VARIABLES key,       \* the session keys
          idx,       \* the index
          used,      \* tokens already issued
          timed,     \* the index has a time to live
          loose,     \* sessions that may outlive the index
          req,       \* local variables of the handlers
          crashes,   \* restarts so far
          out,       \* history: sessions whose end was acknowledged
          revived,   \* history: sessions written back after they were gone
          dropped,   \* history: sessions in the index when it expired
          torn       \* history: sessions whose login or logout died halfway

store == <<timed, key, idx, used, loose>>
history == <<out, revived, dropped, torn>>
vars == <<key, idx, used, timed, loose, req, crashes, out, revived, dropped, torn>>

PC == {"idle", "sadd", "expire", "ttl", "touch", "authed", "srem", "del",
       "revDel", "revSrem", "others", "othersSrem", "list", "listSrem"}

Local == [pc : PC, tok : Tok \union {"none"}, todo : SUBSET Tok, full : BOOLEAN]

Idle == [pc |-> "idle", tok |-> "none", todo |-> {}, full |-> FALSE]

Alive == {t \in Tok : key[t] # "none"}

Done(r) == req' = [req EXCEPT ![r] = Idle]
At(r, pc) == req[r].pc = pc
Goto(r, pc) == req' = [req EXCEPT ![r].pc = pc]
Enter(r, pc, t, S, full) ==
  req' = [req EXCEPT ![r] = [pc |-> pc, tok |-> t, todo |-> S, full |-> full]]

\* A loop goes on with the tokens in S, or is over.
Rest(r, pc, S) == IF S = {} THEN Done(r) ELSE Enter(r, pc, "none", S, FALSE)

Init ==
  /\ key = [t \in Tok |-> "none"]
  /\ idx = {} /\ used = {} /\ loose = {} /\ out = {}
  /\ revived = {} /\ dropped = {} /\ torn = {} /\ timed = FALSE
  /\ req = [r \in Req |-> Idle]
  /\ crashes = 0

\* A login or a logout of t is between its two commands.
Halfway(t) == \E r \in Req : req[r].pc \in {"sadd", "del"} /\ req[r].tok = t

\* Redis removes an empty set, and its time to live with it.
Unindex(t) == idx' = idx \ {t} /\ timed' = (timed /\ idx' # {})

Drop(t) == key' = [key EXCEPT ![t] = "none"]

-----------------------------------------------------------------------------
(* createSession(): SET, SADD, EXPIRE.                                     *)

LoginSet(r, t) ==
  /\ At(r, "idle") /\ t \notin used
  /\ key' = [key EXCEPT ![t] = "new"]
  /\ used' = used \union {t}
  /\ loose' = loose \union {t}
  /\ Enter(r, "sadd", t, {}, FALSE)
  /\ UNCHANGED <<timed, idx, crashes, history>>

LoginAdd(r) ==
  /\ At(r, "sadd")
  /\ idx' = idx \union {req[r].tok}
  /\ Goto(r, "expire")
  /\ UNCHANGED <<timed, key, used, loose, crashes, history>>

\* EXPIRE does nothing when the index has vanished meanwhile.
LoginExpire(r) ==
  /\ At(r, "expire")
  /\ timed' = (idx # {})
  /\ loose' = IF idx = {} THEN loose ELSE {}
  /\ Done(r)
  /\ UNCHANGED <<key, idx, used, crashes, history>>

-----------------------------------------------------------------------------
(* authenticate and resolveSession(): GET, and for an old session TTL and  *)
(* SET.  A session that is gone authenticates nobody; a new one is left as *)
(* it is.  An authenticated request goes on to its route, whatever becomes *)
(* of the session: to revoke, to list, or to what is no matter here.       *)

ResolveGet(r, t) ==
  /\ At(r, "idle") /\ key[t] # "none"
  /\ Enter(r, IF key[t] = "old" THEN "ttl" ELSE "authed", t, {}, FALSE)
  /\ UNCHANGED <<store, crashes, history>>

\* A key that is gone has no time to live: it will be given a full one.
ResolveTtl(r) ==
  /\ At(r, "ttl")
  /\ Enter(r, "touch", req[r].tok, {}, key[req[r].tok] = "none")
  /\ UNCHANGED <<store, crashes, history>>

\* The session that was read is written back, whatever became of the key.
ResolveSet(r) ==
  LET t == req[r].tok IN
  /\ At(r, "touch")
  /\ key' = [key EXCEPT ![t] = "new"]
  /\ revived' = IF key[t] = "none" THEN revived \union {t} ELSE revived
  /\ loose' = IF req[r].full THEN loose \union {t} ELSE loose
  /\ Enter(r, "authed", t, {}, FALSE)
  /\ UNCHANGED <<timed, idx, used, crashes, out, dropped, torn>>

OtherRoute(r) ==
  /\ At(r, "authed")
  /\ Done(r)
  /\ UNCHANGED <<store, crashes, history>>

-----------------------------------------------------------------------------
(* destroySession(): GET, SREM if there is a session, DEL.  The route asks *)
(* for no authentication.                                                  *)

LogoutGet(r, t) ==
  /\ At(r, "idle") /\ t \in used
  /\ Enter(r, IF key[t] = "none" THEN "del" ELSE "srem", t, {}, FALSE)
  /\ UNCHANGED <<store, crashes, history>>

LogoutSrem(r) ==
  /\ At(r, "srem")
  /\ Unindex(req[r].tok)
  /\ Goto(r, "del")
  /\ UNCHANGED <<key, used, loose, crashes, history>>

LogoutDel(r) ==
  /\ At(r, "del")
  /\ Drop(req[r].tok)
  /\ out' = out \union {req[r].tok}
  /\ Done(r)
  /\ UNCHANGED <<timed, idx, used, loose, crashes, revived, dropped, torn>>

-----------------------------------------------------------------------------
(* revokeSession(): SISMEMBER, DEL, SREM.                                  *)

\* Mistake: the session leaves the index, and lives on.
Revoke_IndexOnly(r, t) ==
  /\ At(r, "authed") /\ t \in idx
  /\ Enter(r, "revSrem", t, {}, FALSE)
  /\ UNCHANGED <<store, crashes, history>>

Revoke(r, t) ==
  /\ At(r, "authed") /\ t \in idx
  /\ Enter(r, "revDel", t, {}, FALSE)
  /\ UNCHANGED <<store, crashes, history>>

RevokeDel(r) ==
  /\ At(r, "revDel")
  /\ Drop(req[r].tok)
  /\ Goto(r, "revSrem")
  /\ UNCHANGED <<timed, idx, used, loose, crashes, history>>

RevokeSrem(r) ==
  /\ At(r, "revSrem")
  /\ Unindex(req[r].tok)
  /\ out' = out \union {req[r].tok}
  /\ Done(r)
  /\ UNCHANGED <<key, used, loose, crashes, revived, dropped, torn>>

-----------------------------------------------------------------------------
(* revokeOtherSessions(): SMEMBERS, then DEL and SREM for each other one.  *)

Others(r) ==
  /\ At(r, "authed")
  /\ Rest(r, "others", idx \ {req[r].tok})
  /\ UNCHANGED <<store, crashes, history>>

OthersDel(r, t) ==
  /\ At(r, "others") /\ t \in req[r].todo
  /\ Drop(t)
  /\ Enter(r, "othersSrem", t, req[r].todo \ {t}, FALSE)
  /\ UNCHANGED <<timed, idx, used, loose, crashes, history>>

OthersSrem(r) ==
  /\ At(r, "othersSrem")
  /\ Unindex(req[r].tok)
  /\ out' = out \union {req[r].tok}
  /\ Rest(r, "others", req[r].todo)
  /\ UNCHANGED <<key, used, loose, crashes, revived, dropped, torn>>

-----------------------------------------------------------------------------
(* listSessions(): SMEMBERS, then GET for each, and SREM if it is gone.    *)

List(r) ==
  /\ At(r, "authed")
  /\ Rest(r, "list", idx)
  /\ UNCHANGED <<store, crashes, history>>

\* Mistake: whatever the GET returned, the session leaves the index.
ListGet_Always(r, t) ==
  /\ At(r, "list") /\ t \in req[r].todo
  /\ Enter(r, "listSrem", t, req[r].todo \ {t}, FALSE)
  /\ UNCHANGED <<store, crashes, history>>

ListGet(r, t) ==
  /\ At(r, "list") /\ t \in req[r].todo
  /\ IF key[t] # "none" THEN Rest(r, "list", req[r].todo \ {t})
                        ELSE Enter(r, "listSrem", t, req[r].todo \ {t}, FALSE)
  /\ UNCHANGED <<store, crashes, history>>

ListSrem(r) ==
  /\ At(r, "listSrem")
  /\ Unindex(req[r].tok)
  /\ Rest(r, "list", req[r].todo)
  /\ UNCHANGED <<key, used, loose, crashes, history>>

-----------------------------------------------------------------------------
(* Time, Redis and restarts.                                               *)

Age(t) ==
  /\ key[t] = "new"
  /\ key' = [key EXCEPT ![t] = "old"]
  /\ UNCHANGED <<timed, idx, used, loose, req, crashes, history>>

\* The time to live of a session runs out, long after it was last touched.
Expire(t) ==
  /\ key[t] = "old"
  /\ Drop(t)
  /\ UNCHANGED <<timed, idx, used, loose, req, crashes, history>>

IndexExpires ==
  /\ timed /\ Alive \subseteq loose
  /\ idx' = {} /\ timed' = FALSE
  /\ dropped' = dropped \union idx
  /\ UNCHANGED <<key, used, loose, req, crashes, out, revived, torn>>

Crash ==
  /\ crashes < MaxCrashes
  /\ \E r \in Req : ~At(r, "idle")
  /\ crashes' = crashes + 1
  /\ torn' = torn \union {t \in Tok : Halfway(t)}
  /\ req' = [r \in Req |-> Idle]
  /\ UNCHANGED <<store, out, revived, dropped>>

Next ==
  \/ \E r \in Req :
       \/ \E t \in Tok :
            \/ LoginSet(r, t) \/ ResolveGet(r, t) \/ LogoutGet(r, t) \/ Revoke(r, t)
            \/ OthersDel(r, t) \/ ListGet(r, t)
       \/ LoginAdd(r) \/ LoginExpire(r)
       \/ ResolveTtl(r) \/ ResolveSet(r) \/ OtherRoute(r)
       \/ LogoutSrem(r) \/ LogoutDel(r)
       \/ RevokeDel(r) \/ RevokeSrem(r) \/ OthersSrem(r)
       \/ Others(r) \/ List(r) \/ ListSrem(r)
  \/ \E t \in Tok : Age(t) \/ Expire(t)
  \/ IndexExpires
  \/ Crash

Spec == Init /\ [][Next]_vars

-----------------------------------------------------------------------------
(* Properties.                                                             *)

TypeOK ==
  /\ key \in [Tok -> {"none", "new", "old"}]
  /\ idx \subseteq used /\ used \subseteq Tok
  /\ timed \in BOOLEAN /\ (timed => idx # {})
  /\ loose \subseteq Tok /\ dropped \subseteq Tok /\ torn \subseteq Tok
  /\ req \in [Req -> Local]
  /\ crashes \in Nat
  /\ out \subseteq used
  /\ revived \subseteq Tok

\* A session whose end was acknowledged is over, unless a request that used
\* it at that moment wrote it back.
EndedIsGone == \A t \in out \ revived : key[t] = "none"

\* Every live session is in the index, where it can be listed and revoked,
\* unless it was written back after it was gone, or the index expired while
\* it was created, or its login or logout is halfway or died there.
Listed ==
  \A t \in Alive :
    t \in idx \union revived \union dropped \union torn \/ Halfway(t)

\* "Sign out everywhere except the current session": a session that was
\* signed out does not come back.
StaysOut == \A t \in out : key[t] = "none"

=============================================================================
