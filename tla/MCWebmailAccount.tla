-------------------------- MODULE MCWebmailAccount --------------------------
(***************************************************************************)
(* The account of one webmail user, in small instances of WebmailSession,  *)
(* WebmailLogin and Preferences: the sessions it has, the second factor    *)
(* that guards a new one, and the settings row they all write.             *)
(*                                                                         *)
(* The three share no variable, so what a step of one does is the same     *)
(* whatever the others do: a behaviour moves one of them, picked at the    *)
(* start, and the others stay as they began.                               *)
(***************************************************************************)
EXTENDS WebmailSession, WebmailLogin, Preferences, TLC

CONSTANTS t1, t2, r1, r2, h1, h2, k1, task, rule, blocked, allowed,
          tasks, autoClean, blockedSenders, allowedSenders

MCKeyOf == (task :> tasks) @@ (rule :> autoClean) @@
           (blocked :> blockedSenders) @@ (allowed :> allowedSenders)

VARIABLE part

AccountVars == <<vars, loginVars, prefVars, part>>

AccountInit ==
  /\ part \in {"sessions", "login", "preferences"}
  /\ Init /\ LoginInit /\ PrefInit

SessionsMove == part = "sessions" /\ Next /\ UNCHANGED <<loginVars, prefVars, part>>
LoginMoves == part = "login" /\ LoginNext /\ UNCHANGED <<vars, prefVars, part>>
PreferencesMove == part = "preferences" /\ PrefNext /\ UNCHANGED <<vars, loginVars, part>>

AccountSpec ==
  AccountInit /\ [][SessionsMove \/ LoginMoves \/ PreferencesMove]_AccountVars

\* All but dropped and torn, which no step and no property of the run reads.
View ==
  <<key, idx, used, timed, loose, req, crashes, out, revived, loginVars, prefVars, part>>

\* Handlers are interchangeable, and so are tokens and tabs.
Symmetry ==
  Permutations(Req) \union Permutations(Tok) \union Permutations(Handler)
    \union Permutations(Tab) \union Permutations(Writer)

=============================================================================
