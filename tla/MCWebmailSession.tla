-------------------------- MODULE MCWebmailSession --------------------------
(***************************************************************************)
(* Small instances of WebmailSession.                                      *)
(***************************************************************************)
EXTENDS WebmailSession, TLC

CONSTANTS t1, t2, r1, r2

\* Handlers are interchangeable, and so are tokens.
Symmetry == Permutations(Req) \union Permutations(Tok)

=============================================================================
