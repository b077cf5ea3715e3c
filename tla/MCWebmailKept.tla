--------------------------- MODULE MCWebmailKept ---------------------------
(***************************************************************************)
(* What pages of the webmail keep of what the server has, in small         *)
(* instances of Organizer, Reading and SecurityPage: the calendar, the     *)
(* planner and the tasks; the list of a folder with the message that is    *)
(* read; and the factors that guard a login.                               *)
(*                                                                         *)
(* They share no variable, so a step of one does the same whatever the     *)
(* others do: a behaviour moves one of them, picked at the start, and the  *)
(* others stay as they began.                                              *)
(***************************************************************************)
EXTENDS Organizer, Reading, SecurityPage, TLC

CONSTANTS d1, d2, home, work, e1, k1, t1, l1, m1, b1, b2, a1, a2, w1

VARIABLE part

securityParts == {"authenticator", "email code", "whole row", "passkeys", "two browsers"}

KeptVars == <<organizerVars, readingVars, securityVars, part>>

Alike == Permutations(Contact) \union Permutations(Page)

\* One beginning is enough while the mailbox waits.
KeptInit ==
  /\ part \in {"organizer", "reading"} \union securityParts
  /\ OrganizerInit /\ ReadingInit /\ SecurityInit
  /\ part # "reading" => where = [m \in Letter |-> Opening]

OrganizerMoves == part = "organizer" /\ OrganizerNext /\ UNCHANGED <<readingVars, securityVars, part>>
ReadingMoves == part = "reading" /\ ReadingNext /\ UNCHANGED <<organizerVars, securityVars, part>>

\* What is pressed on the Security page: one card, or one beside the recovery
\* address, in one browser; and two that stay on the page, with the authenticator's
\* card in two browsers, or another writer of the row beside the email's.
Cards ==
  CASE part = "authenticator" -> {"contact", "setup", "verify", "disable"}
    [] part \in {"email code", "whole row"} -> {"contact", "emailSetup", "emailVerify", "emailOff"}
    [] part = "passkeys" -> {"options", "register", "remove"}
    [] OTHER -> {"setup", "verify", "disable"}

Stays(b) ==
  tab'[b].at = tab[b].at \/ (tab[b].at # "security" /\ tab'[b].at \in {"mail", "security"})

SecurityMoves ==
  /\ part \in securityParts
  /\ SecurityNext
  /\ \A w \in wires' \ wires : w.kind \in Cards \union {"me"}
  /\ part \in {"two browsers", "whole row"} => \A b \in Browser : Stays(b)
  /\ part # "two browsers" => tab'[b2] = tab[b2]
  /\ part # "whole row" /\ UNCHANGED wires => UNCHANGED <<prefsRow, copies>>
  /\ UNCHANGED <<organizerVars, readingVars, part>>

KeptSpec == KeptInit /\ [][OrganizerMoves \/ ReadingMoves \/ SecurityMoves]_KeptVars

=============================================================================
